----------------------------- MODULE Challenges -----------------------------
(***************************************************************************)
(* How an address gets from its first getchallenge into the game           *)
(* (libcod.cpp: custom_SV_GetChallenge, SV_AuthorizeRequest, the connect   *)
(* message of hook_SV_DirectConnect, hook_AuthorizeState): a table of      *)
(* challenges, the oldest of which is given up when it is full, an         *)
(* authorize server that may never answer, and the bucket all replies are  *)
(* charged to (LeakyBucket: Admit and Refuse are what it does to a         *)
(* packet).  A packet refused for its own address is a packet that was     *)
(* never sent.  svs.time follows the clock from frame to frame, from the   *)
(* same origin.                                                            *)
(*                                                                         *)
(* The clock only goes forward here: LeakyBucket's StepBack is no part of  *)
(* CNext, and nothing is said of the instants at which it is set back.     *)
(***************************************************************************)
EXTENDS LeakyBucket, FiniteSets

CONSTANTS NetAddress,        \* addresses with their ports
          NoAddress,         \* adr of a challenge that was cleared
          Value, NoValue,    \* numbers rand() yields, and zero
          NumSlots,          \* MAX_CHALLENGES
          AuthorizeTimeout,  \* AUTHORIZE_TIMEOUT
          Lan,               \* addresses Sys_IsLANAddress knows, without net_lanauthorize
          MessageChallenges, \* sv_connectMessageChallenges, 0 with no message
          Cracked            \* sv_cracked

ASSUME ChallengesAssumption ==
    /\ NoAddress \notin NetAddress /\ NoValue \notin Value
    /\ NumSlots \in Nat \ {0}
    /\ AuthorizeTimeout \in Nat
    /\ Lan \subseteq NetAddress
    /\ MessageChallenges \in Nat
    /\ Cracked \in BOOLEAN
    /\ 0 \notin StartTimes

VARIABLES svsTime,     \* svs.time
          challenges,  \* svs.challenges and customChallenge
          authorize,   \* svs.authorizeAddress: unresolved, resolved or bad
          lastHeard,   \* svs.sv_lastTimeMasterServerCommunicated
          sent,        \* challenges the authorize server has been asked about
          reply,       \* the challengeResponse of this step, and why it is sent
          read,        \* connect messages shown for a challenge since it was issued
          firstAsked,  \* svs.time of the first getchallenge let through, or 0
          newcomers    \* addresses that never connected and were never denied

cvars == <<now, bucket, svsTime, challenges, authorize, lastHeard, sent, reply,
           read, firstAsked, newcomers>>
observed == <<read, firstAsked, newcomers>>

Slots == 1 .. NumSlots

(* Memory of zeros: never used, or cleared when the client was denied.     *)
Cleared(ignored) == [adr |-> NoAddress, challenge |-> NoValue, time |-> 0, firstTime |-> 0,
                     connected |-> FALSE, ignoredCount |-> ignored]

NoReply == [to |-> NoAddress, why |-> "none"]

First(set) == CHOOSE i \in set : \A j \in set : i <= j

----------------------------------------------------------------------------
(* custom_SV_GetChallenge *)

(* Challenges of the address nobody plays with. *)
Pending(a) == {i \in Slots : ~challenges[i].connected /\ challenges[i].adr = a}

(* Mutant: the challenge that was issued last is given up. *)
Youngest == First({i \in Slots : \A j \in Slots : challenges[j].time <= challenges[i].time})

Oldest == First({i \in Slots : \A j \in Slots : challenges[i].time <= challenges[j].time})

(* Mutant: the new challenge is as old as the one it replaces. *)
IssuedInherits(i, a, v) ==
    [challenges EXCEPT ![i] = [@ EXCEPT !.adr = a, !.challenge = v, !.time = svsTime,
                                        !.connected = FALSE, !.ignoredCount = 0]]

(* Mutant: connections ignored for the address before are counted. *)
IssuedCounted(i, a, v) ==
    [challenges EXCEPT ![i] = [adr |-> a, challenge |-> v, time |-> svsTime,
                               firstTime |-> svsTime, connected |-> FALSE,
                               ignoredCount |-> @.ignoredCount]]

Issued(i, a, v) ==
    [challenges EXCEPT ![i] = [adr |-> a, challenge |-> v, time |-> svsTime,
                               firstTime |-> svsTime, connected |-> FALSE,
                               ignoredCount |-> 0]]

(* Neither the authorize server nor the client's patience lasts for ever. *)
TimedOut(c) == /\ AuthorizeTimeout < svsTime - lastHeard
               /\ AuthorizeTimeout < svsTime - c.firstTime

AnswerLan(a) == /\ a \in Lan
                /\ reply' = [to |-> a, why |-> "lan"]
                /\ UNCHANGED <<authorize, sent>>

(* A name that was not found may be looked up again or never again. *)
AnswerUnresolved(a) == /\ a \notin Lan /\ authorize = "unresolved"
                       /\ authorize' \in {"unresolved", "bad"}
                       /\ reply' = NoReply
                       /\ UNCHANGED sent

AuthorizeResolved == authorize' = IF authorize = "bad" THEN "bad" ELSE "resolved"

AnswerTimedOut(a, c) == /\ a \notin Lan /\ AuthorizeResolved
                        /\ TimedOut(c)
                        /\ reply' = [to |-> a, why |-> "timeout"]
                        /\ UNCHANGED sent

(* SV_AuthorizeRequest *)
AuthorizeRequest(a, c) == /\ a \notin Lan /\ AuthorizeResolved
                          /\ ~TimedOut(c)
                          /\ sent' = IF authorize' = "bad" THEN sent
                                     ELSE sent \cup {c.challenge}
                          /\ reply' = NoReply

Answer(a, c) == \/ AnswerLan(a) \/ AnswerUnresolved(a)
                \/ AnswerTimedOut(a, c) \/ AuthorizeRequest(a, c)

Asked(a) == firstAsked' = IF firstAsked[a] = 0 THEN [firstAsked EXCEPT ![a] = svsTime]
                          ELSE firstAsked

(* Mutant: whoever asks again starts to wait again. *)
GetChallengeAgainRestarts(a) ==
    /\ Admit
    /\ Pending(a) # {}
    /\ LET i == First(Pending(a))
       IN  /\ Answer(a, challenges[i])
           /\ challenges' = [challenges EXCEPT ![i].firstTime = svsTime]
    /\ Asked(a)
    /\ UNCHANGED <<svsTime, lastHeard, read, newcomers>>

GetChallengeAgain(a) ==
    /\ Admit
    /\ Pending(a) # {}
    /\ Answer(a, challenges[First(Pending(a))])
    /\ Asked(a)
    /\ UNCHANGED <<svsTime, challenges, lastHeard, read, newcomers>>

(* rand() repeats no challenge the address has. *)
GetChallengeAnew(a, v) ==
    /\ Admit
    /\ Pending(a) = {}
    /\ \A i \in Slots : challenges[i].adr = a => challenges[i].challenge # v
    /\ challenges' = Issued(Oldest, a, v)
    /\ Answer(a, challenges'[Oldest])
    /\ read' = [read EXCEPT ![a][v] = 0]
    /\ Asked(a)
    /\ UNCHANGED <<svsTime, lastHeard, newcomers>>

----------------------------------------------------------------------------
(* connect *)

Presented(a, v) == {i \in Slots : challenges[i].adr = a /\ challenges[i].challenge = v}
Unread(a, v) == {i \in Presented(a, v) : challenges[i].ignoredCount < MessageChallenges}

(* The message is shown instead of connecting. *)
ConnectIgnored(a, v) ==
    /\ Admit
    /\ Unread(a, v) # {}
    /\ challenges' = [challenges EXCEPT ![First(Unread(a, v))].ignoredCount = @ + 1]
    /\ read' = [read EXCEPT ![a][v] = @ + 1]
    /\ reply' = NoReply
    /\ UNCHANGED <<svsTime, authorize, lastHeard, sent, firstAsked, newcomers>>

(* What SV_DirectConnect does with a challenge it knows and a client it    *)
(* has room for.                                                           *)
DirectConnect(a, v) ==
    /\ Admit
    /\ Presented(a, v) # {} /\ Unread(a, v) = {}
    /\ challenges' = [challenges EXCEPT ![First(Presented(a, v))].connected = TRUE]
    /\ newcomers' = newcomers \ {a}
    /\ reply' = NoReply
    /\ UNCHANGED <<svsTime, authorize, lastHeard, sent, read, firstAsked>>

(* SV_DropClient *)
Disconnect(i) ==
    /\ challenges[i].connected
    /\ challenges' = [challenges EXCEPT ![i].connected = FALSE]
    /\ reply' = NoReply
    /\ UNCHANGED <<now, bucket, svsTime, authorize, lastHeard, sent, observed>>

----------------------------------------------------------------------------
(* ipAuthorize: the authorize server answers, early, late or never. *)

AuthorizeState(verdict) == IF Cracked /\ verdict = "deny" THEN "accept" ELSE verdict

AuthorizeIpPacket(v, verdict) ==
    /\ Admit
    /\ v \in sent /\ sent' = sent \ {v}
    /\ lastHeard' = svsTime
    /\ LET known == {i \in Slots : challenges[i].challenge = v}
           i == First(known)
           a == challenges[i].adr
       IN  \/ /\ known # {} /\ AuthorizeState(verdict) = "accept"
              /\ reply' = [to |-> a, why |-> "accept"]
              /\ UNCHANGED <<challenges, newcomers>>
           \/ /\ known # {} /\ AuthorizeState(verdict) = "deny"
              /\ challenges' = [challenges EXCEPT ![i] = Cleared(@.ignoredCount)]
              /\ newcomers' = newcomers \ {a}
              /\ reply' = NoReply
           \/ /\ known = {}
              /\ reply' = NoReply
              /\ UNCHANGED <<challenges, newcomers>>
    /\ UNCHANGED <<svsTime, authorize, read, firstAsked>>

----------------------------------------------------------------------------
(* getinfo or getstatus *)
OtherReply == /\ Admit
              /\ reply' = NoReply
              /\ UNCHANGED <<svsTime, challenges, authorize, lastHeard, sent, observed>>

(* Any packet, while replies are limited. *)
PacketRefused == /\ Refuse
                 /\ reply' = NoReply
                 /\ UNCHANGED <<svsTime, challenges, authorize, lastHeard, sent, observed>>

(* The clock moves on, and with it svs.time where SV_Frame ran.            *)
Millisecond == /\ Tick
               /\ svsTime' \in {svsTime, now'}
               /\ reply' = NoReply
               /\ UNCHANGED <<challenges, authorize, lastHeard, sent, observed>>

CInit == /\ Init
         /\ svsTime = now
         /\ challenges = [i \in Slots |-> Cleared(0)]
         /\ authorize = "unresolved"
         /\ lastHeard = 0
         /\ sent = {}
         /\ reply = NoReply
         /\ read = [a \in NetAddress |-> [v \in Value |-> 0]]
         /\ firstAsked = [a \in NetAddress |-> 0]
         /\ newcomers = NetAddress

CNext == \/ \E a \in NetAddress : \/ GetChallengeAgain(a)
                                  \/ \E v \in Value : \/ GetChallengeAnew(a, v)
                                                      \/ ConnectIgnored(a, v)
                                                      \/ DirectConnect(a, v)
         \/ \E i \in Slots : Disconnect(i)
         \/ \E v \in Value, verdict \in {"accept", "deny"} : AuthorizeIpPacket(v, verdict)
         \/ OtherReply \/ PacketRefused \/ Millisecond

CSpec == CInit /\ [][CNext]_cvars

----------------------------------------------------------------------------
TypeOK ==
    /\ now \in Nat
    /\ bucket \in [lastTime : Int, burst : 0 .. Burst]
    /\ svsTime \in 1 .. now
    /\ challenges \in [Slots -> [adr : NetAddress \cup {NoAddress},
                                 challenge : Value \cup {NoValue},
                                 time : Nat, firstTime : Nat, connected : BOOLEAN,
                                 ignoredCount : Nat]]
    /\ authorize \in {"unresolved", "resolved", "bad"}
    /\ lastHeard \in Nat
    /\ sent \subseteq Value
    /\ reply \in [to : NetAddress \cup {NoAddress},
                  why : {"none", "lan", "timeout", "accept"}]
    /\ read \in [NetAddress -> [Value -> Nat]]
    /\ firstAsked \in [NetAddress -> Nat]
    /\ newcomers \subseteq NetAddress

(* How long a challenge is kept whatever is asked of the server: the table *)
(* is given up from its oldest end, no faster than replies are let         *)
(* through.                                                                *)
Lifetime == (NumSlots - Burst) * Period

GivenUp(i) == /\ challenges[i].adr # NoAddress /\ challenges'[i].adr # NoAddress
              /\ \/ challenges'[i].adr # challenges[i].adr
                 \/ challenges'[i].challenge # challenges[i].challenge

(* A flood of getchallenge from any number of addresses cannot push a      *)
(* challenge out of the table before its client had more than Lifetime to  *)
(* answer with connect: the outbound bucket, shared by five handlers, and  *)
(* the choice of the oldest slot must agree for that.                      *)
ChallengeLives == [][\A i \in Slots : GivenUp(i) => now - challenges[i].time > Lifetime]_cvars

(* A newcomer who keeps asking is let through once the authorize server    *)
(* has been silent for AuthorizeTimeout, though others flood the table and *)
(* the first requests are older than that: asking again must not begin the *)
(* wait again, and the challenge must not be lost meanwhile.               *)
PatientIsAnswered ==
    [][\A a \in newcomers :
         (/\ GetChallengeAgain(a) \/ \E v \in Value : GetChallengeAnew(a, v)
          /\ firstAsked[a] # 0
          /\ AuthorizeTimeout < svsTime - firstAsked[a]
          /\ now - firstAsked[a] <= Lifetime
          /\ AuthorizeTimeout < svsTime - lastHeard
          /\ authorize # "unresolved")
         => reply'.to = a]_cvars

(* Nobody is let through as timed out who did not begin to ask more than   *)
(* AuthorizeTimeout ago: a slot that was given up, or cleared when a       *)
(* client was denied, must not lend its age to the next address.           *)
NoEarlyTimeout ==
    reply.why = "timeout" => AuthorizeTimeout < svsTime - firstAsked[reply.to]

(* Whoever is in the game was shown the connect message as often as        *)
(* sv_connectMessageChallenges asks, for the challenge it came in with and *)
(* not for one of the addresses that had the slot before.                  *)
ReadBeforeEntry ==
    \A i \in Slots : challenges[i].connected =>
        read[challenges[i].adr][challenges[i].challenge] >= MessageChallenges

----------------------------------------------------------------------------
(* Why: a slot that names an address holds a challenge of it, issued after *)
(* its first request.                                                      *)
Entries ==
    /\ \A a \in NetAddress : firstAsked[a] <= svsTime
    /\ \A i \in Slots :
          /\ challenges[i].time <= svsTime
          /\ challenges[i].adr # NoAddress =>
                /\ challenges[i].challenge \in Value
                /\ challenges[i].time > 0
                /\ firstAsked[challenges[i].adr] \in 1 .. challenges[i].firstTime

(* No address has the same challenge twice, and the count of ignored       *)
(* connections is of the challenge the slot holds now.                     *)
Counted ==
    \A i \in Slots :
       /\ challenges[i].adr # NoAddress =>
             /\ read[challenges[i].adr][challenges[i].challenge] = challenges[i].ignoredCount
             /\ \A j \in Slots : (j # i /\ challenges[j].adr = challenges[i].adr)
                   => challenges[j].challenge # challenges[i].challenge
       /\ challenges[i].connected =>
             /\ challenges[i].adr # NoAddress
             /\ challenges[i].ignoredCount >= MessageChallenges

(* Why a newcomer is answered: nobody plays with its challenges, and while *)
(* its first one cannot have been given up, that is the one in the table,  *)
(* as old as the first request.                                            *)
Patient ==
    \A a \in newcomers :
       /\ \A i \in Slots : challenges[i].adr = a => ~challenges[i].connected
       /\ (firstAsked[a] # 0 /\ now - firstAsked[a] <= Lifetime) =>
             /\ \E i \in Slots : challenges[i].adr = a
             /\ \A i \in Slots : challenges[i].adr = a =>
                   /\ challenges[i].time = firstAsked[a]
                   /\ challenges[i].firstTime = firstAsked[a]

(* Why a challenge lives: those issued since any instant were paid for by  *)
(* the instant at which the bucket is empty.                               *)
Since(s) == {i \in Slots : challenges[i].time >= s}

PaidFor ==
    \A s \in 1 .. svsTime :
       Since(s) # {} => /\ Cardinality(Since(s)) * Period <= EmptyAt(bucket, Period) - s + (Period - 1)
                        /\ bucket.lastTime <= now
=============================================================================
