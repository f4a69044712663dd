---------------------------- MODULE SendSchedule ----------------------------
(***************************************************************************)
(* When a client is sent what (SV_SendClientMessages, SV_SendMessageToClient, *)
(* SV_RateMsec): the fragments of a message, snapshots, the gamestate and  *)
(* the download of a file share one network channel and one nextSnapshotTime. *)
(*                                                                         *)
(* delay is nextSnapshotTime - svs.time, or 0 when that time has come.  Of *)
(* a message only the size matters.  rateDelayed, which clients are told,  *)
(* and the statistics of sv_showAverageBPS are left out.                   *)
(***************************************************************************)
EXTENDS Integers

CONSTANTS Rates,          \* the values of client->rate
          LowestRate,     \* the least of them
          MaxRates,       \* the values of sv_maxRate; 0: no limit
          MinMaxRate,     \* sv_maxRate is raised to it: 1000
          Msecs,          \* the values of client->snapshotMsec
          MaxMsec,        \* the greatest of them
          DownloadRate,   \* client->rate during a download: 25000
          DownloadMsec,   \* client->snapshotMsec during a download: 50
          Sizes,          \* sizes of compressed messages
          FragmentSize,   \* the bytes of a message one packet takes
          RateSize,       \* more of a message is not charged at once: 1500
          Header,         \* HEADER_RATE_BYTES: 48
          Second,         \* 1000
          FrameMsecs      \* lengths of a server frame

AllRates == Rates \cup {DownloadRate, MinMaxRate}
AllMsecs == Msecs \cup {DownloadMsec}

(* Nothing bounds a rate from above: with sv_maxRate 0 it is client->rate. *)
ASSUME ScheduleAssumption ==
    /\ Second \in Nat \ {0} /\ Header \in Nat
    /\ LowestRate \in Nat \ {0}
    /\ AllRates \subseteq Nat /\ \A r \in AllRates : LowestRate <= r
    /\ MaxRates \subseteq Int
    /\ MaxMsec \in Nat /\ AllMsecs \subseteq 0 .. MaxMsec
    /\ FragmentSize \in Nat \ {0}
    /\ RateSize \in Nat /\ FragmentSize <= RateSize
    /\ Sizes \subseteq Nat
    /\ FrameMsecs \subseteq Nat \ {0}
    /\ Rates # {} /\ Msecs # {}

VARIABLES cl,       \* the client
          fast,     \* sv_fastDownload
          maxRate,  \* sv_maxRate
          debt,     \* bytes to be paid for and not yet paid, times Second
          since,    \* time since a message was begun, up to MaxMsec
          silent    \* time since a packet was sent

cvars == <<fast, maxRate>>
vars == <<cl, cvars, debt, since, silent>>

Least(a, b) == IF a <= b THEN a ELSE b
Most(a, b) == IF a >= b THEN a ELSE b

(* SV_DirectConnect.  LAN clients are not rated. *)
Connected(lan, rate, msec) ==
    [state |-> "connected", lan |-> lan, rate |-> rate, snapshotMsec |-> msec,
     downloadName |-> FALSE, download |-> FALSE, dropReason |-> FALSE,
     unsentFragments |-> FALSE, left |-> 0, delay |-> 0, cut |-> FALSE]

Init == /\ \E lan \in BOOLEAN, rate \in Rates, msec \in Msecs :
              cl = Connected(lan, rate, msec)
        /\ fast \in BOOLEAN /\ maxRate \in MaxRates
        /\ debt = 0 /\ since = MaxMsec /\ silent = 0

----------------------------------------------------------------------------
(* sv_maxRate as SV_RateMsec leaves it. *)
Raised == IF maxRate # 0 /\ maxRate < MinMaxRate THEN MinMaxRate ELSE maxRate

Rate(c) == IF maxRate = 0 THEN c.rate ELSE Least(c.rate, Raised)

(* Mutant: the whole message is charged at once. *)
RateMsecOfAll(c, size) == ((size + Header) * Second) \div Rate(c)

(* Mutant: the header is not charged. *)
RateMsecBare(c, size) == (Least(size, RateSize) * Second) \div Rate(c)

RateMsec(c, size) == ((Least(size, RateSize) + Header) * Second) \div Rate(c)

(* Netchan_Transmit sends the first fragment of a message at once; one that *)
(* fills its fragments is followed by an empty one.                        *)
Transmitted(c, size) ==
    IF size < FragmentSize
    THEN [c EXCEPT !.unsentFragments = FALSE, !.left = 0, !.cut = @ \/ c.unsentFragments]
    ELSE [c EXCEPT !.unsentFragments = TRUE, !.left = size - FragmentSize,
                   !.cut = @ \/ c.unsentFragments]

(* Netchan_TransmitNextFragment *)
NextFragment(c) ==
    IF c.left < FragmentSize THEN [c EXCEPT !.unsentFragments = FALSE, !.left = 0]
    ELSE [c EXCEPT !.left = @ - FragmentSize]

Flushed(c) == [c EXCEPT !.unsentFragments = FALSE, !.left = 0]

(* SV_DropClient *)
Dropped(c) == [c EXCEPT !.state = "zombie", !.dropReason = FALSE,
                        !.downloadName = FALSE, !.download = FALSE]

Unrated(c) == c.lan \/ (fast /\ c.download)

(* Mutant: snapshotMsec is not looked at. *)
PauseByRate(c, size) ==
    IF c.state # "active" /\ ~c.downloadName THEN Most(RateMsec(c, size), Second)
    ELSE RateMsec(c, size)

Pause(c, size) ==
    LET rateMsec == Most(RateMsec(c, size), c.snapshotMsec)
    IN  IF c.state # "active" /\ ~c.downloadName THEN Most(rateMsec, Second) ELSE rateMsec

(* custom_SV_SendMessageToClient *)
Sent(c, size) ==
    LET d == IF c.dropReason THEN Dropped(c) ELSE c
    IN  [Transmitted(d, size) EXCEPT !.delay = IF Unrated(d) THEN 0 ELSE Pause(d, size)]

(* custom_SV_WriteDownloadToClient, within a snapshot: the download may be *)
(* opened, or refused; an empty file is refused when it has been opened.   *)
WrittenTo(c) ==
    IF ~c.downloadName THEN {c}
    ELSE LET d == [c EXCEPT !.state = "connected", !.rate = DownloadRate,
                            !.snapshotMsec = DownloadMsec]
         IN  IF c.download THEN {d}
             ELSE {[d EXCEPT !.download = TRUE], [d EXCEPT !.downloadName = FALSE],
                   [d EXCEPT !.download = TRUE, !.downloadName = FALSE]}

----------------------------------------------------------------------------
(* What is seen.  Packets that are not rated end the window, as do the     *)
(* gamestate, which is sent whenever it is asked for, and entering the     *)
(* world, which makes the next snapshot due.                               *)

(* What SV_RateMsec lets through for nothing with each packet: the part of *)
(* a millisecond its division loses, as far as the header does not cover   *)
(* it.  That is nothing up to Header * Second (48000).                     *)
Excess(c) == Most(Rate(c) - Header * Second, 0)

Charge(c, size) == Most(Least(size, FragmentSize) * Second - Excess(c), 0)

SeenWait(msec) ==
    /\ debt' = Most(debt - Rate(cl) * msec, 0)
    /\ since' = Least(since + msec, MaxMsec)
    /\ silent' = silent + msec

SeenUnscheduled == debt' = 0 /\ since' = MaxMsec

SeenChange ==
    /\ debt' = IF Rate(cl)' = Rate(cl) THEN debt ELSE 0
    /\ since' = IF cl'.snapshotMsec = cl.snapshotMsec THEN since ELSE MaxMsec
    /\ UNCHANGED silent

(* custom_SV_SendClientMessages, once per frame, after svs.time moved on.  *)
Due(msec) == cl.delay <= msec

Fast == fast /\ cl.download

FrameWaits(msec) ==
    /\ ~Due(msec)
    /\ cl' = [cl EXCEPT !.delay = @ - msec]
    /\ SeenWait(msec)
    /\ UNCHANGED cvars

(* Mutant: a snapshot follows the fragment. *)
FrameFragmentAndSnapshot(msec) ==
    /\ Due(msec) /\ ~Fast /\ cl.unsentFragments
    /\ \E c \in WrittenTo(NextFragment(cl)), size \in Sizes : cl' = Sent(c, size)
    /\ debt' = 0 /\ since' = 0 /\ silent' = 0
    /\ maxRate' = Raised /\ UNCHANGED fast

FrameFragment(msec) ==
    /\ Due(msec) /\ ~Fast /\ cl.unsentFragments
    /\ cl' = [NextFragment(cl) EXCEPT !.delay = RateMsec(cl, cl.left)]
    /\ debt' = Most(debt - Rate(cl) * msec, 0) + Charge(cl, cl.left)
    /\ since' = Least(since + msec, MaxMsec)
    /\ silent' = 0
    /\ maxRate' = Raised /\ UNCHANGED fast

FrameSnapshot(msec, size) ==
    /\ Due(msec) /\ ~Fast /\ ~cl.unsentFragments
    /\ \E c \in WrittenTo(cl) :
          /\ cl' = Sent(c, size)
          /\ IF Unrated(c)
             THEN SeenUnscheduled /\ maxRate' \in {maxRate, Raised}
             ELSE /\ debt' = Most(debt - Rate(cl) * msec, 0) + Charge(c, size)
                  /\ since' = 0
                  /\ maxRate' = Raised
    /\ silent' = 0
    /\ UNCHANGED fast

(* Several snapshots, each flushed before the next, and at most the last   *)
(* unfinished.                                                             *)
FrameFast(msec, size) ==
    /\ Due(msec) /\ Fast
    /\ \E c \in WrittenTo(Flushed(cl)) : cl' = Sent(c, size)
    /\ SeenUnscheduled /\ silent' = 0
    /\ maxRate' \in {maxRate, Raised}
    /\ UNCHANGED fast

Frame(msec) ==
    \/ FrameWaits(msec) \/ FrameFragment(msec)
    \/ \E size \in Sizes : FrameSnapshot(msec, size) \/ FrameFast(msec, size)

----------------------------------------------------------------------------
(* "connected" stands for CS_PRIMED too; the userinfo is read again. *)
Primed(c, rate, msec) ==
    [c EXCEPT !.state = "connected", !.rate = rate, !.snapshotMsec = msec]

(* Mutant: what is left of the last message is not sent first. *)
SendClientGameStateAtOnce(size) ==
    /\ cl.state # "zombie"
    /\ \E rate \in Rates, msec \in Msecs :
          cl' = Sent(Primed(cl, rate, msec), size)
    /\ SeenUnscheduled /\ silent' = 0
    /\ maxRate' \in {maxRate, Raised}
    /\ UNCHANGED fast

(* custom_SV_SendClientGameState *)
SendClientGameState(size) ==
    /\ cl.state # "zombie"
    /\ \E rate \in Rates, msec \in Msecs :
          cl' = Sent(Primed(Flushed(cl), rate, msec), size)
    /\ SeenUnscheduled /\ silent' = 0
    /\ maxRate' \in {maxRate, Raised}
    /\ UNCHANGED fast

(* SV_ClientEnterWorld: the next snapshot is due.  *)
ClientEnterWorld ==
    /\ cl.state = "connected"
    /\ cl' = [cl EXCEPT !.state = "active", !.delay = 0]
    /\ SeenUnscheduled
    /\ UNCHANGED <<cvars, silent>>

(* custom_SV_ExecuteClientMessage: a client found impure is dropped and    *)
(* sent one more snapshot, as if it was in the game.                       *)
UnpureClient(size) ==
    /\ cl.state # "zombie"
    /\ cl' = [Sent([Dropped(cl) EXCEPT !.state = "active"], size)
                 EXCEPT !.state = "zombie"]
    /\ SeenUnscheduled /\ silent' = 0
    /\ maxRate' \in {maxRate, Raised}
    /\ UNCHANGED fast

(* The game drops the client at its next message. *)
SetDropReason ==
    /\ cl.state # "zombie"
    /\ cl' = [cl EXCEPT !.dropReason = TRUE]
    /\ UNCHANGED <<cvars, debt, since, silent>>

BeginDownload ==
    /\ cl.state # "zombie"
    /\ cl' = [cl EXCEPT !.downloadName = TRUE, !.download = FALSE]
    /\ UNCHANGED <<cvars, debt, since, silent>>

EndDownload ==
    /\ cl.downloadName \/ cl.download
    /\ cl' = [cl EXCEPT !.downloadName = FALSE, !.download = FALSE]
    /\ UNCHANGED <<cvars, debt, since, silent>>

UserinfoChanged ==
    /\ cl.state # "zombie"
    /\ \E rate \in Rates, msec \in Msecs :
          cl' = [cl EXCEPT !.rate = rate, !.snapshotMsec = msec]
    /\ UNCHANGED cvars
    /\ SeenChange

CvarChanged ==
    /\ fast' \in BOOLEAN /\ maxRate' \in MaxRates
    /\ UNCHANGED cl
    /\ SeenChange

(* The zombie's slot is taken by the next player. *)
DirectConnect ==
    /\ cl.state = "zombie"
    /\ \E lan \in BOOLEAN, rate \in Rates, msec \in Msecs :
          cl' = Connected(lan, rate, msec)
    /\ SeenUnscheduled /\ silent' = 0
    /\ UNCHANGED cvars

Next == \/ \E msec \in FrameMsecs : Frame(msec)
        \/ \E size \in Sizes : SendClientGameState(size) \/ UnpureClient(size)
        \/ ClientEnterWorld \/ SetDropReason \/ BeginDownload \/ EndDownload
        \/ UserinfoChanged \/ CvarChanged \/ DirectConnect

Spec == Init /\ [][Next]_vars

FairSpec == Spec /\ WF_vars(\E msec \in FrameMsecs : Frame(msec))

----------------------------------------------------------------------------
Client == [state : {"zombie", "connected", "active"}, lan : BOOLEAN,
           rate : Rates \cup {DownloadRate}, snapshotMsec : AllMsecs,
           downloadName : BOOLEAN, download : BOOLEAN, dropReason : BOOLEAN,
           unsentFragments : BOOLEAN, left : Nat, delay : Nat, cut : BOOLEAN]

TypeOK == /\ cl \in Client
          /\ fast \in BOOLEAN /\ maxRate \in MaxRates \cup {MinMaxRate}
          /\ debt \in Nat /\ since \in 0 .. MaxMsec /\ silent \in Nat

(* The longest a client that asks for little waits for a packet.           *)
Longest == Most(Most(MaxMsec, Second), ((RateSize + Header) * Second) \div LowestRate)

(* A client is sent no more than its rate allows and one packet, over any  *)
(* window in which the rate stays and nothing is sent that is not rated:   *)
(* whatever part of it are fragments, snapshots, or parts of a download.   *)
(* Of a client with a rate above Header * Second, each packet may exceed   *)
(* that by Excess, and by no more.                                         *)
RateKept == debt <= FragmentSize * Second

(* Between the beginnings of two messages at least snapshotMsec pass,      *)
(* although the fragments in between set nextSnapshotTime without a look   *)
(* at it.                                                                  *)
Paced == [][\A msec \in FrameMsecs, size \in Sizes :
               FrameSnapshot(msec, size) => since + msec >= cl.snapshotMsec]_vars

(* No client is kept waiting: however large the messages, however low      *)
(* sv_maxRate, a packet is sent after Longest and one frame at the latest. *)
NotStarved == silent <= Longest

(* Each message is sent to its end before the next is begun, but for the   *)
(* last snapshot of a client that is thrown out.                           *)
NotCutOff == cl.cut => cl.state = "zombie"

(* What is sent in fragments is sent to its end, and the client is due for *)
(* a snapshot again, unless it is sent the gamestate over and over.  In a  *)
(* fast download each frame sends what the last one left.                  *)
FragmentsEnd ==
    \/ []<>(~cl.unsentFragments \/ Fast)
    \/ []<><<\E size \in Sizes : SendClientGameState(size)>>_vars

(* The inductive invariant: the delay pays for the debt, is long enough for *)
(* the pace, and short enough not to starve.                               *)
DelayPays == debt <= Rate(cl) * cl.delay
DelayPaces == since + cl.delay >= cl.snapshotMsec
DelayEnds == silent + cl.delay <= Longest

(* A client that was dropped downloads nothing, so that no snapshot makes  *)
(* it a connected one.                                                     *)
ZombieIdle == cl.state = "zombie" => ~cl.downloadName

ScheduleIInv == /\ TypeOK
                /\ DelayPays /\ RateKept
                /\ DelayPaces /\ DelayEnds
                /\ ZombieIdle /\ NotCutOff
=============================================================================
