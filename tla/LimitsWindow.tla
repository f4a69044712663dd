---------------------------- MODULE LimitsWindow ----------------------------
(***************************************************************************)
(* ConnectionlessLimits observed: what the limits promise to the server    *)
(* (how much one address, and all of them together, get through) and to    *)
(* the addresses that behave (that they are refused only for what was let  *)
(* through).  The observers look at the verdicts on packets only, not at   *)
(* buckets.                                                                *)
(*                                                                         *)
(* The first three are debts, in milliseconds: each packet let through     *)
(* adds what it costs, each millisecond takes off what is allowed in it,   *)
(* down to nothing.  A debt that stays below D + P means that any window   *)
(* of time sees at most what is allowed in it, and D + P more.  They begin *)
(* again when the clock is set back, which empties the buckets.            *)
(***************************************************************************)
EXTENDS ConnectionlessLimits

CONSTANTS Watched, \* one address, any
          MaxPaid  \* bound on repliesPaid and guessesPaid for a clock set back

ASSUME WatchedAssumption == Watched \in Address

VARIABLES used,        \* what Watched has got past its own limit
          replies,     \* what got past the limit of all replies
          guesses,     \* bad passwords that were looked at
          repliesPaid, \* when the replies let through, each paid for
          guessesPaid  \* after the one before, are all paid for

observers == <<used, replies, guesses, repliesPaid, guessesPaid>>

wvars == <<vars, observers>>

AtLeast(x, min) == IF x < min THEN min ELSE x

WInit == /\ Init
         /\ used = 0 /\ replies = 0 /\ guesses = 0
         /\ repliesPaid = 0 /\ guessesPaid = 0

(* A packet of address a that was not refused for its address's sake.      *)
Watch(a) ==
    used' = IF a = Watched /\ verdict' # "address"
            THEN used + AddressLimit * Period ELSE used

WatchReply(a) ==
    LET sent == verdict' = "served"
    IN  /\ Watch(a)
        /\ replies' = IF sent THEN replies + OutPeriod ELSE replies
        /\ repliesPaid' = IF sent THEN AtLeast(repliesPaid, now) + OutPeriod ELSE repliesPaid
        /\ UNCHANGED <<guesses, guessesPaid>>

WatchCommand(a, badRconPassword) ==
    LET guessed == badRconPassword /\ verdict' = "served"
    IN  /\ Watch(a)
        /\ guesses' = IF guessed THEN guesses + Period ELSE guesses
        /\ guessesPaid' = IF guessed THEN AtLeast(guessesPaid, now) + Period ELSE guessesPaid
        /\ UNCHANGED <<replies, repliesPaid>>

WTick == /\ Tick
         /\ used' = AtLeast(used - AuthorizeLimit, 0)
         /\ replies' = AtLeast(replies - 1, 0)
         /\ guesses' = AtLeast(guesses - 1, 0)
         /\ UNCHANGED <<repliesPaid, guessesPaid>>

WStepBack == /\ StepBack
             /\ repliesPaid <= MaxPaid /\ guessesPaid <= MaxPaid
             /\ used' = 0 /\ replies' = 0 /\ guesses' = 0
             /\ UNCHANGED <<repliesPaid, guessesPaid>>

WNext == \/ \E a \in Address : \/ GetChallenge(a) /\ WatchReply(a)
                               \/ DirectConnect(a) /\ WatchReply(a)
                               \/ AuthorizeIpPacket(a) /\ WatchReply(a)
                               \/ Info(a) /\ WatchReply(a)
                               \/ Status(a) /\ WatchReply(a)
                               \/ \E bad \in BOOLEAN :
                                    RemoteCommand(a, bad) /\ WatchCommand(a, bad)
         \/ WTick
         \/ WStepBack

WSpec == WInit /\ [][WNext]_wvars

----------------------------------------------------------------------------
(* Whatever slots the address is given, loses to others and is given       *)
(* again, and however it mixes packets of the two limits, it gets at most  *)
(* AuthorizeLimit requests through per AddressLimit periods (2 a second)   *)
(* and one burst of AuthorizeLimit.  That is more than either limit allows *)
(* for alone: a packet of AddressLimit takes a slot that owes for          *)
(* AuthorizeLimit, and what it owed beyond AddressLimit periods is         *)
(* forgiven.                                                               *)
AddressBound == used <= AuthorizeLimit * (AddressLimit * Period + Period - 1)

(* All addresses together get one reply per OutPeriod and a burst of       *)
(* OutLimit through, whichever handlers they ask, and have one bad         *)
(* password per Period and a burst of AddressLimit looked at, however      *)
(* good ones come in between.                                              *)
SharedBound == /\ replies <= OutLimit * OutPeriod + OutPeriod - 1
               /\ guesses <= AddressLimit * Period + Period - 1

(* An address that is within its own limit is refused for the others' sake *)
(* only if what was really let through has used the shared limit up: not   *)
(* for packets that were dropped, for good passwords, or twice for one     *)
(* reply.                                                                  *)
OthersAreDue ==
    /\ verdict = "replies" => repliesPaid > now + (OutLimit - 1) * OutPeriod
    /\ verdict = "guesses" => guessesPaid > now + (AddressLimit - 1) * Period
=============================================================================
