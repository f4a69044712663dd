---------------------------- MODULE LeakyBucket ----------------------------
(***************************************************************************)
(* One leaky bucket, the clock it reads and the requests charged to it:    *)
(* the outbound bucket shared by getstatus, getinfo, getchallenge, connect *)
(* and ipAuthorize, or the bucket that bad rcon passwords are charged to.  *)
(* gettimeofday is not monotonic: an administrator or a time daemon may    *)
(* set the clock back (StepBack).                                          *)
(***************************************************************************)
EXTENDS RateLimit

CONSTANTS Burst,      \* requests a bucket holds: 10, or 20 for ipAuthorize
          Period,     \* milliseconds it takes to leak one: 1000, or 100
          StartTimes, \* what the clock may read at first: 0 .. 999
          StepSizes,  \* by how much the clock may be set back
          MaxNow      \* bound on the clock

ASSUME LimitAssumption ==
    /\ Burst \in Nat \ {0}
    /\ Period \in Nat \ {0}
    /\ (Burst + 1) * Period <= IntHalf
    /\ StartTimes \subseteq Nat
    /\ StepSizes \subseteq Nat

VARIABLES now, bucket

vars == <<now, bucket>>

Init == /\ now \in StartTimes
        /\ bucket = ZeroBucket

Admit == /\ ~Limited(bucket, Burst, Period, now)
         /\ bucket' = Charge(bucket, Burst, Period, now)
         /\ UNCHANGED now

Refuse == /\ Limited(bucket, Burst, Period, now)
          /\ bucket' = Charge(bucket, Burst, Period, now)
          /\ UNCHANGED now

Tick == /\ now < MaxNow
        /\ now' = now + 1
        /\ UNCHANGED bucket

StepBack == /\ \E d \in StepSizes : d <= now /\ now' = now - d
            /\ UNCHANGED bucket

Next == Admit \/ Refuse \/ Tick \/ StepBack

Spec == Init /\ [][Next]_vars
=============================================================================
