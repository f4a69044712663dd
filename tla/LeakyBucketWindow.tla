------------------------- MODULE LeakyBucketWindow -------------------------
(***************************************************************************)
(* A LeakyBucket observed over a window of time: what the limiter promises *)
(* to the server (how many requests get through) and to a sender that      *)
(* keeps asking (how many requests must get through).  A window may be     *)
(* opened at any instant; it lasts until the clock is set back.            *)
(***************************************************************************)
EXTENDS LeakyBucket

VARIABLES wStart,   \* when the window was opened
          wCount,   \* requests admitted since then
          asked,    \* a request was made in the current millisecond
          eager     \* one was made in every earlier millisecond of the window

wvars == <<now, bucket, wStart, wCount, asked, eager>>

WindowTypeOK == /\ now \in Nat
                /\ bucket \in [lastTime : Int, burst : 0 .. Burst]
                /\ wStart \in Nat
                /\ wCount \in Nat
                /\ asked \in BOOLEAN
                /\ eager \in BOOLEAN

WInit == /\ Init
         /\ wStart = now
         /\ wCount = 0
         /\ asked = FALSE
         /\ eager = TRUE

WAdmit == /\ Admit
          /\ wCount' = wCount + 1
          /\ asked' = TRUE
          /\ UNCHANGED <<wStart, eager>>

WRefuse == /\ Refuse
           /\ asked' = TRUE
           /\ UNCHANGED <<wStart, wCount, eager>>

WTick == /\ Tick
         /\ eager' = (eager /\ asked)
         /\ asked' = FALSE
         /\ UNCHANGED <<wStart, wCount>>

WStepBack == /\ StepBack
             /\ wStart' = now'
             /\ wCount' = 0
             /\ asked' = FALSE
             /\ eager' = TRUE

OpenWindow == /\ wStart' = now
              /\ wCount' = 0
              /\ asked' = FALSE
              /\ eager' = TRUE
              /\ UNCHANGED <<now, bucket>>

WNext == WAdmit \/ WRefuse \/ WTick \/ WStepBack \/ OpenWindow

WSpec == WInit /\ [][WNext]_wvars

----------------------------------------------------------------------------
(* Over any window the requests that get through are at most one per       *)
(* period plus one full burst: wCount <= (elapsed + Burst*Period +         *)
(* Period-1) / Period.  This is what "prevent using getstatus as an        *)
(* amplifier" rests on, and it must survive an int that wraps.             *)
WindowBound == wCount * Period <= (now - wStart) + Burst * Period + (Period - 1)

(* A sender that asks in every millisecond of the window is served at      *)
(* least once per full period: refused requests must not push the next     *)
(* slot away, whatever state the bucket was in when the window opened.     *)
EagerService == (eager /\ asked) => (now - wStart) \div Period <= wCount

(* The first instant at which a bucket admits a request again. *)
FreeAt(b) == b.lastTime + (b.burst - Burst + 1) * Period

(* A refused request costs nothing: it leaves the instant at which the     *)
(* sender will be admitted again where it was (between two readings of     *)
(* the clock that an int can tell apart).                                  *)
RefusalIsFree ==
    [][Refuse /\ now - bucket.lastTime \in 0 .. IntHalf - 1
           => FreeAt(bucket') = FreeAt(bucket)]_wvars

(* Why WindowBound holds: the instant at which the bucket will be empty    *)
(* moves one period further with every request admitted, is never more     *)
(* than a full burst ahead of the clock, and is never moved back.          *)
PotentialInv ==
    wCount > 0 => /\ bucket.lastTime <= now
                  /\ wCount * Period <= EmptyAt(bucket, Period) - wStart + (Period - 1)

WindowStart == wStart <= now

WindowIInv == WindowTypeOK /\ WindowStart /\ PotentialInv

(* Why EagerService holds: a sender that has asked in every millisecond    *)
(* keeps the bucket settled, and is never made to wait beyond the end of   *)
(* the period that follows those it was served in.                         *)
ServedBy == wStart + (wCount + 1) * Period

EagerInv ==
    eager => /\ now <= ServedBy
             /\ asked => now < ServedBy
             /\ \/ ~asked /\ now = wStart /\ wCount = 0
                \/ /\ now - bucket.lastTime \in 0 .. (IF asked THEN Period - 1 ELSE Period)
                   /\ FreeAt(bucket) <= ServedBy

EagerIInv == WindowTypeOK /\ WindowStart /\ EagerInv
=============================================================================
