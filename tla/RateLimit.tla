----------------------------- MODULE RateLimit -----------------------------
(***************************************************************************)
(* SVC_RateLimit of libcod.cpp: what one connectionless request does to    *)
(* one leaky bucket.  A bucket remembers the instant it was last settled   *)
(* and how many requests it still holds; it leaks one request per period.  *)
(*                                                                         *)
(* Times are milliseconds.  The code keeps them in uint64_t but subtracts  *)
(* them into an int, so a difference is reduced to the range of an int;    *)
(* IntHalf is 2^31 there and small in the instances, where an int that     *)
(* wraps must be within reach.                                             *)
(***************************************************************************)
EXTENDS Integers

CONSTANT IntHalf

ASSUME IntHalfAssumption == IntHalf \in Nat \ {0}

(* Conversion of a 64-bit difference to a 32-bit int. *)
ToInt(x) == ((x + IntHalf) % (2 * IntHalf)) - IntHalf

(* A bucket whose memory is zero: never used. *)
ZeroBucket == [lastTime |-> 0, burst |-> 0]

Interval(b, now) == ToInt(now - b.lastTime)

(* Mutant: a clock set back is not noticed. *)
DrainedOnlyForward(b, period, now) == Interval(b, now) \div period > b.burst

(* More periods went by than the bucket holds requests, or the clock was   *)
(* set back.                                                               *)
Drained(b, period, now) ==
    \/ Interval(b, now) < 0
    \/ Interval(b, now) \div period > b.burst

(* Mutant: the started period is thrown away. *)
SettleForgetsRemainder(b, period, now) ==
    IF Drained(b, period, now)
    THEN [lastTime |-> now, burst |-> 0]
    ELSE [lastTime |-> now, burst |-> b.burst - (Interval(b, now) \div period)]

(* Mutant: the time of the last leak is not updated. *)
SettleKeepsTime(b, period, now) ==
    IF Drained(b, period, now)
    THEN [lastTime |-> now, burst |-> 0]
    ELSE [b EXCEPT !.burst = @ - (Interval(b, now) \div period)]

(* Leak what expired, keeping the started period. *)
Settle(b, period, now) ==
    IF Drained(b, period, now)
    THEN [lastTime |-> now, burst |-> 0]
    ELSE [lastTime |-> now - (Interval(b, now) % period),
          burst |-> b.burst - (Interval(b, now) \div period)]

(* Mutant: one request too few. *)
LimitedEarly(b, limit, period, now) == Settle(b, period, now).burst + 1 >= limit

(* TRUE when the request is to be dropped. *)
Limited(b, limit, period, now) == Settle(b, period, now).burst >= limit

(* The bucket after a request, dropped or not. *)
Charge(b, limit, period, now) ==
    IF Limited(b, limit, period, now)
    THEN Settle(b, period, now)
    ELSE [Settle(b, period, now) EXCEPT !.burst = @ + 1]

(* The instant at which a bucket will have leaked everything it holds. *)
EmptyAt(b, period) == b.lastTime + b.burst * period
=============================================================================
