---------------------------- MODULE SharedLemmas ----------------------------
(***************************************************************************)
(* What several modules of proofs need.                                    *)
(*                                                                         *)
(* SVC_RateLimit for every burst, period and width of int: what settling   *)
(* and charging do to a bucket and to the instant at which it will have    *)
(* leaked all it holds.                                                    *)
(*                                                                         *)
(* The lists of tasks of gsc_exec.cpp and gsc_sqlite.cpp, threaded through *)
(* memory by prev and next: what appending a task and taking one out do to *)
(* the sequence of tasks they stand for.                                   *)
(*                                                                         *)
(* Queues of messages; least elements, for induction over numbers.         *)
(***************************************************************************)
EXTENDS RateLimit, Sequences, FiniteSetTheorems, WellFoundedInduction, TLAPS

BucketsTo(max) == [lastTime : Int, burst : 0 .. max]

LEMMA Multiples ==
    ASSUME NEW a \in Int, NEW b \in Int, NEW p \in Nat
    PROVE  /\ a * p \in Int
           /\ (a + b) * p = a * p + b * p
           /\ (a - b) * p = a * p - b * p
           /\ (a + 1) * p = a * p + p
           /\ a <= b => a * p <= b * p
  OBVIOUS

LEMMA Division ==
    ASSUME NEW a \in Int, NEW p \in Nat \ {0}
    PROVE  /\ a % p \in 0 .. (p - 1)
           /\ a \div p \in Int
           /\ a = (a \div p) * p + (a % p)
           /\ a >= 0 => a \div p \in Nat
  OBVIOUS

(* An int holds a difference unchanged while it is below IntHalf, and never *)
(* holds more than a difference that is not negative.                       *)
LEMMA ToIntRange ==
    ASSUME NEW x \in Int
    PROVE  /\ ToInt(x) \in Int
           /\ ToInt(x) < IntHalf
           /\ x \in 0 .. (IntHalf - 1) => ToInt(x) = x
  <1> DEFINE m == 2 * IntHalf
  <1>1. IntHalf \in Nat \ {0} /\ m \in Nat \ {0}
    BY IntHalfAssumption
  <1>2. (x + IntHalf) % m \in 0 .. (m - 1)
    BY <1>1, Division
  <1>3. ASSUME x \in 0 .. (IntHalf - 1)
        PROVE  (x + IntHalf) % m = x + IntHalf
    BY <1>1, <1>3
  <1> QED
    BY <1>1, <1>2, <1>3 DEF ToInt

(* Nor is a difference changed that is not too far below zero.              *)
LEMMA ToIntBelow ==
    ASSUME NEW x \in (0 - IntHalf) .. (0 - 1)
    PROVE  ToInt(x) = x
  <1>1. IntHalf \in Nat \ {0} /\ x + IntHalf \in 0 .. (2 * IntHalf - 1)
    BY IntHalfAssumption
  <1>2. (x + IntHalf) % (2 * IntHalf) = x + IntHalf
    BY <1>1
  <1> QED
    BY <1>1, <1>2 DEF ToInt

(* Settling only leaks, brings the bucket within one period of the clock,   *)
(* and never brings forward the instant at which it is empty.               *)
LEMMA Settling ==
    ASSUME NEW max \in Nat, NEW period \in Nat \ {0}, (max + 1) * period <= IntHalf,
           NEW b \in BucketsTo(max), NEW t \in Int
    PROVE  /\ Settle(b, period, t) \in BucketsTo(max)
           /\ Settle(b, period, t).burst <= b.burst
           /\ Settle(b, period, t).lastTime \in (t - (period - 1)) .. t
           /\ b.lastTime <= t =>
                EmptyAt(b, period) <= EmptyAt(Settle(b, period, t), period)
           /\ t - b.lastTime \in 0 .. (IntHalf - 1) =>
                \/ Settle(b, period, t) = [lastTime |-> t, burst |-> 0]
                \/ EmptyAt(Settle(b, period, t), period) = EmptyAt(b, period)
  <1> DEFINE s == Settle(b, period, t)
             i == Interval(b, t)
             q == i \div period
             r == i % period
  <1>1. /\ max \in Nat /\ period \in Nat \ {0} /\ IntHalf \in Nat
        /\ b.lastTime \in Int /\ b.burst \in 0 .. max
        /\ (max + 1) * period <= IntHalf
    BY IntHalfAssumption DEF BucketsTo
  <1>2. /\ i \in Int /\ i < IntHalf
        /\ t - b.lastTime \in 0 .. (IntHalf - 1) => i = t - b.lastTime
    BY <1>1, ToIntRange DEF Interval
  <1>3. q \in Int /\ r \in 0 .. (period - 1) /\ i = q * period + r
    BY <1>1, <1>2, Division
  <1> SUFFICES /\ s \in BucketsTo(max)
               /\ s.burst <= b.burst
               /\ s.lastTime \in (t - (period - 1)) .. t
               /\ b.lastTime <= t => EmptyAt(b, period) <= EmptyAt(s, period)
               /\ t - b.lastTime \in 0 .. (IntHalf - 1) =>
                    \/ s = [lastTime |-> t, burst |-> 0]
                    \/ EmptyAt(s, period) = EmptyAt(b, period)
    OBVIOUS
  <1> HIDE DEF s, i, q, r
  <1>4. CASE Drained(b, period, t)
    <2>1. s = [lastTime |-> t, burst |-> 0]
      BY <1>4 DEF Settle, s
    <2>2. s \in BucketsTo(max) /\ s.burst = 0 /\ s.lastTime = t
      BY <1>1, <2>1 DEF BucketsTo
    <2>3. ASSUME b.lastTime <= t
          PROVE  b.lastTime + b.burst * period <= t
      <3>1. b.burst * period <= max * period
        BY <1>1, Multiples
      <3>2. b.burst * period \in Int /\ max * period \in Int
        BY <1>1, Multiples
      <3>3. (max + 1) * period = max * period + period
        BY <1>1, Multiples
      <3>4. CASE t - b.lastTime >= IntHalf
        BY <1>1, <3>1, <3>2, <3>3, <3>4
      <3>5. CASE t - b.lastTime < IntHalf
        <4>1. i = t - b.lastTime /\ i >= 0
          BY <1>1, <1>2, <2>3, <3>5
        <4>2. q > b.burst
          BY <1>1, <1>2, <1>4, <4>1 DEF Drained, i, q
        <4>3. b.burst * period <= q * period /\ q * period \in Int
          BY <1>1, <1>3, <4>2, Multiples
        <4> QED
          BY <1>1, <1>3, <3>2, <4>1, <4>3
      <3> QED
        BY <1>1, <3>4, <3>5
    <2>4. EmptyAt(s, period) = t
      BY <1>1, <2>2 DEF EmptyAt
    <2> QED
      BY <1>1, <2>1, <2>2, <2>3, <2>4 DEF EmptyAt
  <1>5. CASE ~Drained(b, period, t)
    <2>1. s = [lastTime |-> t - r, burst |-> b.burst - q]
      BY <1>5 DEF Settle, s, q, r, i
    <2>2. i >= 0 /\ q <= b.burst
      BY <1>1, <1>2, <1>3, <1>5 DEF Drained, i, q
    <2>3. q \in Nat
      BY <1>1, <1>2, <2>2, Division DEF q
    <2>4. /\ s \in BucketsTo(max) /\ s.burst = b.burst - q /\ s.lastTime = t - r
          /\ b.burst - q \in 0 .. max
      BY <1>1, <1>3, <2>1, <2>2, <2>3 DEF BucketsTo
    <2>5. EmptyAt(s, period) = t - i + b.burst * period
      <3>1. (b.burst - q) * period = b.burst * period - q * period
        BY <1>1, <1>3, Multiples
      <3>2. q * period \in Int /\ b.burst * period \in Int
        BY <1>1, <1>3, Multiples
      <3> QED
        BY <1>1, <1>2, <1>3, <2>4, <3>1, <3>2 DEF EmptyAt
    <2>6. ASSUME b.lastTime <= t
          PROVE  i <= t - b.lastTime
      BY <1>1, <1>2, <2>6
    <2> QED
      <3>1. b.burst * period \in Int
        BY <1>1, Multiples
      <3>2. s.burst <= b.burst
        BY <1>1, <2>3, <2>4
      <3>3. s.lastTime \in (t - (period - 1)) .. t
        BY <1>1, <1>3, <2>4
      <3>4. ASSUME b.lastTime <= t
            PROVE  EmptyAt(b, period) <= EmptyAt(s, period)
        BY <1>1, <1>2, <2>5, <2>6, <3>1, <3>4 DEF EmptyAt
      <3>5. ASSUME t - b.lastTime \in 0 .. (IntHalf - 1)
            PROVE  EmptyAt(s, period) = EmptyAt(b, period)
        BY <1>1, <1>2, <2>5, <3>1, <3>5 DEF EmptyAt
      <3> QED
        BY <2>4, <3>2, <3>3, <3>4, <3>5
  <1> QED
    BY <1>4, <1>5

(* A difference an int cannot hold reads as negative until it wraps twice.  *)
LEMMA ToIntWraps ==
    ASSUME NEW x \in IntHalf .. (2 * IntHalf - 1)
    PROVE  ToInt(x) = x - 2 * IntHalf
  <1> DEFINE m == 2 * IntHalf
             a == x + IntHalf
             q == a \div m
             r == a % m
  <1>1. /\ IntHalf \in Nat \ {0} /\ m \in Nat \ {0}
        /\ x \in Int /\ a \in Int /\ a \in m .. (2 * m - 1)
    BY IntHalfAssumption
  <1>2. r \in 0 .. (m - 1) /\ q \in Int /\ a = q * m + r
    BY <1>1, Division
  <1>3. ToInt(x) = r - IntHalf
    BY DEF ToInt
  <1>4. a - m = x - IntHalf /\ m = 2 * IntHalf
    BY <1>1
  <1> HIDE DEF q, r, a, m
  <1>5. /\ q >= 2 => 2 * m <= q * m
        /\ q <= 0 => q * m <= 0 * m
        /\ q * m \in Int
    BY <1>1, <1>2, Multiples
  <1>6. q = 1
    BY <1>1, <1>2, <1>5
  <1> QED
    BY <1>1, <1>2, <1>3, <1>4, <1>6

(* While the clock runs forward for less than the width of an int, settling *)
(* empties exactly the buckets that were empty a period ago, and keeps the  *)
(* instant at which any other is empty.                                     *)
LEMMA SettlingExactly ==
    ASSUME NEW max \in Nat, NEW period \in Nat \ {0}, (max + 1) * period <= IntHalf,
           NEW b \in BucketsTo(max), NEW t \in Int, t - b.lastTime \in 0 .. (2 * IntHalf - 1)
    PROVE  /\ Settle(b, period, t).lastTime \in b.lastTime .. t
           /\ \/ /\ Settle(b, period, t) = [lastTime |-> t, burst |-> 0]
                 /\ EmptyAt(b, period) <= t - period
              \/ /\ EmptyAt(Settle(b, period, t), period) = EmptyAt(b, period)
                 /\ EmptyAt(b, period) > t - period
  <1> DEFINE s == Settle(b, period, t)
             i == Interval(b, t)
             q == i \div period
             r == i % period
             x == t - b.lastTime
  <1>1. /\ max \in Nat /\ period \in Nat \ {0} /\ IntHalf \in Nat
        /\ b.lastTime \in Int /\ b.burst \in 0 .. max
        /\ (max + 1) * period <= IntHalf
    BY IntHalfAssumption DEF BucketsTo
  <1>2. /\ i \in Int
        /\ x < IntHalf => i = x
        /\ x >= IntHalf => i < 0
    BY <1>1, ToIntRange, ToIntWraps DEF Interval
  <1>3. q \in Int /\ r \in 0 .. (period - 1) /\ i = q * period + r /\ (i >= 0 => q \in Nat)
    BY <1>1, <1>2, Division
  <1>4. /\ b.burst * period <= max * period
        /\ (max + 1) * period = max * period + period
        /\ (b.burst + 1) * period = b.burst * period + period
        /\ max * period \in Int /\ b.burst * period \in Int /\ q * period \in Int
        /\ q > b.burst => (b.burst + 1) * period <= q * period
        /\ q <= b.burst => q * period <= b.burst * period
        /\ (b.burst - q) * period = b.burst * period - q * period
        /\ q \in Nat => 0 * period <= q * period
    <2> DEFINE n == b.burst
               m == n + 1
    <2>1. n \in Int /\ m \in Int /\ q \in Int /\ (q > n => m <= q) /\ n <= max
      BY <1>1, <1>3
    <2> HIDE DEF n, q
    <2>2. /\ n * period <= max * period
          /\ (max + 1) * period = max * period + period
          /\ m * period = n * period + period
          /\ max * period \in Int /\ n * period \in Int /\ q * period \in Int
          /\ q <= n => q * period <= n * period
          /\ (n - q) * period = n * period - q * period
      BY <1>1, <2>1, Multiples
    <2>3. q \in Nat => 0 * period <= q * period
      BY <1>1, <2>1, Multiples
    <2> HIDE DEF m
    <2>4. q > n => m * period <= q * period
      BY <1>1, <2>1, Multiples
    <2> QED
      BY <2>2, <2>3, <2>4 DEF n, m
  <1>5. EmptyAt(b, period) = b.lastTime + b.burst * period
    BY DEF EmptyAt
  <1>6. CASE Drained(b, period, t)
    <2>1. s = [lastTime |-> t, burst |-> 0]
      BY <1>6 DEF Settle
    <2>2. i < 0 \/ q > b.burst
      BY <1>6 DEF Drained
    <2> HIDE DEF s, q, r, i
    <2>3. b.lastTime + b.burst * period <= t - period
      BY <1>1, <1>2, <1>3, <1>4, <2>2
    <2> QED
      BY <1>1, <1>5, <2>1, <2>3 DEF s
  <1>7. CASE ~Drained(b, period, t)
    <2>1. s = [lastTime |-> t - r, burst |-> b.burst - q]
      BY <1>7 DEF Settle
    <2>2. i >= 0 /\ q <= b.burst
      <3>1. ~(i < 0) /\ ~(q > b.burst)
        BY <1>7 DEF Drained
      <3> HIDE DEF q, i
      <3> QED
        BY <1>1, <1>2, <1>3, <3>1
    <2> HIDE DEF s, q, r, i
    <2>3. s.lastTime = t - r /\ s.burst = b.burst - q
      BY <2>1
    <2>4. i = x /\ r <= i
      BY <1>1, <1>2, <1>3, <1>4, <2>2
    <2>5. t - r \in b.lastTime .. t
      BY <1>1, <1>2, <1>3, <2>4
    <2>6. EmptyAt(s, period) = (t - r) + (b.burst * period - q * period)
      BY <1>4, <2>3 DEF EmptyAt
    <2>7. EmptyAt(s, period) = EmptyAt(b, period) /\ EmptyAt(b, period) > t - period
      BY <1>1, <1>2, <1>3, <1>4, <1>5, <2>2, <2>4, <2>6
    <2> QED
      BY <2>3, <2>5, <2>7 DEF s
  <1> QED
    BY <1>6, <1>7

(* The instant at which a bucket is empty is a time. *)
LEMMA EmptyAtType ==
    ASSUME NEW max \in Nat, NEW period \in Nat, NEW b \in BucketsTo(max)
    PROVE  EmptyAt(b, period) \in Int
  <1>1. b.lastTime \in Int /\ b.burst \in Int
    BY DEF BucketsTo
  <1>2. b.burst * period \in Int
    BY <1>1, Multiples
  <1> QED
    BY <1>1, <1>2 DEF EmptyAt

(* A request keeps the bucket well formed, at or before the clock, and the  *)
(* instant at which it is empty moves by a period when it is admitted.      *)
LEMMA Charging ==
    ASSUME NEW max \in Nat, NEW period \in Nat \ {0}, (max + 1) * period <= IntHalf,
           NEW limit \in 0 .. max, NEW b \in BucketsTo(max), NEW t \in Int
    PROVE  /\ Charge(b, limit, period, t) \in BucketsTo(max)
           /\ Charge(b, limit, period, t).lastTime \in (t - (period - 1)) .. t
           /\ Limited(b, limit, period, t) =>
                Charge(b, limit, period, t) = Settle(b, period, t)
           /\ ~Limited(b, limit, period, t) =>
                /\ Charge(b, limit, period, t).burst = Settle(b, period, t).burst + 1
                /\ EmptyAt(Charge(b, limit, period, t), period)
                     = EmptyAt(Settle(b, period, t), period) + period
  <1> DEFINE c == Charge(b, limit, period, t)
             s == Settle(b, period, t)
  <1> SUFFICES /\ c \in BucketsTo(max)
               /\ c.lastTime \in (t - (period - 1)) .. t
               /\ Limited(b, limit, period, t) => c = s
               /\ ~Limited(b, limit, period, t) =>
                     /\ c.burst = s.burst + 1
                     /\ EmptyAt(c, period) = EmptyAt(s, period) + period
    OBVIOUS
  <1>1. limit \in Nat /\ limit <= max /\ period \in Nat \ {0}
    OBVIOUS
  <1>2. s \in BucketsTo(max) /\ s.lastTime \in (t - (period - 1)) .. t
    BY Settling
  <1>3. CASE Limited(b, limit, period, t)
    BY <1>2, <1>3 DEF Charge
  <1> HIDE DEF s
  <1>4. CASE ~Limited(b, limit, period, t)
    <2>1. c = [s EXCEPT !.burst = @ + 1] /\ s.burst < limit
      BY <1>1, <1>2, <1>4 DEF Charge, Limited, BucketsTo, s
    <2> HIDE DEF c
    <2>2. /\ c \in BucketsTo(max) /\ c.burst = s.burst + 1 /\ c.lastTime = s.lastTime
          /\ s.burst \in Nat /\ s.lastTime \in Int
      BY <1>1, <1>2, <2>1 DEF BucketsTo
    <2>3. \A n \in Nat : (n + 1) * period = n * period + period /\ n * period \in Int
      BY <1>1, Multiples
    <2> QED
      BY <1>1, <1>2, <1>4, <2>2, <2>3 DEF EmptyAt
  <1> QED
    BY <1>3, <1>4 DEF s

----------------------------------------------------------------------------
(* Sets of naturals have a least element. *)
LEMMA LeastOf ==
    ASSUME NEW R, NEW T \in SUBSET Nat,
           \A a, b \in Nat : a < b => <<a, b>> \in R,
           \E x \in T : \A y \in T : ~ (<<y, x>> \in R)
    PROVE  \E x \in T : \A y \in T : x <= y
  <1>1. PICK x \in T : \A y \in T : ~ (<<y, x>> \in R)
    OBVIOUS
  <1>2. ASSUME NEW y \in T
        PROVE  x <= y
    <2>1. ~ (y < x)
      BY <1>1
    <2> QED
      BY <2>1
  <1> QED
    BY <1>2

LEMMA Least ==
    ASSUME NEW T \in SUBSET Nat, T # {}
    PROVE  \E x \in T : \A y \in T : x <= y
  <1> DEFINE R == OpToRel(<, Nat)
  <1>1. \A a, b \in Nat : a < b => <<a, b>> \in R
    BY DEF OpToRel
  <1>2. IsWellFoundedOn(R, Nat)
    BY NatLessThanWellFounded
  <1> HIDE DEF R
  <1>3. \E x \in T : \A y \in T : ~ (<<y, x>> \in R)
    BY <1>2, WFMin
  <1> QED
    BY <1>1, <1>3, LeastOf, Zenon
----------------------------------------------------------------------------
(* Lists threaded through memory.  Of the memory h, which holds nil where   *)
(* it is free, list are the n tasks in use in their order, and f is the     *)
(* pointer to the first.                                                    *)
Listing(Mem, nil, h, f, n, list) ==
    /\ n \in Nat /\ list \in [1 .. n -> Mem]
    /\ \A i, j \in 1 .. n : list[i] = list[j] => i = j
    /\ \A t \in Mem : h[t] # nil <=> \E i \in 1 .. n : list[i] = t
    /\ f = IF n = 0 THEN nil ELSE list[1]
    /\ \A i \in 1 .. n :
          /\ h[list[i]].prev = IF i = 1 THEN nil ELSE list[i - 1]
          /\ h[list[i]].next = IF i = n THEN nil ELSE list[i + 1]

(* What does not touch the pointers leaves the list. *)
LEMMA SameListing ==
    ASSUME NEW Mem, NEW nil, NEW h, NEW g, NEW f, NEW n, NEW list,
           Listing(Mem, nil, h, f, n, list),
           \A t \in Mem : /\ g[t] = nil <=> h[t] = nil
                          /\ h[t] # nil => g[t].prev = h[t].prev /\ g[t].next = h[t].next
    PROVE  Listing(Mem, nil, g, f, n, list)
  <1>1. n \in Nat /\ list \in [1 .. n -> Mem]
        /\ \A i, j \in 1 .. n : list[i] = list[j] => i = j
        /\ f = IF n = 0 THEN nil ELSE list[1]
    BY DEF Listing
  <1>2. \A t \in Mem : g[t] # nil <=> \E i \in 1 .. n : list[i] = t
    BY DEF Listing
  <1>3. \A i \in 1 .. n : list[i] \in Mem /\ h[list[i]] # nil
    BY DEF Listing
  <1>4. \A i \in 1 .. n :
          /\ g[list[i]].prev = IF i = 1 THEN nil ELSE list[i - 1]
          /\ g[list[i]].next = IF i = n THEN nil ELSE list[i + 1]
    BY <1>3 DEF Listing
  <1> QED
    BY <1>1, <1>2, <1>4 DEF Listing

(* Each task is the next of its prev and the prev of its next, none is its  *)
(* own neighbour, and the first is the one without a prev.                  *)
LEMMA Neighbours ==
    ASSUME NEW Mem, NEW nil, nil \notin Mem, NEW h, NEW f, NEW n, NEW list,
           Listing(Mem, nil, h, f, n, list)
    PROVE  /\ f # nil => f \in Mem /\ h[f] # nil
           /\ \A t \in Mem : h[t] # nil =>
                 /\ h[t].prev = nil <=> f = t
                 /\ h[t].prev # nil => /\ h[t].prev \in Mem /\ h[h[t].prev] # nil
                                       /\ h[h[t].prev].next = t /\ h[t].prev # t
                 /\ h[t].next # nil => /\ h[t].next \in Mem /\ h[h[t].next] # nil
                                       /\ h[h[t].next].prev = t /\ h[t].next # t
                                       /\ h[t].next # h[t].prev
  <1>1. /\ n \in Nat /\ list \in [1 .. n -> Mem]
        /\ \A i, j \in 1 .. n : list[i] = list[j] => i = j
        /\ f = IF n = 0 THEN nil ELSE list[1]
        /\ \A i \in 1 .. n :
              /\ h[list[i]].prev = IF i = 1 THEN nil ELSE list[i - 1]
              /\ h[list[i]].next = IF i = n THEN nil ELSE list[i + 1]
    BY DEF Listing
  <1>2. \A i \in 1 .. n : list[i] \in Mem /\ h[list[i]] # nil
    BY DEF Listing
  <1>3. f # nil => f \in Mem /\ h[f] # nil
    <2>1. n # 0 => 1 \in 1 .. n
      BY <1>1
    <2> QED
      BY <1>1, <1>2, <2>1
  <1>4. ASSUME NEW t \in Mem, h[t] # nil
        PROVE  /\ h[t].prev = nil <=> f = t
               /\ h[t].prev # nil => /\ h[t].prev \in Mem /\ h[h[t].prev] # nil
                                     /\ h[h[t].prev].next = t /\ h[t].prev # t
               /\ h[t].next # nil => /\ h[t].next \in Mem /\ h[h[t].next] # nil
                                     /\ h[h[t].next].prev = t /\ h[t].next # t
                                     /\ h[t].next # h[t].prev
    <2>1. PICK i \in 1 .. n : list[i] = t
      BY <1>4 DEF Listing
    <2>2. n \in Nat \ {0} /\ 1 \in 1 .. n /\ i \in Nat \ {0} /\ f = list[1]
      BY <1>1, <2>1
    <2>3. h[t].prev = nil <=> i = 1
      <3>1. i # 1 => i - 1 \in 1 .. n
        BY <2>2
      <3> QED
        BY <1>1, <1>2, <2>1, <3>1
    <2>4. f = t <=> i = 1
      BY <1>1, <2>1, <2>2
    <2>5. ASSUME i # 1
          PROVE  /\ h[t].prev \in Mem /\ h[h[t].prev] # nil
                 /\ h[h[t].prev].next = t /\ h[t].prev # t
      <3>1. i - 1 \in 1 .. n /\ i - 1 # n /\ (i - 1) + 1 = i /\ i - 1 # i
        BY <2>2, <2>5
      <3>2. h[t].prev = list[i - 1]
        BY <1>1, <2>1, <2>5
      <3> QED
        BY <1>1, <1>2, <2>1, <3>1, <3>2
    <2>6. ASSUME i # n
          PROVE  /\ h[t].next \in Mem /\ h[h[t].next] # nil
                 /\ h[h[t].next].prev = t /\ h[t].next # t /\ h[t].next # h[t].prev
      <3>1. i + 1 \in 1 .. n /\ i + 1 # 1 /\ (i + 1) - 1 = i /\ i + 1 # i
        BY <2>2, <2>6
      <3>2. h[t].next = list[i + 1]
        BY <1>1, <2>1, <2>6
      <3>3. /\ h[t].next \in Mem /\ h[h[t].next] # nil
            /\ h[h[t].next].prev = t /\ h[t].next # t
        BY <1>1, <1>2, <2>1, <3>1, <3>2
      <3>4. i # 1 => i - 1 \in 1 .. n /\ i - 1 # i + 1
        BY <2>2
      <3>5. h[t].next # h[t].prev
        <4>1. CASE i = 1
          BY <2>3, <3>3, <4>1
        <4>2. CASE i # 1
          BY <1>1, <2>1, <3>1, <3>2, <3>4, <4>2
        <4> QED
          BY <4>1, <4>2
      <3> QED
        BY <3>3, <3>5
    <2>7. h[t].next = nil <=> i = n
      <3>1. i # n => i + 1 \in 1 .. n
        BY <2>2
      <3> QED
        BY <1>1, <1>2, <2>1, <3>1
    <2> QED
      BY <2>3, <2>4, <2>5, <2>6, <2>7
  <1> QED
    BY <1>3, <1>4

(* The last of the list is the one without a next. *)
LEMMA LastListed ==
    ASSUME NEW Mem, NEW nil, nil \notin Mem, NEW h, NEW f, NEW n, NEW list,
           Listing(Mem, nil, h, f, n, list), f # nil
    PROVE  /\ n \in Nat \ {0} /\ list[n] \in Mem /\ h[list[n]] # nil /\ h[list[n]].next = nil
           /\ \A t \in Mem : h[t] # nil /\ h[t].next = nil => t = list[n]
  <1>1. n \in Nat \ {0} /\ list \in [1 .. n -> Mem] /\ n \in 1 .. n
    BY DEF Listing
  <1>2. list[n] \in Mem /\ h[list[n]] # nil /\ h[list[n]].next = nil
    BY <1>1 DEF Listing
  <1>3. ASSUME NEW t \in Mem, h[t] # nil, h[t].next = nil
        PROVE  t = list[n]
    <2>1. PICK i \in 1 .. n : list[i] = t
      BY <1>3 DEF Listing
    <2>2. i # n => h[t].next = list[i + 1] /\ list[i + 1] \in Mem
      BY <1>1, <2>1 DEF Listing
    <2> QED
      BY <1>3, <2>1, <2>2
  <1> QED
    BY <1>1, <1>2, <1>3

(* A task put behind the last one. *)
LEMMA Appending ==
    ASSUME NEW Mem, NEW nil, nil \notin Mem, NEW h, NEW f, NEW n, NEW list,
           Listing(Mem, nil, h, f, n, list),
           NEW t \in Mem, h[t] = nil, NEW g,
           g[t] # nil, g[t].next = nil,
           g[t].prev = IF n = 0 THEN nil ELSE list[n],
           \A x \in Mem : x # t =>
              /\ g[x] = nil <=> h[x] = nil
              /\ h[x] # nil => /\ g[x].prev = h[x].prev
                               /\ g[x].next = IF h[x].next = nil THEN t ELSE h[x].next
    PROVE  \E l : Listing(Mem, nil, g, IF n = 0 THEN t ELSE f, n + 1, l)
  <1> DEFINE l == [i \in 1 .. n + 1 |-> IF i = n + 1 THEN t ELSE list[i]]
             e == IF n = 0 THEN t ELSE f
  <1>1. /\ n \in Nat /\ list \in [1 .. n -> Mem]
        /\ \A i, j \in 1 .. n : list[i] = list[j] => i = j
        /\ \A x \in Mem : h[x] # nil <=> \E i \in 1 .. n : list[i] = x
        /\ f = IF n = 0 THEN nil ELSE list[1]
        /\ \A i \in 1 .. n :
              /\ h[list[i]].prev = IF i = 1 THEN nil ELSE list[i - 1]
              /\ h[list[i]].next = IF i = n THEN nil ELSE list[i + 1]
    BY DEF Listing
  <1>2. \A i \in 1 .. n : list[i] \in Mem /\ h[list[i]] # nil /\ list[i] # t
    BY <1>1
  <1>3. /\ l \in [1 .. n + 1 -> Mem] /\ n + 1 \in Nat
        /\ l[n + 1] = t /\ \A i \in 1 .. n : l[i] = list[i]
    BY <1>1, <1>2
  <1> HIDE DEF l
  <1>4. \A i, j \in 1 .. n + 1 : l[i] = l[j] => i = j
    BY <1>1, <1>2, <1>3
  <1>5. \A x \in Mem : g[x] # nil <=> \E i \in 1 .. n + 1 : l[i] = x
    <2> TAKE x \in Mem
    <2>1. CASE x = t
      BY <1>1, <1>3, <2>1
    <2>2. CASE x # t
      <3>1. g[x] # nil <=> \E i \in 1 .. n : list[i] = x
        BY <1>1, <2>2
      <3> QED
        BY <1>1, <1>3, <2>2, <3>1
    <2> QED
      BY <2>1, <2>2
  <1>6. e = l[1] /\ n + 1 # 0
    BY <1>1, <1>3
  <1>7. ASSUME NEW i \in 1 .. n
        PROVE  /\ g[l[i]].prev = IF i = 1 THEN nil ELSE l[i - 1]
               /\ g[l[i]].next = l[i + 1] /\ i # n + 1
    <2>1. /\ h[list[i]].prev = IF i = 1 THEN nil ELSE list[i - 1]
          /\ h[list[i]].next = IF i = n THEN nil ELSE list[i + 1]
      BY <1>1
    <2>2. /\ g[list[i]].prev = h[list[i]].prev
          /\ g[list[i]].next = IF h[list[i]].next = nil THEN t ELSE h[list[i]].next
      BY <1>2
    <2>3. /\ l[i] = list[i] /\ (i # 1 => l[i - 1] = list[i - 1])
          /\ i = n => l[i + 1] = t
          /\ i # n => l[i + 1] = list[i + 1] /\ i + 1 \in 1 .. n
      BY <1>1, <1>3
    <2>4. i # n => list[i + 1] # nil
      BY <1>2, <2>3
    <2> QED
      BY <1>1, <2>1, <2>2, <2>3, <2>4
  <1>8. g[l[n + 1]].prev = (IF n + 1 = 1 THEN nil ELSE l[(n + 1) - 1]) /\ g[l[n + 1]].next = nil
    BY <1>1, <1>3
  <1>9. \A i \in 1 .. n + 1 : i \in 1 .. n \/ i = n + 1
    BY <1>1
  <1>10. \A i \in 1 .. n + 1 :
            /\ g[l[i]].prev = IF i = 1 THEN nil ELSE l[i - 1]
            /\ g[l[i]].next = IF i = n + 1 THEN nil ELSE l[i + 1]
    BY <1>7, <1>8, <1>9
  <1> HIDE DEF e
  <1>11. Listing(Mem, nil, g, e, n + 1, l)
    BY <1>3, <1>4, <1>5, <1>6, <1>10 DEF Listing
  <1> QED
    BY <1>11 DEF e

(* A task taken out: those around it are joined, the others stay. *)
LEMMA Removing ==
    ASSUME NEW Mem, NEW nil, nil \notin Mem, NEW h, NEW f, NEW n, NEW list,
           Listing(Mem, nil, h, f, n, list),
           NEW t \in Mem, h[t] # nil, NEW g, g[t] = nil,
           \A x \in Mem : x # t =>
              /\ g[x] = nil <=> h[x] = nil
              /\ h[x] # nil =>
                    /\ g[x].prev = IF x = h[t].next THEN h[t].prev ELSE h[x].prev
                    /\ g[x].next = IF x = h[t].prev THEN h[t].next ELSE h[x].next
    PROVE  \E l : Listing(Mem, nil, g, IF f = t THEN h[t].next ELSE f, n - 1, l)
  <1>1. /\ n \in Nat /\ list \in [1 .. n -> Mem]
        /\ f = IF n = 0 THEN nil ELSE list[1]
        /\ \A i \in 1 .. n :
              /\ h[list[i]].prev = IF i = 1 THEN nil ELSE list[i - 1]
              /\ h[list[i]].next = IF i = n THEN nil ELSE list[i + 1]
    BY DEF Listing
  <1>2. \A i, j \in 1 .. n : list[i] = list[j] => i = j
    BY DEF Listing
  <1>3. PICK k \in 1 .. n : list[k] = t
    BY DEF Listing
  <1> DEFINE l == [i \in 1 .. n - 1 |-> IF i < k THEN list[i] ELSE list[i + 1]]
             pr == h[t].prev
             ne == h[t].next
             e == IF f = t THEN h[t].next ELSE f
  <1>4. /\ n \in Nat \ {0} /\ n - 1 \in Nat /\ k \in Nat \ {0} /\ k <= n
    BY <1>1
  <1>5. \A i \in 1 .. n : list[i] \in Mem /\ h[list[i]] # nil
    BY DEF Listing
  <1>6. /\ pr = IF k = 1 THEN nil ELSE list[k - 1]
        /\ ne = IF k = n THEN nil ELSE list[k + 1]
    BY <1>1, <1>3
  <1>7. /\ k # 1 => k - 1 \in 1 .. n
        /\ k # n => k + 1 \in 1 .. n
    BY <1>4
  <1> HIDE DEF pr, ne, l
  <1>8. /\ \A i \in 1 .. n : list[i] = ne <=> (k # n /\ i = k + 1)
        /\ \A i \in 1 .. n : list[i] = pr <=> (k # 1 /\ i = k - 1)
    BY <1>5, <1>6, <1>2, <1>7
  <1>9. \A x \in Mem : x # t =>
              /\ g[x] = nil <=> h[x] = nil
              /\ h[x] # nil => /\ g[x].prev = IF x = ne THEN pr ELSE h[x].prev
                               /\ g[x].next = IF x = pr THEN ne ELSE h[x].next
    BY DEF pr, ne
  <1>10. /\ l \in [1 .. n - 1 -> Mem]
         /\ \A i \in 1 .. n - 1 : /\ i < k => l[i] = list[i]
                                  /\ i >= k => l[i] = list[i + 1]
                                  /\ i \in 1 .. n /\ i + 1 \in 1 .. n
    BY <1>4, <1>5 DEF l
  <1>11. \A i, j \in 1 .. n - 1 : l[i] = l[j] => i = j
    <2> SUFFICES ASSUME NEW i \in 1 .. n - 1, NEW j \in 1 .. n - 1, l[i] = l[j]
                 PROVE  i = j
      OBVIOUS
    <2>1. CASE i < k /\ j < k
      BY <1>2, <1>10, <2>1
    <2>2. CASE i < k /\ j >= k
      BY <1>4, <1>2, <1>10, <2>2
    <2>3. CASE i >= k /\ j < k
      BY <1>4, <1>2, <1>10, <2>3
    <2>4. CASE i >= k /\ j >= k
      <3>1. i + 1 = j + 1
        BY <1>2, <1>10, <2>4
      <3> QED
        BY <3>1
    <2> QED
      BY <1>4, <2>1, <2>2, <2>3, <2>4
  <1>12. \A x \in Mem : g[x] # nil <=> \E i \in 1 .. n - 1 : l[i] = x
    <2> SUFFICES ASSUME NEW x \in Mem
                 PROVE  g[x] # nil <=> \E i \in 1 .. n - 1 : l[i] = x
      OBVIOUS
    <2>1. CASE x = t
      <3>1. \A i \in 1 .. n - 1 : l[i] # t
        <4> TAKE i \in 1 .. n - 1
        <4>1. i < k => l[i] # t
          BY <1>3, <1>2, <1>10
        <4>2. i >= k => l[i] # t
          BY <1>3, <1>4, <1>2, <1>10
        <4> QED
          BY <1>4, <4>1, <4>2
      <3> QED
        BY g[t] = nil, <2>1, <3>1
    <2>2. CASE x # t
      <3>1. g[x] # nil <=> \E i \in 1 .. n : list[i] = x
        BY <1>9, <2>2 DEF Listing
      <3>2. ASSUME NEW i \in 1 .. n, list[i] = x
            PROVE  \E j \in 1 .. n - 1 : l[j] = x
        <4>1. CASE i < k
          <5>1. i \in 1 .. n - 1 /\ l[i] = list[i]
            BY <1>4, <1>10, <4>1
          <5> QED
            BY <3>2, <5>1
        <4>2. CASE i > k
          <5>1. i - 1 \in 1 .. n - 1 /\ l[i - 1] = list[i]
            BY <1>4, <1>10, <4>2
          <5> QED
            BY <3>2, <5>1
        <4>3. i # k
          BY <1>3, <2>2, <3>2
        <4> QED
          BY <1>4, <4>1, <4>2, <4>3
      <3>3. ASSUME NEW j \in 1 .. n - 1, l[j] = x
            PROVE  \E i \in 1 .. n : list[i] = x
        BY <1>4, <1>10, <3>3
      <3> QED
        BY <3>1, <3>2, <3>3
    <2> QED
      BY <2>1, <2>2
  <1>13. ASSUME NEW j \in 1 .. n, j # k
         PROVE  /\ g[list[j]].prev = IF j = k + 1 THEN pr
                                         ELSE IF j = 1 THEN nil ELSE list[j - 1]
                /\ g[list[j]].next = IF j = k - 1 THEN ne
                                         ELSE IF j = n THEN nil ELSE list[j + 1]
    <2>1. list[j] \in Mem /\ list[j] # t /\ h[list[j]] # nil
      BY <1>3, <1>5, <1>2, <1>13
    <2>2. /\ h[list[j]].prev = IF j = 1 THEN nil ELSE list[j - 1]
          /\ h[list[j]].next = IF j = n THEN nil ELSE list[j + 1]
      BY <1>1
    <2>3. /\ list[j] = ne <=> j = k + 1
          /\ list[j] = pr <=> j = k - 1
      BY <1>4, <1>8
    <2> QED
      BY <1>9, <2>1, <2>2, <2>3
  <1>14. /\ e = IF n - 1 = 0 THEN nil ELSE l[1]
         /\ \A i \in 1 .. n - 1 :
               /\ g[l[i]].prev = IF i = 1 THEN nil ELSE l[i - 1]
               /\ g[l[i]].next = IF i = n - 1 THEN nil ELSE l[i + 1]
    <2>1. e = IF n - 1 = 0 THEN nil ELSE l[1]
      <3>1. f = list[1]
        BY <1>1, <1>4
      <3>2. f = t <=> k = 1
        BY <1>3, <1>4, <1>2, <3>1
      <3>3. CASE k = 1
        <4>1. e = ne
          BY <3>2, <3>3 DEF e, ne
        <4>2. n # 1 => 1 \in 1 .. n - 1 /\ l[1] = list[2]
          BY <1>4, <1>10, <3>3
        <4> QED
          BY <1>4, <1>6, <3>3, <4>1, <4>2
      <3>4. CASE k # 1
        <4>1. e = list[1]
          BY <3>1, <3>2, <3>4 DEF e
        <4>2. 1 \in 1 .. n - 1 /\ l[1] = list[1]
          BY <1>4, <1>10, <3>4
        <4> QED
          BY <1>4, <4>1, <4>2
      <3> QED
        BY <3>3, <3>4
    <2>2. ASSUME NEW i \in 1 .. n - 1
          PROVE  /\ g[l[i]].prev = IF i = 1 THEN nil ELSE l[i - 1]
                 /\ g[l[i]].next = IF i = n - 1 THEN nil ELSE l[i + 1]
      <3>1. CASE i < k
        <4>1. l[i] = list[i] /\ i \in 1 .. n /\ i # k /\ i # k + 1
          BY <1>4, <1>10, <3>1
        <4>2. i # 1 => l[i - 1] = list[i - 1]
          BY <1>4, <1>10, <3>1
        <4>3. g[l[i]].prev = IF i = 1 THEN nil ELSE l[i - 1]
          BY <1>13, <4>1, <4>2
        <4>4. g[l[i]].next = IF i = k - 1 THEN ne ELSE IF i = n THEN nil ELSE list[i + 1]
          BY <1>13, <4>1
        <4>5. i # n /\ i \in Nat
          BY <1>4
        <4>6. CASE i = k - 1
          <5>1. i # n - 1 => l[i + 1] = list[k + 1]
            BY <1>4, <1>10, <4>6
          <5>2. i = n - 1 <=> k = n
            BY <1>4, <4>6
          <5> QED
            BY <1>6, <4>3, <4>4, <4>6, <5>1, <5>2
        <4>7. CASE i # k - 1
          <5>1. i # n - 1 /\ l[i + 1] = list[i + 1]
            BY <1>4, <1>10, <3>1, <4>7
          <5> QED
            BY <4>3, <4>4, <4>5, <4>7, <5>1
        <4> QED
          BY <4>6, <4>7
      <3>2. CASE i >= k
        <4>1. l[i] = list[i + 1] /\ i + 1 \in 1 .. n /\ i + 1 # k /\ i + 1 # k - 1 /\ i + 1 # 1
              /\ (i + 1) - 1 = i /\ (i + 1) + 1 = i + 2
          BY <1>4, <1>10, <3>2
        <4>2. /\ g[l[i]].prev = IF i + 1 = k + 1 THEN pr ELSE list[i]
              /\ g[l[i]].next = IF i + 1 = n THEN nil ELSE list[i + 2]
          BY <1>13, <4>1
        <4>3. g[l[i]].next = IF i = n - 1 THEN nil ELSE l[i + 1]
          <5>1. i # n - 1 => l[i + 1] = list[i + 2]
            BY <1>4, <1>10, <3>2
          <5>2. i + 1 = n <=> i = n - 1
            BY <1>4
          <5> QED
            BY <4>2, <5>1, <5>2
        <4>4. g[l[i]].prev = IF i = 1 THEN nil ELSE l[i - 1]
          <5>1. CASE i = k
            <6>1. i # 1 => l[i - 1] = list[k - 1]
              BY <1>4, <1>10, <5>1
            <6> QED
              BY <1>6, <4>2, <5>1, <6>1
          <5>2. CASE i # k
            <6>1. i # 1 /\ l[i - 1] = list[i] /\ i + 1 # k + 1
              BY <1>4, <1>10, <3>2, <5>2
            <6> QED
              BY <4>2, <6>1
          <5> QED
            BY <5>1, <5>2
        <4> QED
          BY <4>3, <4>4
      <3> QED
        BY <1>4, <3>1, <3>2
    <2> QED
      BY <2>1, <2>2
  <1> HIDE DEF e
  <1>15. Listing(Mem, nil, g, e, n - 1, l)
    BY <1>4, <1>10, <1>11, <1>12, <1>14 DEF Listing
  <1> QED
    BY <1>15 DEF e
(* The tasks of the list are as many as there are in memory, each once. *)
LEMMA ListingCounts ==
    ASSUME NEW Mem, NEW nil, NEW h, NEW f, NEW n, NEW list,
           Listing(Mem, nil, h, f, n, list)
    PROVE  LET used == {t \in Mem : h[t] # nil}
           IN  n = Cardinality(used) /\ list \in Injection(1 .. n, used)
  <1> DEFINE used == {t \in Mem : h[t] # nil}
  <1>1. /\ n \in Nat /\ list \in [1 .. n -> Mem]
        /\ \A i, j \in 1 .. n : list[i] = list[j] => i = j
        /\ \A t \in Mem : h[t] # nil <=> \E i \in 1 .. n : list[i] = t
    BY DEF Listing
  <1>2. list \in [1 .. n -> used] /\ \A t \in used : \E i \in 1 .. n : list[i] = t
    BY <1>1
  <1> HIDE DEF used
  <1>3. list \in Bijection(1 .. n, used) /\ list \in Injection(1 .. n, used)
    BY <1>1, <1>2 DEF Bijection, Injection, Surjection, IsInjective
  <1>4. IsFiniteSet(1 .. n) /\ Cardinality(1 .. n) = n
    BY <1>1, FS_Interval
  <1>5. ExistsBijection(1 .. n, used)
    BY <1>3 DEF ExistsBijection
  <1>6. Cardinality(used) = n
    BY <1>4, <1>5, FS_Bijection
  <1> QED
    BY <1>3, <1>6 DEF used

----------------------------------------------------------------------------
(* Queues of messages: one is taken off the front, or put at the end.     *)
LEMMA Shift ==
    ASSUME NEW S, NEW s \in Seq(S), s # <<>>
    PROVE  /\ Tail(s) \in Seq(S) /\ Head(s) = s[1] /\ 1 \in DOMAIN s /\ s[1] \in S
           /\ \A i \in DOMAIN s : i \in Int /\ 1 <= i
           /\ \A i \in DOMAIN Tail(s) : i \in Int /\ i + 1 \in DOMAIN s /\ Tail(s)[i] = s[i + 1]
  OBVIOUS

LEMMA Grow ==
    ASSUME NEW S, NEW s \in Seq(S), NEW x \in S
    PROVE  /\ Append(s, x) \in Seq(S) /\ Len(s) \in Nat
           /\ Len(Append(s, x)) = Len(s) + 1
           /\ \A i \in DOMAIN Append(s, x) :
                 /\ i \in Int
                 /\ \/ i \in DOMAIN s /\ Append(s, x)[i] = s[i] /\ i <= Len(s)
                    \/ i = Len(s) + 1 /\ Append(s, x)[i] = x
  OBVIOUS

LEMMA Concat ==
    ASSUME NEW S, NEW s \in Seq(S), NEW r \in Seq(S)
    PROVE  /\ s \o r \in Seq(S) /\ Len(s \o r) = Len(s) + Len(r)
           /\ Len(s) \in Nat /\ Len(r) \in Nat
           /\ DOMAIN s = 1 .. Len(s) /\ DOMAIN r = 1 .. Len(r)
           /\ DOMAIN (s \o r) = 1 .. Len(s) + Len(r)
           /\ \A i \in 1 .. Len(s) + Len(r) :
                 (s \o r)[i] = IF i <= Len(s) THEN s[i] ELSE r[i - Len(s)]
  OBVIOUS
=============================================================================
