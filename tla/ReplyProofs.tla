---------------------------- MODULE ReplyProofs ----------------------------
(***************************************************************************)
(* The bucket that replies are charged to, and the challenges that are     *)
(* handed out under it, for every burst, period, clock, width of int and   *)
(* number of challenges.                                                   *)
(*                                                                         *)
(* LeakyBucketWindow: the window bound.  The potential of the proof is     *)
(* EmptyAt(bucket, Period), the instant at which the bucket will have      *)
(* leaked all it holds: settling never moves it back, and a request        *)
(* admitted moves it by one period.                                        *)
(*                                                                         *)
(* Challenges: what a flood of getchallenge cannot do.  It cannot take a   *)
(* challenge before its client had the time to answer or, where it goes on *)
(* asking, to be let through; it lends nobody the age of another's         *)
(* challenge, and it brings nobody into the game who has not read the      *)
(* connect message.                                                        *)
(***************************************************************************)
EXTENDS LeakyBucketWindow, Challenges, SharedLemmas, FiniteSetTheorems

Buckets == BucketsTo(Burst)

(* The facts about SVC_RateLimit, of this bucket. *)
LEMMA SettleFacts ==
    ASSUME NEW b \in Buckets, NEW t \in Int
    PROVE  /\ Settle(b, Period, t) \in Buckets
           /\ Settle(b, Period, t).burst <= b.burst
           /\ Settle(b, Period, t).lastTime \in (t - (Period - 1)) .. t
           /\ b.lastTime <= t =>
                EmptyAt(b, Period) <= EmptyAt(Settle(b, Period, t), Period)
           /\ t - b.lastTime \in 0 .. (IntHalf - 1) =>
                \/ Settle(b, Period, t) = [lastTime |-> t, burst |-> 0]
                \/ EmptyAt(Settle(b, Period, t), Period) = EmptyAt(b, Period)
  <1>1. Burst \in Nat /\ Period \in Nat \ {0} /\ (Burst + 1) * Period <= IntHalf
    BY LimitAssumption
  <1> QED
    BY <1>1, Settling DEF Buckets

LEMMA ChargeFacts ==
    ASSUME NEW b \in Buckets, NEW t \in Int
    PROVE  /\ Charge(b, Burst, Period, t) \in Buckets
           /\ Charge(b, Burst, Period, t).lastTime \in (t - (Period - 1)) .. t
           /\ Limited(b, Burst, Period, t) =>
                Charge(b, Burst, Period, t) = Settle(b, Period, t)
           /\ ~Limited(b, Burst, Period, t) =>
                EmptyAt(Charge(b, Burst, Period, t), Period)
                  = EmptyAt(Settle(b, Period, t), Period) + Period
  <1>1. /\ Burst \in Nat /\ Period \in Nat \ {0} /\ (Burst + 1) * Period <= IntHalf
        /\ Burst \in 0 .. Burst
    BY LimitAssumption
  <1> QED
    BY <1>1, Charging DEF Buckets

(* The next admission and the emptying of a bucket differ by a constant.    *)
LEMMA FreeAtIsEmptyAt ==
    ASSUME NEW b \in Buckets
    PROVE  /\ FreeAt(b) = EmptyAt(b, Period) - (Burst - 1) * Period
           /\ FreeAt(b) \in Int /\ EmptyAt(b, Period) \in Int
  <1>1. Burst \in Nat /\ Period \in Nat /\ b.lastTime \in Int /\ b.burst \in Int
    BY LimitAssumption DEF Buckets, BucketsTo
  <1> DEFINE n == b.burst
             m == Burst - 1
  <1>2. (n - m) * Period = n * Period - m * Period
    <2>1. n \in Int /\ m \in Int
      BY <1>1
    <2> HIDE DEF n, m
    <2> QED
      BY <1>1, <2>1, Multiples
  <1>3. b.burst - Burst + 1 = b.burst - (Burst - 1)
    BY <1>1
  <1>4. b.burst * Period \in Int /\ (Burst - 1) * Period \in Int
    BY <1>1, Multiples
  <1> QED
    BY <1>1, <1>2, <1>3, <1>4 DEF FreeAt, EmptyAt

----------------------------------------------------------------------------
(* Type correctness of the bucket, the clock and the window. *)
THEOREM WindowTypes == WSpec => []WindowTypeOK
  <1>1. WInit => WindowTypeOK
    <2> SUFFICES ASSUME WInit
                 PROVE  WindowTypeOK
      OBVIOUS
    <2>1. now \in Nat /\ wStart \in Nat /\ wCount \in Nat
      BY LimitAssumption DEF WInit, Init
    <2>2. bucket \in [lastTime : Int, burst : 0 .. Burst]
      BY LimitAssumption DEF WInit, Init, ZeroBucket
    <2>3. asked \in BOOLEAN /\ eager \in BOOLEAN
      BY DEF WInit
    <2> QED
      BY <2>1, <2>2, <2>3 DEF WindowTypeOK
  <1>2. WindowTypeOK /\ [WNext]_wvars => WindowTypeOK'
    <2> SUFFICES ASSUME WindowTypeOK, [WNext]_wvars
                 PROVE  WindowTypeOK'
      OBVIOUS
    <2> USE DEF WindowTypeOK
    <2>0. bucket \in Buckets /\ now \in Int
      BY DEF Buckets, BucketsTo
    <2>1. CASE WAdmit
      <3>1. bucket' \in Buckets
        BY <2>0, <2>1, ChargeFacts DEF WAdmit, Admit
      <3> QED
        BY <2>1, <3>1 DEF WAdmit, Admit, Buckets, BucketsTo
    <2>2. CASE WRefuse
      <3>1. bucket' \in Buckets
        BY <2>0, <2>2, ChargeFacts DEF WRefuse, Refuse
      <3> QED
        BY <2>2, <3>1 DEF WRefuse, Refuse, Buckets, BucketsTo
    <2>3. CASE WTick
      <3>1. now' \in Nat /\ wStart' \in Nat /\ wCount' \in Nat /\ bucket' = bucket
        BY <2>3 DEF WTick, Tick
      <3>2. asked' \in BOOLEAN /\ eager' \in BOOLEAN
        BY <2>3, Zenon DEF WTick
      <3> QED
        BY <3>1, <3>2
    <2>4. CASE WStepBack
      <3>1. now' \in Nat /\ wStart' \in Nat /\ wCount' \in Nat /\ bucket' = bucket
        BY <2>4, LimitAssumption DEF WStepBack, StepBack
      <3>2. asked' \in BOOLEAN /\ eager' \in BOOLEAN
        BY <2>4 DEF WStepBack
      <3> QED
        BY <3>1, <3>2
    <2>5. CASE OpenWindow
      BY <2>5 DEF OpenWindow
    <2>6. CASE UNCHANGED wvars
      BY <2>6 DEF wvars
    <2> QED
      BY <2>1, <2>2, <2>3, <2>4, <2>5, <2>6 DEF WNext
  <1> QED
    BY <1>1, <1>2, PTL DEF WSpec

(* The potential argument: the inductive invariant behind WindowBound. *)
THEOREM WindowInductive == WSpec => []WindowIInv
  <1>1. WInit => WindowStart /\ PotentialInv
    BY LimitAssumption DEF WInit, Init, WindowStart, PotentialInv
  <1>2. WindowTypeOK /\ WindowTypeOK' /\ WindowStart /\ PotentialInv /\ [WNext]_wvars
          => WindowStart' /\ PotentialInv'
    <2> SUFFICES ASSUME WindowTypeOK, WindowTypeOK', WindowStart, PotentialInv, [WNext]_wvars
                 PROVE  WindowStart' /\ PotentialInv'
      OBVIOUS
    <2>0. /\ bucket \in Buckets /\ bucket' \in Buckets
          /\ now \in Nat /\ wStart \in Nat /\ wCount \in Nat /\ wStart <= now
          /\ Burst \in Nat /\ Period \in Nat \ {0}
      BY LimitAssumption DEF WindowTypeOK, Buckets, BucketsTo, WindowStart
    <2> DEFINE s == Settle(bucket, Period, now)
    <2>s. /\ s \in Buckets /\ s.lastTime \in (now - (Period - 1)) .. now
          /\ bucket.lastTime <= now => EmptyAt(bucket, Period) <= EmptyAt(s, Period)
      BY <2>0, SettleFacts
    <2>e. EmptyAt(bucket, Period) \in Int /\ EmptyAt(s, Period) \in Int /\ EmptyAt(bucket', Period) \in Int
      BY <2>0, <2>s, FreeAtIsEmptyAt
    <2>1. CASE WAdmit
      <3>1. /\ bucket' = Charge(bucket, Burst, Period, now)
            /\ ~Limited(bucket, Burst, Period, now)
            /\ now' = now /\ wStart' = wStart /\ wCount' = wCount + 1
        BY <2>1 DEF WAdmit, Admit
      <3>2. /\ bucket'.lastTime \in (now - (Period - 1)) .. now
            /\ EmptyAt(bucket', Period) = EmptyAt(s, Period) + Period
        <4>1. bucket'.lastTime \in (now - (Period - 1)) .. now
          <5>1. now \in Int
            BY <2>0
          <5>2. Charge(bucket, Burst, Period, now).lastTime
                  \in (now - (Period - 1)) .. now
            BY <2>0, <5>1, ChargeFacts
          <5> QED
            BY <3>1, <5>2
        <4>2. EmptyAt(bucket', Period) = EmptyAt(s, Period) + Period
          BY <2>0, <3>1, ChargeFacts
        <4> QED
          BY <4>1, <4>2
      <3>3. (wCount + 1) * Period = wCount * Period + Period /\ wCount * Period \in Int
        BY <2>0, Multiples
      <3>4. EmptyAt(s, Period) >= now - (Period - 1)
        <4>1. s.burst * Period >= 0 /\ s.burst * Period \in Int
          BY <2>0, <2>s, Multiples DEF Buckets, BucketsTo
        <4> QED
          BY <2>0, <2>s, <4>1 DEF EmptyAt, Buckets, BucketsTo
      <3>5. CASE wCount = 0
        <4>1. wCount * Period = 0
          BY <2>0, <3>5
        <4> HIDE DEF s
        <4> QED
          BY <2>0, <2>s, <2>e, <3>1, <3>2, <3>3, <3>4, <4>1
             DEF WindowStart, PotentialInv
      <3>6. CASE wCount > 0
        <4>1. /\ bucket.lastTime <= now
              /\ wCount * Period <= EmptyAt(bucket, Period) - wStart + (Period - 1)
          BY <3>6 DEF PotentialInv
        <4> HIDE DEF s
        <4> QED
          BY <2>0, <2>s, <2>e, <3>1, <3>2, <3>3, <4>1
             DEF WindowStart, PotentialInv
      <3> QED
        BY <2>0, <3>5, <3>6
    <2>2. CASE WRefuse
      <3>1. /\ bucket' = Charge(bucket, Burst, Period, now)
            /\ Limited(bucket, Burst, Period, now)
            /\ now' = now /\ wStart' = wStart /\ wCount' = wCount
        BY <2>2 DEF WRefuse, Refuse
      <3>2. bucket' = s
        BY <2>0, <3>1, ChargeFacts
      <3>3. wCount * Period \in Int
        BY <2>0, Multiples
      <3> HIDE DEF s
      <3> QED
        BY <2>0, <2>s, <2>e, <3>1, <3>2, <3>3 DEF WindowStart, PotentialInv
    <2>3. CASE WTick
      <3>1. wCount * Period \in Int
        BY <2>0, Multiples
      <3> QED
        BY <2>0, <2>3, <2>e, <3>1
           DEF WTick, Tick, WindowStart, PotentialInv, Buckets, BucketsTo
    <2>4. CASE WStepBack
      BY <2>0, <2>4, LimitAssumption DEF WStepBack, StepBack, WindowStart, PotentialInv
    <2>5. CASE OpenWindow
      BY <2>0, <2>5 DEF OpenWindow, WindowStart, PotentialInv
    <2>6. CASE UNCHANGED wvars
      BY <2>6 DEF wvars, WindowStart, PotentialInv
    <2> QED
      BY <2>1, <2>2, <2>3, <2>4, <2>5, <2>6 DEF WNext
  <1> QED
    BY <1>1, <1>2, WindowTypes, PTL DEF WSpec, WindowIInv

(* No window admits more than one request per period and one full burst,    *)
(* for every burst, period and int width the assumptions allow.             *)
THEOREM WindowBounded == WSpec => []WindowBound
  <1>1. WindowIInv => WindowBound
    <2> SUFFICES ASSUME WindowIInv
                 PROVE  WindowBound
      OBVIOUS
    <2>1. /\ bucket \in Buckets /\ now \in Nat /\ wStart \in Nat /\ wCount \in Nat
          /\ wStart <= now /\ Burst \in Nat /\ Period \in Nat \ {0} /\ PotentialInv
      BY LimitAssumption DEF WindowIInv, WindowTypeOK, WindowStart, Buckets, BucketsTo
    <2>2. /\ bucket.burst * Period <= Burst * Period
          /\ bucket.burst * Period \in Int /\ Burst * Period \in Nat
          /\ wCount * Period \in Int
      BY <2>1, Multiples DEF Buckets, BucketsTo
    <2>3. CASE wCount > 0
      BY <2>1, <2>2, <2>3 DEF PotentialInv, WindowBound, EmptyAt, Buckets, BucketsTo
    <2>4. CASE wCount = 0
      <3>1. wCount * Period = 0
        BY <2>1, <2>4
      <3> QED
        BY <2>1, <2>2, <3>1 DEF WindowBound
    <2> QED
      BY <2>1, <2>3, <2>4
  <1> QED
    BY <1>1, WindowInductive, PTL

----------------------------------------------------------------------------
LEMMA PeriodFitsInt == Period \in Nat \ {0} /\ Burst \in Nat \ {0} /\ Period < IntHalf
  <1>1. Period \in Nat \ {0} /\ Burst \in Nat \ {0} /\ (Burst + 1) * Period <= IntHalf
    BY LimitAssumption
  <1>2. 2 * Period <= (Burst + 1) * Period /\ (Burst + 1) * Period \in Int
    BY <1>1, Multiples
  <1> QED
    BY <1>1, <1>2, IntHalfAssumption

(* Settling a bucket that an int has not wrapped for keeps or brings        *)
(* forward the next admission; whatever the bucket, a request has to wait   *)
(* a period at most.                                                        *)
LEMMA SettleFreeAt ==
    ASSUME NEW b \in Buckets, NEW t \in Int
    PROVE  /\ FreeAt(Settle(b, Period, t)) <= t + Period
           /\ t - b.lastTime \in 0 .. (IntHalf - 1) =>
                \/ FreeAt(Settle(b, Period, t)) = FreeAt(b)
                \/ /\ FreeAt(Settle(b, Period, t)) <= t
                   /\ Settle(b, Period, t).burst = 0
           /\ Settle(b, Period, t).burst >= Burst =>
                FreeAt(Settle(b, Period, t)) > t
  <1> DEFINE s == Settle(b, Period, t)
  <1> SUFFICES /\ FreeAt(s) <= t + Period
               /\ t - b.lastTime \in 0 .. (IntHalf - 1) =>
                    \/ FreeAt(s) = FreeAt(b)
                    \/ FreeAt(s) <= t /\ s.burst = 0
               /\ s.burst >= Burst => FreeAt(s) > t
    OBVIOUS
  <1>1. Period \in Nat \ {0} /\ Burst \in Nat \ {0}
    BY LimitAssumption
  <1>2. /\ s \in Buckets /\ s.lastTime \in (t - (Period - 1)) .. t
        /\ t - b.lastTime \in 0 .. (IntHalf - 1) =>
              \/ s = [lastTime |-> t, burst |-> 0]
              \/ EmptyAt(s, Period) = EmptyAt(b, Period)
    BY SettleFacts
  <1> HIDE DEF s
  <1>3. s.burst \in 0 .. Burst /\ s.lastTime \in Int
    BY <1>2 DEF Buckets, BucketsTo
  <1> DEFINE k == s.burst - Burst + 1
  <1>4. FreeAt(s) = s.lastTime + k * Period
    BY DEF FreeAt
  <1>5. k \in Int /\ k <= 1 /\ (s.burst = 0 => k <= 0) /\ (s.burst >= Burst => k = 1)
    BY <1>1, <1>3
  <1> HIDE DEF k
  <1>6. k * Period \in Int /\ k * Period <= Period /\ (k <= 0 => k * Period <= 0)
        /\ (k = 1 => k * Period = Period)
    <2>1. k * Period \in Int /\ (k <= 1 => k * Period <= 1 * Period)
          /\ (k <= 0 => k * Period <= 0 * Period)
      BY <1>1, <1>5, Multiples
    <2> QED
      BY <1>1, <1>5, <2>1
  <1>7. FreeAt(s) <= t + Period
    BY <1>1, <1>2, <1>3, <1>4, <1>6
  <1>8. ASSUME s.burst >= Burst
        PROVE  FreeAt(s) > t
    BY <1>1, <1>2, <1>3, <1>4, <1>5, <1>6, <1>8
  <1>9. ASSUME s = [lastTime |-> t, burst |-> 0]
        PROVE  FreeAt(s) <= t /\ s.burst = 0
    <2>1. s.burst = 0 /\ s.lastTime = t
      BY <1>9
    <2> QED
      BY <1>3, <1>4, <1>5, <1>6, <2>1
  <1>10. ASSUME EmptyAt(s, Period) = EmptyAt(b, Period)
         PROVE  FreeAt(s) = FreeAt(b)
    BY <1>2, <1>10, FreeAtIsEmptyAt
  <1> QED
    BY <1>2, <1>7, <1>8, <1>9, <1>10

(* A request admitted moves the next admission by one period. *)
LEMMA ChargeFreeAt ==
    ASSUME NEW b \in Buckets, NEW t \in Int, ~Limited(b, Burst, Period, t)
    PROVE  FreeAt(Charge(b, Burst, Period, t))
             = FreeAt(Settle(b, Period, t)) + Period
  <1>1. /\ Settle(b, Period, t) \in Buckets
        /\ Charge(b, Burst, Period, t) \in Buckets
        /\ EmptyAt(Charge(b, Burst, Period, t), Period)
             = EmptyAt(Settle(b, Period, t), Period) + Period
    BY SettleFacts, ChargeFacts
  <1>2. Period \in Int /\ (Burst - 1) * Period \in Int
    BY LimitAssumption
  <1> QED
    BY <1>1, <1>2, FreeAtIsEmptyAt

(* A refused request never moves the next admission. *)
THEOREM RefusalsAreFree == WSpec => RefusalIsFree
  <1>1. WindowTypeOK /\ [WNext]_wvars =>
          [Refuse /\ now - bucket.lastTime \in 0 .. IntHalf - 1
             => FreeAt(bucket') = FreeAt(bucket)]_wvars
    <2> SUFFICES ASSUME WindowTypeOK, Refuse, now - bucket.lastTime \in 0 .. IntHalf - 1
                 PROVE  FreeAt(bucket') = FreeAt(bucket)
      BY DEF RefusalIsFree
    <2>1. bucket \in Buckets /\ now \in Int /\ Burst \in Nat \ {0}
      BY LimitAssumption DEF WindowTypeOK, Buckets, BucketsTo
    <2>2. bucket' = Settle(bucket, Period, now)
      BY <2>1, ChargeFacts DEF Refuse
    <2>3. Settle(bucket, Period, now).burst >= Burst
      BY DEF Refuse, Limited
    <2> QED
      BY <2>1, <2>2, <2>3, SettleFreeAt
  <1> QED
    BY <1>1, WindowTypes, PTL DEF WSpec, RefusalIsFree

(* The inductive invariant behind EagerService. *)
THEOREM EagerInductive == WSpec => []EagerIInv
  <1>1. WInit => WindowStart /\ EagerInv
    <2> SUFFICES ASSUME WInit
                 PROVE  WindowStart /\ EagerInv
      OBVIOUS
    <2>1. /\ now \in Nat /\ wStart = now /\ wCount = 0 /\ asked = FALSE
          /\ Period \in Nat
      BY LimitAssumption DEF WInit, Init
    <2>2. now <= ServedBy
      BY <2>1 DEF ServedBy
    <2> QED
      BY <2>1, <2>2 DEF WindowStart, EagerInv
  <1>2. WindowTypeOK /\ WindowTypeOK' /\ WindowStart /\ EagerInv /\ [WNext]_wvars
          => WindowStart' /\ EagerInv'
    <2> SUFFICES ASSUME WindowTypeOK, WindowTypeOK', WindowStart, EagerInv, [WNext]_wvars
                 PROVE  WindowStart' /\ EagerInv'
      OBVIOUS
    <2>0. /\ bucket \in Buckets /\ bucket' \in Buckets
          /\ now \in Nat /\ now \in Int /\ wStart \in Nat /\ wCount \in Nat
          /\ wStart <= now
          /\ Period \in Nat \ {0} /\ Period < IntHalf /\ IntHalf \in Nat
      BY PeriodFitsInt, IntHalfAssumption DEF WindowTypeOK, Buckets, BucketsTo, WindowStart
    <2> DEFINE s == Settle(bucket, Period, now)
    <2>s. s \in Buckets /\ s.lastTime \in (now - (Period - 1)) .. now
      BY <2>0, SettleFacts
    <2>p. /\ (wCount + 1) * Period \in Nat
          /\ ((wCount + 1) + 1) * Period = (wCount + 1) * Period + Period
      <3>1. \A n \in Nat : n * Period \in Int /\ (n + 1) * Period = n * Period + Period
        BY <2>0, Multiples
      <3>2. 0 * Period <= (wCount + 1) * Period
        BY <2>0, Multiples
      <3> QED
        BY <2>0, <3>1, <3>2
    <2>f. ASSUME eager
          PROVE  FreeAt(s) <= ServedBy /\ now <= ServedBy /\ ServedBy \in Int
      <3>1. now <= ServedBy /\ ServedBy \in Int
        BY <2>0, <2>f, <2>p DEF EagerInv, ServedBy
      <3>2. FreeAt(s) \in Int
        BY <2>s, FreeAtIsEmptyAt
      <3>3. CASE ~asked /\ now = wStart /\ wCount = 0
        <4>1. ServedBy = now + Period
          BY <2>0, <3>3 DEF ServedBy
        <4> QED
          BY <2>0, <3>1, <4>1, SettleFreeAt
      <3>4. CASE /\ now - bucket.lastTime \in 0 .. (IF asked THEN Period - 1 ELSE Period)
                 /\ FreeAt(bucket) <= ServedBy
        <4>1. now - bucket.lastTime \in 0 .. (IntHalf - 1)
          <5>1. bucket.lastTime \in Int
            BY <2>0 DEF Buckets, BucketsTo
          <5>2. now - bucket.lastTime \in 0 .. Period
            BY <2>0, <3>4, <5>1
          <5> QED
            BY <2>0, <5>1, <5>2
        <4>2. FreeAt(s) = FreeAt(bucket) \/ FreeAt(s) <= now
          BY <2>0, <4>1, SettleFreeAt
        <4> QED
          BY <2>0, <3>1, <3>2, <3>4, <4>2
      <3> QED
        BY <2>f, <3>3, <3>4 DEF EagerInv
    <2>1. CASE WAdmit
      <3>1. /\ bucket' = Charge(bucket, Burst, Period, now)
            /\ ~Limited(bucket, Burst, Period, now)
            /\ now' = now /\ wStart' = wStart /\ wCount' = wCount + 1
            /\ asked' = TRUE /\ eager' = eager
        BY <2>1 DEF WAdmit, Admit
      <3>2. FreeAt(bucket') = FreeAt(s) + Period
        BY <2>0, <3>1, ChargeFreeAt
      <3>3. Charge(bucket, Burst, Period, now).lastTime \in (now - (Period - 1)) .. now
        BY <2>0, ChargeFacts
      <3>4. FreeAt(s) \in Int /\ bucket'.lastTime \in Int
        BY <2>0, <2>s, FreeAtIsEmptyAt DEF Buckets, BucketsTo
      <3> HIDE DEF s
      <3>5. now' - bucket'.lastTime \in 0 .. (Period - 1)
        BY <2>0, <3>1, <3>3, <3>4
      <3>6. ServedBy' = ServedBy + Period
        BY <2>0, <2>p, <3>1 DEF ServedBy
      <3>7. ASSUME eager
            PROVE  now' < ServedBy' /\ FreeAt(bucket') <= ServedBy'
        BY <2>0, <2>f, <3>1, <3>2, <3>4, <3>6, <3>7
      <3>8. ASSUME eager
            PROVE  now' <= ServedBy'
        BY <2>0, <2>f, <3>1, <3>6, <3>8
      <3>9. WindowStart'
        BY <3>1 DEF WindowStart
      <3> QED
        BY <3>1, <3>5, <3>7, <3>8, <3>9 DEF EagerInv
    <2>2. CASE WRefuse
      <3>1. /\ bucket' = Charge(bucket, Burst, Period, now)
            /\ Limited(bucket, Burst, Period, now)
            /\ now' = now /\ wStart' = wStart /\ wCount' = wCount
            /\ asked' = TRUE /\ eager' = eager
        BY <2>2 DEF WRefuse, Refuse
      <3>2. bucket' = s
        BY <2>0, <3>1, ChargeFacts
      <3>3. FreeAt(s) > now
        BY <2>0, <3>1, SettleFreeAt DEF Limited
      <3>4. FreeAt(s) \in Int /\ s.lastTime \in Int
        BY <2>s, FreeAtIsEmptyAt DEF Buckets, BucketsTo
      <3> HIDE DEF s
      <3>5. now' - bucket'.lastTime \in 0 .. (Period - 1)
        BY <2>0, <2>s, <3>1, <3>2, <3>4
      <3>6. ServedBy' = ServedBy
        BY <3>1 DEF ServedBy
      <3>7. ASSUME eager
            PROVE  now' < ServedBy' /\ FreeAt(bucket') <= ServedBy'
        BY <2>0, <2>f, <3>1, <3>2, <3>3, <3>4, <3>6, <3>7
      <3>8. ASSUME eager
            PROVE  now' <= ServedBy'
        BY <2>0, <2>f, <3>1, <3>6, <3>8
      <3>9. WindowStart'
        BY <3>1 DEF WindowStart
      <3> QED
        BY <3>1, <3>5, <3>7, <3>8, <3>9 DEF EagerInv
    <2>3. CASE WTick
      <3>1. /\ now' = now + 1 /\ bucket' = bucket /\ wStart' = wStart
            /\ wCount' = wCount
        BY <2>3 DEF WTick, Tick
      <3>2. eager' = (eager /\ asked) /\ asked' = FALSE
        BY <2>3 DEF WTick
      <3>3. ServedBy' = ServedBy
        BY <3>1 DEF ServedBy
      <3>4. ASSUME eager, asked
            PROVE  /\ now < ServedBy
                   /\ now - bucket.lastTime \in 0 .. (Period - 1)
                   /\ FreeAt(bucket) <= ServedBy
        BY <3>4 DEF EagerInv
      <3>5. ASSUME eager, asked
            PROVE  /\ now' <= ServedBy'
                   /\ now' - bucket'.lastTime \in 0 .. Period
                   /\ FreeAt(bucket') <= ServedBy'
        <4>1. bucket.lastTime \in Int /\ ServedBy \in Int
          BY <2>0, <2>f, <3>5 DEF Buckets, BucketsTo
        <4> QED
          BY <2>0, <3>1, <3>3, <3>4, <3>5, <4>1
      <3>6. WindowStart'
        BY <2>0, <3>1 DEF WindowStart
      <3> QED
        BY <3>2, <3>5, <3>6 DEF EagerInv
    <2>4. CASE WStepBack \/ OpenWindow
      <3>1. /\ now' \in Nat /\ wStart' = now' /\ wCount' = 0 /\ asked' = FALSE
        BY <2>0, <2>4, LimitAssumption DEF WStepBack, StepBack, OpenWindow
      <3>2. now' <= ServedBy'
        <4>1. \A n, p \in Nat : n <= n + (0 + 1) * p
          OBVIOUS
        <4> QED
          BY <2>0, <3>1, <4>1 DEF ServedBy
      <3>3. WindowStart'
        BY <3>1 DEF WindowStart
      <3> QED
        BY <3>1, <3>2, <3>3 DEF EagerInv
    <2>5. CASE UNCHANGED wvars
      BY <2>5 DEF wvars, WindowStart, EagerInv, ServedBy
    <2> QED
      BY <2>1, <2>2, <2>3, <2>4, <2>5 DEF WNext
  <1> QED
    BY <1>1, <1>2, WindowTypes, PTL DEF WSpec, EagerIInv

(* A sender that keeps asking is served at least once per period. *)
THEOREM EagerlyServed == WSpec => []EagerService
  <1>1. EagerIInv => EagerService
    <2> SUFFICES ASSUME EagerIInv, eager, asked
                 PROVE  (now - wStart) \div Period <= wCount
      BY DEF EagerService
    <2> DEFINE q == (now - wStart) \div Period
    <2>1. /\ now \in Nat /\ wStart \in Nat /\ wCount \in Nat
          /\ Period \in Nat \ {0}
      BY LimitAssumption DEF EagerIInv, WindowTypeOK
    <2>2. now < ServedBy
      BY DEF EagerIInv, EagerInv
    <2>3. q \in Int /\ q * Period <= now - wStart /\ q * Period \in Int
      <3>1. now - wStart \in Int
        BY <2>1
      <3> QED
        BY <2>1, <3>1, Division, Multiples
    <2> HIDE DEF q
    <2>4. CASE q >= wCount + 1
      <3>1. (wCount + 1) * Period <= q * Period /\ (wCount + 1) * Period \in Int
        BY <2>1, <2>3, <2>4, Multiples
      <3> QED
        BY <2>1, <2>2, <2>3, <3>1 DEF ServedBy
    <2> QED
      BY <2>1, <2>3, <2>4 DEF q
  <1> QED
    BY <1>1, EagerInductive, PTL

----------------------------------------------------------------------------
(* Challenges. *)
LEMMA EmptyAtTime ==
    ASSUME NEW b \in Buckets
    PROVE  EmptyAt(b, Period) \in Int
  BY EmptyAtType, LimitAssumption DEF Buckets

Challenge == [adr : NetAddress \cup {NoAddress}, challenge : Value \cup {NoValue},
              time : Nat, firstTime : Nat, connected : BOOLEAN, ignoredCount : Nat]

Replies == [to : NetAddress \cup {NoAddress}, why : {"none", "lan", "timeout", "accept"}]

----------------------------------------------------------------------------
LEMMA FirstIsIn ==
    ASSUME NEW set \in SUBSET Slots, set # {}
    PROVE  First(set) \in set
  <1>1. set \in SUBSET Nat
    BY DEF Slots
  <1>2. \E i \in set : \A j \in set : i <= j
    BY <1>1, Least
  <1> QED
    BY <1>2 DEF First

(* The slot that is given up holds the oldest challenge. *)
LEMMA OldestSlot ==
    ASSUME challenges \in [Slots -> Challenge]
    PROVE  /\ Oldest \in Slots
           /\ \A j \in Slots : challenges[Oldest].time <= challenges[j].time
  <1> DEFINE times == {challenges[i].time : i \in Slots}
             oldest == {i \in Slots : \A j \in Slots : challenges[i].time <= challenges[j].time}
  <1>1. times \in SUBSET Nat /\ times # {}
    <2>1. 1 \in Slots
      BY ChallengesAssumption DEF Slots
    <2>2. \A i \in Slots : challenges[i].time \in Nat
      BY DEF Challenge
    <2> QED
      BY <2>1, <2>2
  <1>2. PICK x \in times : \A y \in times : x <= y
    <2> HIDE DEF times
    <2> QED
      BY <1>1, Least
  <1>3. oldest # {}
    BY <1>2
  <1>4. oldest \in SUBSET Slots
    OBVIOUS
  <1>5. First(oldest) \in oldest
    <2> HIDE DEF oldest
    <2> QED
      BY <1>3, <1>4, FirstIsIn
  <1> QED
    BY <1>5 DEF Oldest

----------------------------------------------------------------------------
(* What the actions do to the table keeps its type. *)
LEMMA Updated ==
    ASSUME NEW f \in [Slots -> Challenge], NEW i, NEW c \in Challenge
    PROVE  [f EXCEPT ![i] = c] \in [Slots -> Challenge]
  OBVIOUS

(* A challenge issued in one slot leaves the others alone.                  *)
LEMMA IssuedElsewhere ==
    ASSUME challenges \in [Slots -> Challenge], NEW i, NEW a, NEW v
    PROVE  \A j \in Slots : j # i => Issued(i, a, v)[j] = challenges[j]
  BY DEF Issued

LEMMA IssuedType ==
    ASSUME challenges \in [Slots -> Challenge], svsTime \in Nat,
           NEW i, NEW a \in NetAddress, NEW v \in Value
    PROVE  /\ Issued(i, a, v) \in [Slots -> Challenge]
           /\ i \in Slots =>
                Issued(i, a, v)[i] = [adr |-> a, challenge |-> v, time |-> svsTime,
                                      firstTime |-> svsTime, connected |-> FALSE,
                                      ignoredCount |-> 0]
           /\ \A j \in Slots : j # i => Issued(i, a, v)[j] = challenges[j]
  <1> DEFINE c == [adr |-> a, challenge |-> v, time |-> svsTime,
                   firstTime |-> svsTime, connected |-> FALSE, ignoredCount |-> 0]
  <1>1. c \in Challenge
    BY Zenon DEF Challenge
  <1>2. Issued(i, a, v) = [challenges EXCEPT ![i] = c]
    BY DEF Issued
  <1> HIDE DEF c
  <1>3. /\ [challenges EXCEPT ![i] = c] \in [Slots -> Challenge]
        /\ i \in Slots => [challenges EXCEPT ![i] = c][i] = c
        /\ \A j \in Slots : j # i => [challenges EXCEPT ![i] = c][j] = challenges[j]
    BY <1>1, Updated
  <1> QED
    BY <1>2, <1>3 DEF c

LEMMA CountedType ==
    ASSUME challenges \in [Slots -> Challenge], NEW i
    PROVE  LET c == [challenges EXCEPT ![i].ignoredCount = @ + 1]
           IN  /\ c \in [Slots -> Challenge]
               /\ \A j \in Slots :
                     /\ c[j].adr = challenges[j].adr
                     /\ c[j].challenge = challenges[j].challenge
                     /\ c[j].time = challenges[j].time
                     /\ c[j].firstTime = challenges[j].firstTime
                     /\ c[j].connected = challenges[j].connected
                     /\ c[j].ignoredCount = challenges[j].ignoredCount
                                              + (IF j = i THEN 1 ELSE 0)
  <1> DEFINE n == challenges[i].ignoredCount + 1
             d == [challenges[i] EXCEPT !.ignoredCount = n]
             c == [challenges EXCEPT ![i] = d]
  <1>1. ASSUME i \in Slots
        PROVE  /\ d \in Challenge
               /\ d.adr = challenges[i].adr /\ d.challenge = challenges[i].challenge
               /\ d.time = challenges[i].time /\ d.firstTime = challenges[i].firstTime
               /\ d.connected = challenges[i].connected
               /\ d.ignoredCount = n
    <2>1. challenges[i] \in Challenge
      BY <1>1
    <2>2. n \in Nat
      BY <2>1 DEF Challenge
    <2> HIDE DEF n
    <2> QED
      BY <2>1, <2>2, Zenon DEF Challenge
  <1>2. [challenges EXCEPT ![i].ignoredCount = @ + 1] = c
    OBVIOUS
  <1>3. \A j \in Slots : challenges[j].ignoredCount \in Nat
    BY DEF Challenge
  <1> HIDE DEF d
  <1>4. c \in [Slots -> Challenge]
    BY <1>1
  <1>5. /\ i \in Slots => c[i] = d
        /\ \A j \in Slots : j # i => c[j] = challenges[j]
    OBVIOUS
  <1>6. ASSUME NEW j \in Slots
        PROVE  /\ c[j].adr = challenges[j].adr
               /\ c[j].challenge = challenges[j].challenge
               /\ c[j].time = challenges[j].time
               /\ c[j].firstTime = challenges[j].firstTime
               /\ c[j].connected = challenges[j].connected
               /\ c[j].ignoredCount = IF j = i THEN n ELSE challenges[j].ignoredCount
    <2> HIDE DEF c, n
    <2>1. CASE j = i
      BY <1>1, <1>5, <2>1, Zenon
    <2>2. CASE j # i
      BY <1>5, <2>2, Zenon
    <2> QED
      BY <2>1, <2>2, Zenon
  <1>7. \A j \in Slots : c[j].ignoredCount = challenges[j].ignoredCount + (IF j = i THEN 1 ELSE 0)
    BY <1>3, <1>6
  <1> HIDE DEF c, n
  <1> QED
    BY <1>2, <1>4, <1>6, <1>7, Zenon

LEMMA ConnectedType ==
    ASSUME challenges \in [Slots -> Challenge], NEW i, NEW b \in BOOLEAN
    PROVE  LET c == [challenges EXCEPT ![i].connected = b]
           IN  /\ c \in [Slots -> Challenge]
               /\ \A j \in Slots :
                     /\ c[j].adr = challenges[j].adr
                     /\ c[j].challenge = challenges[j].challenge
                     /\ c[j].time = challenges[j].time
                     /\ c[j].firstTime = challenges[j].firstTime
                     /\ c[j].ignoredCount = challenges[j].ignoredCount
                     /\ c[j].connected = IF j = i THEN b ELSE challenges[j].connected
  <1> DEFINE d == [challenges[i] EXCEPT !.connected = b]
             c == [challenges EXCEPT ![i] = d]
  <1>1. ASSUME i \in Slots
        PROVE  /\ d \in Challenge
               /\ d.adr = challenges[i].adr /\ d.challenge = challenges[i].challenge
               /\ d.time = challenges[i].time /\ d.firstTime = challenges[i].firstTime
               /\ d.ignoredCount = challenges[i].ignoredCount
               /\ d.connected = b
    <2>1. challenges[i] \in Challenge
      BY <1>1
    <2> QED
      BY <2>1, Zenon DEF Challenge
  <1>2. [challenges EXCEPT ![i].connected = b] = c
    OBVIOUS
  <1> HIDE DEF d
  <1>3. c \in [Slots -> Challenge]
    BY <1>1
  <1>4. /\ i \in Slots => c[i] = d
        /\ \A j \in Slots : j # i => c[j] = challenges[j]
    OBVIOUS
  <1> HIDE DEF c
  <1> QED
    BY <1>1, <1>2, <1>3, <1>4

LEMMA ClearedType ==
    ASSUME challenges \in [Slots -> Challenge], NEW i
    PROVE  LET c == [challenges EXCEPT ![i] = Cleared(@.ignoredCount)]
           IN  /\ c \in [Slots -> Challenge]
               /\ \A j \in Slots : j # i => c[j] = challenges[j]
               /\ i \in Slots => /\ c[i].adr = NoAddress /\ c[i].time = 0
                                 /\ ~c[i].connected
  <1> DEFINE d == Cleared(challenges[i].ignoredCount)
  <1>1. ASSUME i \in Slots
        PROVE  /\ d \in Challenge
               /\ d.adr = NoAddress /\ d.time = 0 /\ ~d.connected
    <2>1. challenges[i].ignoredCount \in Nat
      BY <1>1 DEF Challenge
    <2>2. d \in Challenge
      BY <2>1, Zenon DEF Challenge, Cleared
    <2> QED
      BY <2>2 DEF Cleared
  <1>2. [challenges EXCEPT ![i] = Cleared(@.ignoredCount)] = [challenges EXCEPT ![i] = d]
    OBVIOUS
  <1> HIDE DEF d
  <1> QED
    BY <1>1, <1>2

----------------------------------------------------------------------------
(* The bucket of replies, after any packet. *)
LEMMA BucketStep ==
    ASSUME bucket \in Buckets, now \in Nat, Admit \/ Refuse
    PROVE  /\ bucket' \in Buckets
           /\ now' = now
           /\ bucket'.lastTime <= now
           /\ bucket.lastTime <= now => EmptyAt(bucket, Period) <= EmptyAt(bucket', Period)
           /\ Admit => /\ now < EmptyAt(bucket', Period)
                       /\ bucket.lastTime <= now =>
                            /\ EmptyAt(bucket, Period) + Period <= EmptyAt(bucket', Period)
                            /\ EmptyAt(bucket, Period) <= now + (Burst - 1) * Period
  <1> DEFINE s == Settle(bucket, Period, now)
             e == EmptyAt(bucket, Period)
             es == EmptyAt(s, Period)
             ec == EmptyAt(bucket', Period)
  <1>1. /\ Burst \in Nat \ {0} /\ Period \in Nat \ {0} /\ now \in Int
        /\ (Burst + 1) * Period <= IntHalf /\ Burst \in 0 .. Burst
    BY LimitAssumption
  <1>2. /\ s \in Buckets /\ s.lastTime \in (now - (Period - 1)) .. now
        /\ bucket.lastTime <= now => e <= es
    BY <1>1, Settling DEF Buckets
  <1>3. bucket' = Charge(bucket, Burst, Period, now) /\ now' = now
    BY DEF Admit, Refuse
  <1>4. /\ bucket' \in Buckets /\ bucket'.lastTime \in (now - (Period - 1)) .. now
        /\ Limited(bucket, Burst, Period, now) => bucket' = s
        /\ ~Limited(bucket, Burst, Period, now) => ec = es + Period
    <2> DEFINE c == Charge(bucket, Burst, Period, now)
    <2>1. /\ c \in Buckets /\ c.lastTime \in (now - (Period - 1)) .. now
          /\ Limited(bucket, Burst, Period, now) => c = s
          /\ ~Limited(bucket, Burst, Period, now) => EmptyAt(c, Period) = es + Period
      BY <1>1, Charging DEF Buckets
    <2> QED
      BY <1>3, <2>1
  <1>5. e \in Int /\ es \in Int /\ ec \in Int
    BY <1>2, <1>4, EmptyAtTime
  <1>6. s.lastTime \in Int /\ s.burst \in Nat /\ s.burst * Period \in Nat
        /\ es = s.lastTime + s.burst * Period
    BY <1>1, <1>2, Multiples DEF Buckets, BucketsTo, EmptyAt
  <1>7. bucket'.lastTime <= now
    <2>1. bucket'.lastTime \in Int
      BY <1>4 DEF Buckets, BucketsTo
    <2> QED
      BY <1>1, <1>4, <2>1
  <1>8. Admit => ~Limited(bucket, Burst, Period, now) /\ s.burst <= Burst - 1
    BY <1>1, <1>2 DEF Admit, Limited, Buckets, BucketsTo
  <1>9. s.burst <= Burst - 1 => s.burst * Period <= (Burst - 1) * Period
    BY <1>1, <1>6, Multiples
  <1>10. (Burst - 1) * Period \in Int
    BY <1>1, Multiples
  <1> HIDE DEF s, e, es, ec
  <1>11. bucket.lastTime <= now => e <= ec
    BY <1>1, <1>2, <1>4, <1>5 DEF es, ec
  <1>12. ASSUME Admit
         PROVE  /\ now < ec
                /\ bucket.lastTime <= now => e + Period <= ec /\ e <= now + (Burst - 1) * Period
    <2>1. ec = es + Period /\ s.burst <= Burst - 1
      BY <1>4, <1>8, <1>12
    <2>2. s.lastTime >= now - (Period - 1) /\ s.lastTime <= now
      BY <1>1, <1>2, <1>6
    <2>3. s.burst * Period \in Nat /\ s.burst * Period <= (Burst - 1) * Period
      BY <1>6, <1>9, <2>1
    <2> DEFINE k == s.burst * Period
               m == (Burst - 1) * Period
    <2>4. k \in Nat /\ k <= m /\ m \in Int /\ es = s.lastTime + k
      BY <1>6, <1>10, <2>3
    <2> HIDE DEF k, m
    <2>5. now < ec
      BY <1>1, <1>5, <1>6, <2>1, <2>2, <2>4
    <2>6. bucket.lastTime <= now => e + Period <= ec /\ e <= now + m
      BY <1>1, <1>2, <1>5, <1>6, <2>1, <2>2, <2>4
    <2> QED
      BY <2>5, <2>6 DEF m
  <1> QED
    BY <1>3, <1>4, <1>7, <1>11, <1>12 DEF e, ec

----------------------------------------------------------------------------
(* What is answered, and when the first request was made. *)
LEMMA ReplyType ==
    ASSUME NEW a \in NetAddress \cup {NoAddress},
           NEW w \in {"none", "lan", "timeout", "accept"}
    PROVE  [to |-> a, why |-> w] \in Replies
  BY Zenon DEF Replies

LEMMA NoReplyType == NoReply \in Replies /\ NoReply.why # "timeout"
  BY DEF NoReply, Replies

LEMMA AnswerFacts ==
    ASSUME NEW a \in NetAddress, NEW c, c.challenge \in Value, sent \subseteq Value,
           authorize \in {"unresolved", "resolved", "bad"}, Answer(a, c)
    PROVE  /\ reply' \in Replies
           /\ authorize' \in {"unresolved", "resolved", "bad"}
           /\ sent' \subseteq Value
           /\ reply'.why = "timeout" => reply'.to = a /\ TimedOut(c)
  <1>1. CASE AnswerLan(a)
    <2>1. reply' = [to |-> a, why |-> "lan"] /\ authorize' = authorize /\ sent' = sent
      BY <1>1 DEF AnswerLan
    <2>2. reply' \in Replies
      BY <2>1, ReplyType
    <2> QED
      BY <2>1, <2>2
  <1>2. CASE AnswerUnresolved(a)
    <2>1. reply' = NoReply /\ authorize' \in {"unresolved", "bad"} /\ sent' = sent
      BY <1>2 DEF AnswerUnresolved
    <2> QED
      BY <2>1, NoReplyType
  <1>3. CASE AnswerTimedOut(a, c)
    <2>1. /\ reply' = [to |-> a, why |-> "timeout"] /\ TimedOut(c) /\ sent' = sent
          /\ authorize' \in {"bad", "resolved"}
      BY <1>3 DEF AnswerTimedOut, AuthorizeResolved
    <2>2. reply' \in Replies /\ reply'.to = a
      BY <2>1, ReplyType
    <2> QED
      BY <2>1, <2>2
  <1>4. CASE AuthorizeRequest(a, c)
    <2>1. /\ reply' = NoReply /\ sent' \in {sent, sent \cup {c.challenge}}
          /\ authorize' \in {"bad", "resolved"}
      BY <1>4 DEF AuthorizeRequest, AuthorizeResolved
    <2> QED
      BY <2>1, NoReplyType
  <1> QED
    BY <1>1, <1>2, <1>3, <1>4 DEF Answer

LEMMA AskedFacts ==
    ASSUME NEW a \in NetAddress, firstAsked \in [NetAddress -> Nat], svsTime \in Nat \ {0},
           \A b \in NetAddress : firstAsked[b] <= svsTime, Asked(a)
    PROVE  /\ firstAsked' \in [NetAddress -> Nat]
           /\ firstAsked'[a] \in 1 .. svsTime
           /\ \A b \in NetAddress : firstAsked'[b] <= svsTime
           /\ \A b \in NetAddress : firstAsked[b] # 0 => firstAsked'[b] = firstAsked[b]
           /\ \A b \in NetAddress : b # a => firstAsked'[b] = firstAsked[b]
  BY DEF Asked

----------------------------------------------------------------------------
TableOK == TypeOK /\ Entries

LEMMA TypeParts ==
    TypeOK <=> /\ now \in Nat /\ bucket \in Buckets /\ svsTime \in 1 .. now
               /\ challenges \in [Slots -> Challenge]
               /\ authorize \in {"unresolved", "resolved", "bad"} /\ lastHeard \in Nat
               /\ sent \subseteq Value /\ reply \in Replies
               /\ read \in [NetAddress -> [Value -> Nat]]
               /\ firstAsked \in [NetAddress -> Nat] /\ newcomers \subseteq NetAddress
  BY DEF TypeOK, Buckets, BucketsTo, Challenge, Replies

LEMMA InitTable == CInit => TableOK
  <1> SUFFICES ASSUME CInit
               PROVE  TableOK
    OBVIOUS
  <1>1. now \in Nat \ {0} /\ svsTime = now
    BY LimitAssumption, ChallengesAssumption DEF CInit, Init
  <1>2. bucket \in Buckets
    BY LimitAssumption DEF CInit, Init, ZeroBucket, Buckets, BucketsTo
  <1>3. Cleared(0) \in Challenge /\ Cleared(0).time = 0 /\ Cleared(0).adr = NoAddress
    <2>1. 0 \in Nat
      OBVIOUS
    <2> QED
      BY <2>1, Zenon DEF Challenge, Cleared
  <1>4. challenges = [i \in Slots |-> Cleared(0)]
    BY DEF CInit
  <1>5. challenges \in [Slots -> Challenge]
    BY <1>3, <1>4
  <1>6. reply \in Replies
    BY NoReplyType DEF CInit
  <1>7. /\ read \in [NetAddress -> [Value -> Nat]]
        /\ firstAsked = [a \in NetAddress |-> 0]
        /\ authorize = "unresolved" /\ lastHeard = 0 /\ sent = {} /\ newcomers = NetAddress
    BY DEF CInit
  <1>8. TypeOK
    BY <1>1, <1>2, <1>5, <1>6, <1>7, TypeParts
  <1>9. Entries
    BY <1>1, <1>3, <1>4, <1>7 DEF Entries
  <1> QED
    BY <1>8, <1>9 DEF TableOK

(* The table after each action. *)
LEMMA TableStep == TableOK /\ [CNext]_cvars => TableOK'
  <1> SUFFICES ASSUME TableOK, [CNext]_cvars
               PROVE  TableOK'
    OBVIOUS
  <1>0. /\ now \in Nat /\ bucket \in Buckets /\ svsTime \in 1 .. now
        /\ challenges \in [Slots -> Challenge]
        /\ authorize \in {"unresolved", "resolved", "bad"} /\ lastHeard \in Nat
        /\ sent \subseteq Value /\ reply \in Replies
        /\ read \in [NetAddress -> [Value -> Nat]]
        /\ firstAsked \in [NetAddress -> Nat] /\ newcomers \subseteq NetAddress
    BY TypeParts DEF TableOK
  <1>e. Entries
    BY DEF TableOK
  <1>n. svsTime \in Nat \ {0}
    BY <1>0
  <1>f. \A b \in NetAddress : firstAsked[b] <= svsTime
    BY <1>e DEF Entries
  <1>s. ASSUME NEW i \in Slots
        PROVE  /\ challenges[i] \in Challenge
               /\ challenges[i].adr \in NetAddress \cup {NoAddress}
               /\ challenges[i].time \in Nat /\ challenges[i].time <= svsTime
               /\ challenges[i].adr # NoAddress =>
                     /\ challenges[i].challenge \in Value
                     /\ challenges[i].time > 0
                     /\ firstAsked[challenges[i].adr] \in 1 .. challenges[i].firstTime
    BY <1>0, <1>e DEF Challenge, Entries
  <1>a. Admit \/ Refuse => bucket' \in Buckets /\ now' = now
    BY <1>0, BucketStep
  <1>1. ASSUME NEW a \in NetAddress, GetChallengeAgain(a)
        PROVE  TableOK'
    <2>1. /\ Admit /\ Pending(a) # {} /\ Answer(a, challenges[First(Pending(a))]) /\ Asked(a)
          /\ svsTime' = svsTime /\ challenges' = challenges /\ lastHeard' = lastHeard
          /\ read' = read /\ newcomers' = newcomers
      BY <1>1 DEF GetChallengeAgain
    <2>2. /\ First(Pending(a)) \in Slots /\ challenges[First(Pending(a))].adr = a
      <3>1. Pending(a) \in SUBSET Slots
        BY DEF Pending
      <3>2. First(Pending(a)) \in Pending(a)
        BY <2>1, <3>1, FirstIsIn
      <3> QED
        BY <3>2 DEF Pending
    <2>3. challenges[First(Pending(a))].challenge \in Value
      BY <1>e, <2>2, ChallengesAssumption DEF Entries
    <2>4. /\ reply' \in Replies /\ authorize' \in {"unresolved", "resolved", "bad"}
          /\ sent' \subseteq Value
      BY <1>0, <2>1, <2>3, AnswerFacts
    <2>5. /\ firstAsked' \in [NetAddress -> Nat]
          /\ \A b \in NetAddress : firstAsked'[b] <= svsTime
          /\ \A b \in NetAddress : firstAsked[b] # 0 => firstAsked'[b] = firstAsked[b]
      <3>1. Asked(a)
        BY <2>1
      <3> QED
        BY <1>0, <1>n, <1>f, <3>1, AskedFacts
    <2>6. TypeOK'
      BY <1>0, <1>a, <2>1, <2>4, <2>5 DEF TypeOK, Buckets, BucketsTo, Challenge, Replies
    <2>7. Entries'
      <3>1. ASSUME NEW i \in Slots, challenges[i].adr # NoAddress
            PROVE  firstAsked'[challenges[i].adr] \in 1 .. challenges[i].firstTime
        <4>1. /\ challenges[i].adr \in NetAddress
              /\ firstAsked[challenges[i].adr] \in 1 .. challenges[i].firstTime
          BY <1>s, <3>1
        <4>2. firstAsked[challenges[i].adr] # 0
          BY <4>1
        <4> QED
          BY <2>5, <4>1, <4>2
      <3> QED
        BY <1>s, <2>1, <2>5, <3>1 DEF Entries
    <2> QED
      BY <2>6, <2>7 DEF TableOK
  <1>k. ASSUME svsTime' \in Nat, svsTime <= svsTime', firstAsked' = firstAsked,
               \A j \in Slots :
                  \/ /\ challenges'[j].adr = challenges[j].adr
                     /\ challenges'[j].challenge = challenges[j].challenge
                     /\ challenges'[j].time = challenges[j].time
                     /\ challenges'[j].firstTime = challenges[j].firstTime
                  \/ challenges'[j].adr = NoAddress /\ challenges'[j].time = 0
        PROVE  Entries'
    <2>1. \A b \in NetAddress : firstAsked'[b] <= svsTime'
      BY <1>0, <1>f, <1>n, <1>k
    <2>2. ASSUME NEW j \in Slots
          PROVE  /\ challenges'[j].time <= svsTime'
                 /\ challenges'[j].adr # NoAddress =>
                      /\ challenges'[j].challenge \in Value
                      /\ challenges'[j].time > 0
                      /\ firstAsked'[challenges'[j].adr] \in 1 .. challenges'[j].firstTime
      BY <1>0, <1>n, <1>s, <1>k
    <2> QED
      BY <2>1, <2>2 DEF Entries
  <1>2. ASSUME NEW a \in NetAddress, NEW v \in Value, GetChallengeAnew(a, v)
        PROVE  TableOK'
    <2>1. /\ Admit /\ challenges' = Issued(Oldest, a, v) /\ Answer(a, challenges'[Oldest])
          /\ Asked(a) /\ read' = [read EXCEPT ![a][v] = 0]
          /\ svsTime' = svsTime /\ lastHeard' = lastHeard /\ newcomers' = newcomers
      BY <1>2 DEF GetChallengeAnew
    <2>2. Oldest \in Slots
      BY <1>0, OldestSlot
    <2>3. /\ challenges' \in [Slots -> Challenge]
          /\ challenges'[Oldest] = [adr |-> a, challenge |-> v, time |-> svsTime,
                                    firstTime |-> svsTime, connected |-> FALSE,
                                    ignoredCount |-> 0]
          /\ \A j \in Slots : j # Oldest => challenges'[j] = challenges[j]
      BY <1>0, <1>n, <2>1, <2>2, IssuedType
    <2>4. /\ reply' \in Replies /\ authorize' \in {"unresolved", "resolved", "bad"}
          /\ sent' \subseteq Value
      <3>1. challenges'[Oldest].challenge \in Value
        BY <2>3
      <3> QED
        BY <1>0, <2>1, <3>1, AnswerFacts
    <2>5. /\ firstAsked' \in [NetAddress -> Nat]
          /\ firstAsked'[a] \in 1 .. svsTime
          /\ \A b \in NetAddress : firstAsked'[b] <= svsTime
          /\ \A b \in NetAddress : firstAsked[b] # 0 => firstAsked'[b] = firstAsked[b]
      <3>1. Asked(a)
        BY <2>1
      <3> QED
        BY <1>0, <1>n, <1>f, <3>1, AskedFacts
    <2>6. read' \in [NetAddress -> [Value -> Nat]]
      BY <1>0, <2>1
    <2>7. TypeOK'
      BY <1>0, <1>a, <2>1, <2>3, <2>4, <2>5, <2>6 DEF TypeOK, Buckets, BucketsTo, Challenge, Replies
    <2>8. ASSUME NEW j \in Slots
          PROVE  /\ challenges'[j].time <= svsTime
                 /\ challenges'[j].adr # NoAddress =>
                      /\ challenges'[j].challenge \in Value
                      /\ challenges'[j].time > 0
                      /\ firstAsked'[challenges'[j].adr] \in 1 .. challenges'[j].firstTime
      <3>1. CASE j = Oldest
        BY <1>n, <2>3, <2>5, <3>1
      <3>2. CASE j # Oldest
        <4>1. challenges'[j] = challenges[j]
          BY <2>3, <3>2
        <4>2. ASSUME challenges[j].adr # NoAddress
              PROVE  firstAsked'[challenges[j].adr] \in 1 .. challenges[j].firstTime
          <5>1. /\ challenges[j].adr \in NetAddress
                /\ firstAsked[challenges[j].adr] \in 1 .. challenges[j].firstTime
            BY <1>s, <4>2
          <5>2. firstAsked[challenges[j].adr] # 0
            BY <5>1
          <5> QED
            BY <2>5, <5>1, <5>2
        <4> QED
          BY <1>s, <4>1, <4>2
      <3> QED
        BY <3>1, <3>2
    <2>9. Entries'
      BY <2>1, <2>5, <2>8 DEF Entries
    <2> QED
      BY <2>7, <2>9 DEF TableOK
  <1>3. ASSUME NEW a \in NetAddress, NEW v \in Value, ConnectIgnored(a, v)
        PROVE  TableOK'
    <2> DEFINE k == First(Unread(a, v))
    <2>1. /\ Admit /\ challenges' = [challenges EXCEPT ![k].ignoredCount = @ + 1]
          /\ read' = [read EXCEPT ![a][v] = @ + 1] /\ reply' = NoReply
          /\ svsTime' = svsTime /\ authorize' = authorize /\ lastHeard' = lastHeard
          /\ sent' = sent /\ firstAsked' = firstAsked /\ newcomers' = newcomers
      BY <1>3 DEF ConnectIgnored
    <2> HIDE DEF k
    <2>2. /\ challenges' \in [Slots -> Challenge]
          /\ \A j \in Slots : /\ challenges'[j].adr = challenges[j].adr
                              /\ challenges'[j].challenge = challenges[j].challenge
                              /\ challenges'[j].time = challenges[j].time
                              /\ challenges'[j].firstTime = challenges[j].firstTime
      BY <1>0, <2>1, CountedType, Zenon
    <2>3. read' \in [NetAddress -> [Value -> Nat]]
      BY <1>0, <2>1
    <2>4. TypeOK'
      BY <1>0, <1>a, <2>1, <2>2, <2>3, NoReplyType DEF TypeOK, Buckets, BucketsTo, Challenge, Replies
    <2>5. Entries'
      BY <1>k, <1>n, <2>1, <2>2
    <2> QED
      BY <2>4, <2>5 DEF TableOK
  <1>4. ASSUME NEW a \in NetAddress, NEW v \in Value, DirectConnect(a, v)
        PROVE  TableOK'
    <2> DEFINE k == First(Presented(a, v))
    <2>1. /\ Admit /\ challenges' = [challenges EXCEPT ![k].connected = TRUE]
          /\ newcomers' = newcomers \ {a} /\ reply' = NoReply
          /\ svsTime' = svsTime /\ authorize' = authorize /\ lastHeard' = lastHeard
          /\ sent' = sent /\ firstAsked' = firstAsked /\ read' = read
      BY <1>4 DEF DirectConnect
    <2> HIDE DEF k
    <2>2. /\ challenges' \in [Slots -> Challenge]
          /\ \A j \in Slots : /\ challenges'[j].adr = challenges[j].adr
                              /\ challenges'[j].challenge = challenges[j].challenge
                              /\ challenges'[j].time = challenges[j].time
                              /\ challenges'[j].firstTime = challenges[j].firstTime
      BY <1>0, <2>1, ConnectedType, Zenon
    <2>3. TypeOK'
      BY <1>0, <1>a, <2>1, <2>2, NoReplyType DEF TypeOK, Buckets, BucketsTo, Challenge, Replies
    <2>4. Entries'
      BY <1>k, <1>n, <2>1, <2>2
    <2> QED
      BY <2>3, <2>4 DEF TableOK
  <1>5. ASSUME NEW i \in Slots, Disconnect(i)
        PROVE  TableOK'
    <2>1. /\ challenges' = [challenges EXCEPT ![i].connected = FALSE] /\ reply' = NoReply
          /\ now' = now /\ bucket' = bucket /\ svsTime' = svsTime /\ authorize' = authorize
          /\ lastHeard' = lastHeard /\ sent' = sent /\ firstAsked' = firstAsked
          /\ read' = read /\ newcomers' = newcomers
      BY <1>5 DEF Disconnect, observed
    <2>2. /\ challenges' \in [Slots -> Challenge]
          /\ \A j \in Slots : /\ challenges'[j].adr = challenges[j].adr
                              /\ challenges'[j].challenge = challenges[j].challenge
                              /\ challenges'[j].time = challenges[j].time
                              /\ challenges'[j].firstTime = challenges[j].firstTime
      BY <1>0, <2>1, ConnectedType, Zenon
    <2>3. TypeOK'
      BY <1>0, <2>1, <2>2, NoReplyType DEF TypeOK, Buckets, BucketsTo, Challenge, Replies
    <2>4. Entries'
      BY <1>k, <1>n, <2>1, <2>2
    <2> QED
      BY <2>3, <2>4 DEF TableOK
  <1>6. ASSUME NEW v \in Value, NEW verdict, AuthorizeIpPacket(v, verdict)
        PROVE  TableOK'
    <2> DEFINE known == {j \in Slots : challenges[j].challenge = v}
               i == First(known)
    <2>1. /\ Admit /\ sent' = sent \ {v} /\ lastHeard' = svsTime /\ svsTime' = svsTime
          /\ authorize' = authorize /\ read' = read /\ firstAsked' = firstAsked
      BY <1>6 DEF AuthorizeIpPacket
    <2>2. \/ /\ known # {} /\ reply' = [to |-> challenges[i].adr, why |-> "accept"]
             /\ challenges' = challenges /\ newcomers' = newcomers
          \/ /\ challenges' = [challenges EXCEPT ![i] = Cleared(@.ignoredCount)]
             /\ newcomers' = newcomers \ {challenges[i].adr} /\ reply' = NoReply
          \/ /\ reply' = NoReply /\ challenges' = challenges /\ newcomers' = newcomers
      BY <1>6 DEF AuthorizeIpPacket
    <2>3. known \in SUBSET Slots
      OBVIOUS
    <2> HIDE DEF known
    <2>4. known # {} => i \in Slots
      BY <2>3, FirstIsIn
    <2> HIDE DEF i
    <2>5. reply' \in Replies
      <3>1. known # {} => challenges[i].adr \in NetAddress \cup {NoAddress}
        BY <1>s, <2>4
      <3>2. known # {} => [to |-> challenges[i].adr, why |-> "accept"] \in Replies
        BY <3>1, ReplyType
      <3> QED
        BY <2>2, <3>2, NoReplyType
    <2>6. /\ challenges' \in [Slots -> Challenge]
          /\ \A j \in Slots : \/ challenges'[j] = challenges[j]
                              \/ challenges'[j].adr = NoAddress /\ challenges'[j].time = 0
      <3>1. CASE challenges' = challenges
        BY <1>0, <3>1
      <3>2. CASE challenges' = [challenges EXCEPT ![i] = Cleared(@.ignoredCount)]
        <4>1. /\ challenges' \in [Slots -> Challenge]
              /\ \A j \in Slots : j # i => challenges'[j] = challenges[j]
              /\ i \in Slots => challenges'[i].adr = NoAddress /\ challenges'[i].time = 0
          BY <1>0, <3>2, ClearedType, Zenon
        <4> QED
          BY <4>1
      <3> QED
        BY <2>2, <3>1, <3>2
    <2>7. newcomers' \subseteq NetAddress
      BY <1>0, <2>2
    <2>8. TypeOK'
      BY <1>0, <1>a, <2>1, <2>5, <2>6, <2>7 DEF TypeOK, Buckets, BucketsTo, Challenge, Replies
    <2>9. Entries'
      BY <1>k, <1>n, <2>1, <2>6
    <2> QED
      BY <2>8, <2>9 DEF TableOK
  <1>7. ASSUME OtherReply \/ PacketRefused
        PROVE  TableOK'
    <2>1. /\ Admit \/ Refuse
          /\ challenges' = challenges /\ reply' = NoReply
          /\ svsTime' = svsTime /\ authorize' = authorize
          /\ lastHeard' = lastHeard /\ sent' = sent /\ firstAsked' = firstAsked
          /\ read' = read /\ newcomers' = newcomers
      BY <1>7 DEF OtherReply, PacketRefused, observed
    <2>2. TypeOK'
      BY <1>0, <1>a, <2>1, NoReplyType DEF TypeOK, Buckets, BucketsTo, Challenge, Replies
    <2>3. Entries'
      BY <1>k, <1>n, <2>1
    <2> QED
      BY <2>2, <2>3 DEF TableOK
  <1>8. ASSUME Millisecond
        PROVE  TableOK'
    <2>1. /\ now' = now + 1 /\ bucket' = bucket /\ svsTime' \in {svsTime, now'}
          /\ challenges' = challenges /\ reply' = NoReply /\ authorize' = authorize
          /\ lastHeard' = lastHeard /\ sent' = sent /\ firstAsked' = firstAsked
          /\ read' = read /\ newcomers' = newcomers
      BY <1>8 DEF Millisecond, Tick, observed
    <2>2. now' \in Nat /\ svsTime' \in 1 .. now' /\ svsTime <= svsTime'
      BY <1>0, <2>1
    <2>3. TypeOK'
      BY <1>0, <2>1, <2>2, NoReplyType DEF TypeOK, Buckets, BucketsTo, Challenge, Replies
    <2>4. Entries'
      BY <1>k, <2>1, <2>2
    <2> QED
      BY <2>3, <2>4 DEF TableOK
  <1>9. ASSUME UNCHANGED cvars
        PROVE  TableOK'
    <2>1. TypeOK'
      BY <1>9 DEF cvars, TypeOK, TableOK
    <2>2. Entries'
      BY <1>9 DEF cvars, Entries, TableOK
    <2> QED
      BY <2>1, <2>2 DEF TableOK
  <1> QED
    BY <1>1, <1>2, <1>3, <1>4, <1>5, <1>6, <1>7, <1>8, <1>9 DEF CNext

(* Type correctness of the table, the bucket and the two clocks. *)
THEOREM ChallengesTypeOK == CSpec => []TypeOK
  <1>1. TableOK => TypeOK
    BY DEF TableOK
  <1> QED
    BY <1>1, InitTable, TableStep, PTL DEF CSpec

----------------------------------------------------------------------------
(* Nobody is let through for want of an answer who did not ask for longer  *)
(* than the timeout: a challenge is as old as it says, and asked for since.*)
THEOREM NobodyTimesOutEarly == CSpec => []NoEarlyTimeout
  <1>1. CInit => NoEarlyTimeout
    BY NoReplyType DEF CInit, NoEarlyTimeout
  <1>2. TableOK /\ NoEarlyTimeout /\ [CNext]_cvars => NoEarlyTimeout'
    <2> SUFFICES ASSUME TableOK, NoEarlyTimeout, [CNext]_cvars, reply'.why = "timeout"
                 PROVE  AuthorizeTimeout < svsTime' - firstAsked'[reply'.to]
      BY DEF NoEarlyTimeout
    <2>0. /\ challenges \in [Slots -> Challenge] /\ svsTime \in Nat \ {0}
          /\ authorize \in {"unresolved", "resolved", "bad"} /\ sent \subseteq Value
          /\ firstAsked \in [NetAddress -> Nat] /\ AuthorizeTimeout \in Nat
          /\ \A b \in NetAddress : firstAsked[b] <= svsTime
      BY TypeParts, ChallengesAssumption DEF TableOK, Entries
    <2>1. CASE \E a \in NetAddress : GetChallengeAgain(a)
      <3>1. PICK a \in NetAddress : GetChallengeAgain(a)
        BY <2>1
      <3> DEFINE c == challenges[First(Pending(a))]
      <3>2. /\ Pending(a) # {} /\ Answer(a, c) /\ Asked(a) /\ svsTime' = svsTime
        BY <3>1 DEF GetChallengeAgain
      <3>3. First(Pending(a)) \in Slots /\ c.adr = a
        <4>1. Pending(a) \in SUBSET Slots
          BY DEF Pending
        <4>2. First(Pending(a)) \in Pending(a)
          BY <3>2, <4>1, FirstIsIn
        <4> QED
          BY <4>2 DEF Pending
      <3>4. c \in Challenge /\ c.challenge \in Value /\ firstAsked[a] \in 1 .. c.firstTime
        BY <2>0, <3>3, ChallengesAssumption DEF TableOK, Entries
      <3> HIDE DEF c
      <3>5. reply'.to = a /\ TimedOut(c)
        BY <2>0, <3>2, <3>4, AnswerFacts
      <3>6. firstAsked'[a] = firstAsked[a]
        BY <2>0, <3>2, <3>4, AskedFacts
      <3> QED
        BY <2>0, <3>2, <3>4, <3>5, <3>6 DEF TimedOut, Challenge
    <2>2. CASE \E a \in NetAddress, v \in Value : GetChallengeAnew(a, v)
      <3>1. PICK a \in NetAddress, v \in Value : GetChallengeAnew(a, v)
        BY <2>2
      <3>2. challenges' = Issued(Oldest, a, v) /\ Answer(a, challenges'[Oldest])
        BY <3>1 DEF GetChallengeAnew
      <3>3. challenges'[Oldest].challenge = v /\ challenges'[Oldest].firstTime = svsTime
        <4>1. Oldest \in Slots
          BY <2>0, OldestSlot
        <4>2. Issued(Oldest, a, v)[Oldest]
                = [adr |-> a, challenge |-> v, time |-> svsTime,
                   firstTime |-> svsTime, connected |-> FALSE, ignoredCount |-> 0]
          BY <2>0, <4>1, IssuedType
        <4> QED
          BY <3>2, <4>2
      <3>4. TimedOut(challenges'[Oldest])
        BY <2>0, <3>2, <3>3, AnswerFacts
      <3> QED
        BY <2>0, <3>3, <3>4 DEF TimedOut
    <2>3. CASE \E a \in NetAddress, v \in Value : ConnectIgnored(a, v) \/ DirectConnect(a, v)
      BY <2>3, NoReplyType DEF ConnectIgnored, DirectConnect
    <2>4. CASE \E i \in Slots : Disconnect(i)
      BY <2>4, NoReplyType DEF Disconnect
    <2>5. CASE \E v \in Value, verdict \in {"accept", "deny"} : AuthorizeIpPacket(v, verdict)
      BY <2>5, NoReplyType DEF AuthorizeIpPacket
    <2>6. CASE OtherReply \/ PacketRefused \/ Millisecond
      BY <2>6, NoReplyType DEF OtherReply, PacketRefused, Millisecond
    <2>7. CASE UNCHANGED cvars
      BY <2>7 DEF cvars, NoEarlyTimeout
    <2> QED
      BY <2>1, <2>2, <2>3, <2>4, <2>5, <2>6, <2>7 DEF CNext
  <1> QED
    BY <1>1, <1>2, InitTable, TableStep, PTL DEF CSpec

----------------------------------------------------------------------------
(* A flood cannot take a challenge before its time: those issued since any *)
(* instant were paid for by the instant at which the bucket of replies is  *)
(* empty, which is never more than a full burst ahead when a reply is let  *)
(* through, and the slot that is given up is the oldest of all.            *)

(* How the challenges issued since an instant are counted. *)
LEMMA SinceFacts ==
    ASSUME challenges \in [Slots -> Challenge], NEW s \in Nat
    PROVE  /\ IsFiniteSet(Since(s)) /\ Cardinality(Since(s)) \in Nat
           /\ Since(s) # {} => Cardinality(Since(s)) >= 1
  <1>1. IsFiniteSet(Slots)
    BY ChallengesAssumption, FS_Interval DEF Slots
  <1>2. Since(s) \in SUBSET Slots
    BY DEF Since
  <1>3. IsFiniteSet(Since(s))
    BY <1>1, <1>2, FS_Subset
  <1>4. Cardinality(Since(s)) \in Nat
    BY <1>3, FS_CardinalityType
  <1>5. Since(s) # {} => Cardinality(Since(s)) # 0
    BY <1>3, FS_EmptySet
  <1> QED
    BY <1>3, <1>4, <1>5

LEMMA PaidStep == TableOK /\ TableOK' /\ PaidFor /\ [CNext]_cvars => PaidFor'
  <1> SUFFICES ASSUME TableOK, TableOK', PaidFor, [CNext]_cvars,
                      NEW s \in 1 .. svsTime', Since(s)' # {}
               PROVE  /\ Cardinality(Since(s)') * Period
                            <= EmptyAt(bucket', Period) - s + (Period - 1)
                      /\ bucket'.lastTime <= now'
    BY DEF PaidFor
  <1> DEFINE old == Since(s)
             new == Since(s)'
             e == EmptyAt(bucket, Period)
             f == EmptyAt(bucket', Period)
             n == Cardinality(old)
             m == Cardinality(new)
  <1>0. /\ now \in Nat /\ bucket \in Buckets /\ svsTime \in 1 .. now
        /\ challenges \in [Slots -> Challenge]
        /\ \A j \in Slots : challenges[j].time \in Nat /\ challenges[j].time <= svsTime
    BY TypeParts DEF TableOK, Entries, Challenge
  <1>1. /\ now' \in Nat /\ bucket' \in Buckets /\ svsTime' \in Nat
        /\ challenges' \in [Slots -> Challenge]
    BY DEF TableOK, TypeOK, Buckets, BucketsTo, Challenge
  <1>2. Burst \in Nat \ {0} /\ Period \in Nat \ {0} /\ s \in Nat /\ s >= 1
    BY <1>1, LimitAssumption
  <1>3. e \in Int /\ f \in Int
    BY <1>0, <1>1, EmptyAtTime
  <1>4. IsFiniteSet(old) /\ n \in Nat
    BY <1>0, <1>2, SinceFacts
  <1>p. s <= svsTime /\ old # {} => n * Period <= e - s + (Period - 1) /\ bucket.lastTime <= now
    BY <1>0, <1>2 DEF PaidFor
  <1>5. ASSUME \A j \in Slots : challenges'[j].time = challenges[j].time \/ challenges'[j].time = 0,
               \/ bucket' = bucket /\ now <= now'
               \/ Admit \/ Refuse
        PROVE  m * Period <= f - s + (Period - 1) /\ bucket'.lastTime <= now'
    <2>1. new \in SUBSET old
      BY <1>0, <1>2, <1>5 DEF Since
    <2>2. m \in Nat /\ m <= n
      BY <1>4, <2>1, FS_Subset, FS_CardinalityType
    <2>3. s <= svsTime
      <3>1. PICK j \in old : TRUE
        BY <2>1
      <3>2. j \in Slots /\ challenges[j].time >= s
        BY <3>1 DEF Since
      <3> QED
        BY <1>0, <1>2, <3>2
    <2>4. n * Period <= e - s + (Period - 1) /\ bucket.lastTime <= now
      BY <1>p, <2>1, <2>3
    <2>5. e <= f /\ bucket'.lastTime <= now'
      <3>1. CASE bucket' = bucket /\ now <= now'
        <4>1. bucket.lastTime \in Int
          BY <1>0 DEF Buckets, BucketsTo
        <4> QED
          BY <1>0, <1>1, <1>3, <2>4, <3>1, <4>1
      <3>2. CASE Admit \/ Refuse
        <4>1. bucket'.lastTime <= now /\ now' = now /\ EmptyAt(bucket, Period) <= EmptyAt(bucket', Period)
          BY <1>0, <2>4, <3>2, BucketStep
        <4> QED
          BY <4>1
      <3> QED
        BY <1>5, <3>1, <3>2
    <2> HIDE DEF old, new, e, f, n, m
    <2>6. m * Period <= n * Period /\ m * Period \in Int /\ n * Period \in Int
      BY <1>2, <1>4, <2>2, Multiples
    <2> QED
      BY <1>2, <1>3, <2>4, <2>5, <2>6
  <1>6. ASSUME NEW a \in NetAddress, NEW v \in Value, GetChallengeAnew(a, v)
        PROVE  m * Period <= f - s + (Period - 1) /\ bucket'.lastTime <= now'
    <2>1. Admit /\ challenges' = Issued(Oldest, a, v) /\ svsTime' = svsTime
      BY <1>6 DEF GetChallengeAnew
    <2>2. \A j \in Slots : j # Oldest => challenges'[j] = challenges[j]
      <3>1. \A j \in Slots : j # Oldest => Issued(Oldest, a, v)[j] = challenges[j]
        BY <1>0, IssuedElsewhere
      <3> QED
        BY <2>1, <3>1
    <2>3. new \in SUBSET (old \cup {Oldest})
      BY <2>2 DEF Since
    <2>4. IsFiniteSet(old \cup {Oldest}) /\ Cardinality(old \cup {Oldest}) <= n + 1
      <3> HIDE DEF old
      <3>1. IsFiniteSet(old \cup {Oldest})
        BY <1>4, FS_AddElement
      <3>2. Cardinality(old \cup {Oldest}) \in {n, n + 1}
        BY <1>4, FS_AddElement
      <3> HIDE DEF n
      <3> QED
        BY <1>4, <3>1, <3>2
    <2>5. m \in Nat /\ m <= n + 1
      <3>1. IsFiniteSet(new) /\ m <= Cardinality(old \cup {Oldest})
        BY <2>3, <2>4, FS_Subset
      <3>2. m \in Nat /\ Cardinality(old \cup {Oldest}) \in Nat
        BY <2>4, <3>1, FS_CardinalityType
      <3> HIDE DEF m, n
      <3> QED
        BY <1>4, <2>4, <3>1, <3>2
    <2>6. /\ now' = now /\ bucket'.lastTime <= now
          /\ now < f
          /\ bucket.lastTime <= now => e + Period <= f
      BY <1>0, <2>1, BucketStep
    <2>7. s <= svsTime /\ s <= now
      BY <1>0, <1>2, <2>1
    <2>8. (n + 1) * Period = n * Period + Period /\ n * Period \in Int
      BY <1>2, <1>4, Multiples
    <2>9. m * Period <= (n + 1) * Period /\ m * Period \in Int
      <3> HIDE DEF m, n
      <3> QED
        BY <1>2, <1>4, <2>5, Multiples
    <2>10. old = {} => n = 0
      BY FS_EmptySet
    <2> HIDE DEF old, new, e, f, n, m
    <2>11. CASE old = {}
      <3>1. n * Period = 0
        BY <1>2, <2>10, <2>11
      <3> QED
        BY <1>0, <1>2, <1>3, <2>6, <2>7, <2>8, <2>9, <3>1
    <2>12. CASE old # {}
      BY <1>0, <1>2, <1>3, <1>p, <2>6, <2>7, <2>8, <2>9, <2>12
    <2> QED
      BY <2>11, <2>12
  <1> HIDE DEF e, f, n, m, old, new
  <1>7. ASSUME NEW a \in NetAddress, GetChallengeAgain(a)
        PROVE  m * Period <= f - s + (Period - 1) /\ bucket'.lastTime <= now'
    BY <1>5, <1>7 DEF GetChallengeAgain
  <1>8. ASSUME NEW a \in NetAddress, NEW v \in Value, ConnectIgnored(a, v)
        PROVE  m * Period <= f - s + (Period - 1) /\ bucket'.lastTime <= now'
    <2> DEFINE k == First(Unread(a, v))
    <2>1. Admit /\ challenges' = [challenges EXCEPT ![k].ignoredCount = @ + 1]
      BY <1>8 DEF ConnectIgnored
    <2> HIDE DEF k
    <2>2. \A j \in Slots : challenges'[j].time = challenges[j].time
      BY <1>0, <2>1, CountedType, Zenon
    <2> QED
      BY <1>5, <2>1, <2>2
  <1>9. ASSUME NEW a \in NetAddress, NEW v \in Value, DirectConnect(a, v)
        PROVE  m * Period <= f - s + (Period - 1) /\ bucket'.lastTime <= now'
    <2> DEFINE k == First(Presented(a, v))
    <2>1. Admit /\ challenges' = [challenges EXCEPT ![k].connected = TRUE]
      BY <1>9 DEF DirectConnect
    <2> HIDE DEF k
    <2>2. \A j \in Slots : challenges'[j].time = challenges[j].time
      BY <1>0, <2>1, ConnectedType, Zenon
    <2> QED
      BY <1>5, <2>1, <2>2
  <1>10. ASSUME NEW i \in Slots, Disconnect(i)
         PROVE  m * Period <= f - s + (Period - 1) /\ bucket'.lastTime <= now'
    <2>1. /\ challenges' = [challenges EXCEPT ![i].connected = FALSE]
          /\ bucket' = bucket /\ now' = now
      BY <1>10 DEF Disconnect
    <2>2. \A j \in Slots : challenges'[j].time = challenges[j].time
      BY <1>0, <2>1, ConnectedType, Zenon
    <2> QED
      BY <1>0, <1>5, <2>1, <2>2
  <1>11. ASSUME NEW v \in Value, NEW verdict, AuthorizeIpPacket(v, verdict)
         PROVE  m * Period <= f - s + (Period - 1) /\ bucket'.lastTime <= now'
    <2> DEFINE k == First({j \in Slots : challenges[j].challenge = v})
    <2>1. /\ Admit
          /\ \/ challenges' = challenges
             \/ challenges' = [challenges EXCEPT ![k] = Cleared(@.ignoredCount)]
      BY <1>11 DEF AuthorizeIpPacket
    <2> HIDE DEF k
    <2>2. \A j \in Slots : challenges'[j].time = challenges[j].time \/ challenges'[j].time = 0
      <3>1. CASE challenges' = [challenges EXCEPT ![k] = Cleared(@.ignoredCount)]
        <4>1. /\ \A j \in Slots : j # k => challenges'[j] = challenges[j]
              /\ k \in Slots => challenges'[k].time = 0
          BY <1>0, <3>1, ClearedType, Zenon
        <4> QED
          BY <4>1
      <3> QED
        BY <2>1, <3>1
    <2> QED
      BY <1>5, <2>1, <2>2
  <1>12. ASSUME OtherReply \/ PacketRefused
         PROVE  m * Period <= f - s + (Period - 1) /\ bucket'.lastTime <= now'
    BY <1>5, <1>12 DEF OtherReply, PacketRefused
  <1>13. ASSUME Millisecond
         PROVE  m * Period <= f - s + (Period - 1) /\ bucket'.lastTime <= now'
    <2>1. bucket' = bucket /\ now' = now + 1 /\ challenges' = challenges
      BY <1>13 DEF Millisecond, Tick
    <2> QED
      BY <1>0, <1>5, <2>1
  <1>14. ASSUME UNCHANGED cvars
         PROVE  m * Period <= f - s + (Period - 1) /\ bucket'.lastTime <= now'
    BY <1>0, <1>5, <1>14 DEF cvars
  <1>15. m * Period <= f - s + (Period - 1) /\ bucket'.lastTime <= now'
    BY <1>6, <1>7, <1>8, <1>9, <1>10, <1>11, <1>12, <1>13, <1>14 DEF CNext
  <1> QED
    BY <1>15 DEF m, new, f

(* The inductive invariant behind ChallengeLives. *)
THEOREM FloodIsPaidFor == CSpec => []PaidFor
  <1>1. CInit => PaidFor
    <2> SUFFICES ASSUME CInit, NEW s \in 1 .. svsTime
                 PROVE  Since(s) = {}
      BY DEF PaidFor
    <2>1. \A j \in Slots : challenges[j].time = 0
      BY DEF CInit, Cleared
    <2>2. s >= 1 /\ s \in Int
      BY LimitAssumption DEF CInit, Init
    <2> QED
      BY <2>1, <2>2 DEF Since
  <1> QED
    BY <1>1, InitTable, TableStep, PaidStep, PTL DEF CSpec

(* Only a new challenge gives one up, and it gives up the oldest. *)
LEMMA GivenUpStep ==
    ASSUME TableOK, [CNext]_cvars, NEW i \in Slots, GivenUp(i)
    PROVE  /\ Admit
           /\ \A j \in Slots : challenges[i].time <= challenges[j].time
  <1>0. challenges \in [Slots -> Challenge] /\ svsTime \in Nat
    BY TypeParts DEF TableOK
  <1>k. ASSUME \A j \in Slots : \/ /\ challenges'[j].adr = challenges[j].adr
                                   /\ challenges'[j].challenge = challenges[j].challenge
                                \/ challenges'[j].adr = NoAddress
        PROVE  FALSE
    BY <1>k DEF GivenUp
  <1>1. ASSUME NEW a \in NetAddress, NEW v \in Value, GetChallengeAnew(a, v)
        PROVE  /\ Admit
               /\ \A j \in Slots : challenges[i].time <= challenges[j].time
    <2>1. Admit /\ challenges' = Issued(Oldest, a, v)
      BY <1>1 DEF GetChallengeAnew
    <2>2. \A j \in Slots : j # Oldest => challenges'[j] = challenges[j]
      <3>1. \A j \in Slots : j # Oldest => Issued(Oldest, a, v)[j] = challenges[j]
        BY <1>0, IssuedElsewhere
      <3> QED
        BY <2>1, <3>1
    <2>3. i = Oldest
      BY <2>2 DEF GivenUp
    <2> QED
      BY <1>0, <2>1, <2>3, OldestSlot
  <1>2. ASSUME NEW a \in NetAddress, NEW v \in Value, ConnectIgnored(a, v)
        PROVE  FALSE
    <2> DEFINE k == First(Unread(a, v))
    <2>1. challenges' = [challenges EXCEPT ![k].ignoredCount = @ + 1]
      BY <1>2 DEF ConnectIgnored
    <2> HIDE DEF k
    <2>2. \A j \in Slots : /\ challenges'[j].adr = challenges[j].adr
                           /\ challenges'[j].challenge = challenges[j].challenge
      BY <1>0, <2>1, CountedType, Zenon
    <2> QED
      BY <1>k, <2>2
  <1>3. ASSUME NEW a \in NetAddress, NEW v \in Value, DirectConnect(a, v)
        PROVE  FALSE
    <2> DEFINE k == First(Presented(a, v))
    <2>1. challenges' = [challenges EXCEPT ![k].connected = TRUE]
      BY <1>3 DEF DirectConnect
    <2> HIDE DEF k
    <2>2. \A j \in Slots : /\ challenges'[j].adr = challenges[j].adr
                           /\ challenges'[j].challenge = challenges[j].challenge
      BY <1>0, <2>1, ConnectedType, Zenon
    <2> QED
      BY <1>k, <2>2
  <1>4. ASSUME NEW j \in Slots, Disconnect(j)
        PROVE  FALSE
    <2>1. challenges' = [challenges EXCEPT ![j].connected = FALSE]
      BY <1>4 DEF Disconnect
    <2>2. \A k \in Slots : /\ challenges'[k].adr = challenges[k].adr
                           /\ challenges'[k].challenge = challenges[k].challenge
      BY <1>0, <2>1, ConnectedType, Zenon
    <2> QED
      BY <1>k, <2>2
  <1>5. ASSUME NEW v \in Value, NEW verdict, AuthorizeIpPacket(v, verdict)
        PROVE  FALSE
    <2> DEFINE k == First({j \in Slots : challenges[j].challenge = v})
    <2>1. \/ challenges' = challenges
          \/ challenges' = [challenges EXCEPT ![k] = Cleared(@.ignoredCount)]
      BY <1>5 DEF AuthorizeIpPacket
    <2> HIDE DEF k
    <2>2. CASE challenges' = [challenges EXCEPT ![k] = Cleared(@.ignoredCount)]
      <3>1. /\ \A j \in Slots : j # k => challenges'[j] = challenges[j]
            /\ k \in Slots => challenges'[k].adr = NoAddress
        BY <1>0, <2>2, ClearedType, Zenon
      <3> QED
        BY <1>k, <3>1
    <2> QED
      BY <1>k, <2>1, <2>2
  <1>6. ASSUME challenges' = challenges
        PROVE  FALSE
    BY <1>k, <1>6
  <1>7. ASSUME \/ \E a \in NetAddress : GetChallengeAgain(a)
               \/ OtherReply \/ PacketRefused \/ Millisecond \/ UNCHANGED cvars
        PROVE  FALSE
    BY <1>6, <1>7
       DEF GetChallengeAgain, OtherReply, PacketRefused, Millisecond, cvars
  <1> QED
    BY <1>1, <1>2, <1>3, <1>4, <1>5, <1>7 DEF CNext

(* A challenge is given up late, by a reply that the bucket let through.   *)
LEMMA GivenUpLate ==
    ASSUME TableOK, PaidFor, [CNext]_cvars, NEW i \in Slots, GivenUp(i)
    PROVE  now - challenges[i].time > Lifetime
  <1> DEFINE s == challenges[i].time
             e == EmptyAt(bucket, Period)
             n == Cardinality(Since(s))
  <1>1. /\ now \in Nat /\ bucket \in Buckets /\ svsTime \in Nat
        /\ challenges \in [Slots -> Challenge]
    BY TypeParts DEF TableOK
  <1>2. s \in 1 .. svsTime
    BY <1>1 DEF TableOK, Entries, Challenge, GivenUp
  <1>3. /\ Admit
        /\ \A j \in Slots : challenges[i].time <= challenges[j].time
    BY GivenUpStep
  <1>4. Since(s) = Slots
    <2>1. \A j \in Slots : challenges[j].time \in Nat
      BY <1>1 DEF Challenge
    <2>2. \A j \in Slots : challenges[j].time >= s
      BY <1>3, <2>1
    <2> QED
      BY <2>2 DEF Since
  <1>5. NumSlots \in Nat /\ Period \in Nat \ {0} /\ Burst \in Nat
    BY LimitAssumption, ChallengesAssumption
  <1>6. n = NumSlots
    <2>1. Cardinality(1 .. NumSlots) = NumSlots
      BY <1>5, FS_Interval
    <2> QED
      BY <1>4, <2>1 DEF Slots
  <1>7. n * Period <= e - s + (Period - 1) /\ bucket.lastTime <= now
    BY <1>2, <1>4 DEF PaidFor
  <1>8. e <= now + (Burst - 1) * Period
    BY <1>1, <1>3, <1>7, BucketStep
  <1>9. e \in Int
    BY <1>1, EmptyAtTime
  <1>10. /\ NumSlots * Period \in Int /\ Burst * Period \in Int
         /\ (Burst - 1) * Period = Burst * Period - Period
         /\ (NumSlots - Burst) * Period = NumSlots * Period - Burst * Period
    <2>1. /\ NumSlots * Period \in Int
          /\ (NumSlots - Burst) * Period = NumSlots * Period - Burst * Period
      BY <1>5, Multiples
    <2>2. /\ Burst * Period \in Int
          /\ (Burst - 1) * Period = Burst * Period - 1 * Period
      BY <1>5, Multiples
    <2> QED
      BY <1>5, <2>1, <2>2
  <1> HIDE DEF s, e, n
  <1>11. now - s > Lifetime
    BY <1>1, <1>2, <1>5, <1>6, <1>7, <1>8, <1>9, <1>10 DEF Lifetime
  <1> QED
    BY <1>11 DEF s

(* A challenge that is given up was kept for longer than Lifetime. *)
THEOREM ChallengesLiveLong == CSpec => ChallengeLives
  <1>1. TableOK /\ PaidFor /\ [CNext]_cvars
          => [\A i \in Slots : GivenUp(i) => now - challenges[i].time > Lifetime]_cvars
    BY GivenUpLate
  <1>2. CSpec => []TableOK
    BY InitTable, TableStep, PTL DEF CSpec
  <1> QED
    BY <1>1, <1>2, FloodIsPaidFor, PTL DEF CSpec, ChallengeLives

----------------------------------------------------------------------------
(* A newcomer is answered: its first challenge is still in the table, and  *)
(* as old as its first request.                                            *)

(* What Patient says of one newcomer. *)
IsPatient(c, f, n, a) ==
    /\ \A i \in Slots : c[i].adr = a => ~c[i].connected
    /\ (f[a] # 0 /\ n - f[a] <= Lifetime) =>
          /\ \E i \in Slots : c[i].adr = a
          /\ \A i \in Slots : c[i].adr = a => c[i].time = f[a] /\ c[i].firstTime = f[a]

LEMMA PatientParts ==
    /\ Patient <=> \A a \in newcomers : IsPatient(challenges, firstAsked, now, a)
    /\ Patient' <=> \A a \in newcomers' : IsPatient(challenges', firstAsked', now', a)
  BY DEF Patient, IsPatient

(* A challenge that stays as old as it is, and unconnected. *)
StaysAsOld(c, d) == /\ d.adr = c.adr
                    /\ d.time = c.time /\ d.firstTime = c.firstTime
                    /\ d.connected => c.connected

(* Nothing happens to the challenges of a newcomer. *)
LEMMA StaysPatient ==
    ASSUME NEW c, NEW d, NEW f, NEW g, NEW n \in Nat, NEW m \in Nat, NEW a,
           IsPatient(c, f, n, a), n <= m, f[a] \in Nat, g[a] = f[a],
           \A i \in Slots : c[i].adr = a \/ d[i].adr = a => StaysAsOld(c[i], d[i])
    PROVE  IsPatient(d, g, m, a)
  <1>1. \A i \in Slots : d[i].adr = a => ~d[i].connected
    BY Zenon DEF IsPatient, StaysAsOld
  <1>2. NumSlots \in Nat /\ Period \in Nat /\ Burst \in Nat
    BY LimitAssumption, ChallengesAssumption
  <1>3. Lifetime \in Int
    BY <1>2, Multiples DEF Lifetime
  <1>4. ASSUME g[a] # 0, m - g[a] <= Lifetime
        PROVE  f[a] # 0 /\ n - f[a] <= Lifetime
    BY <1>3, <1>4
  <1>5. ASSUME g[a] # 0, m - g[a] <= Lifetime
        PROVE  /\ \E i \in Slots : d[i].adr = a
               /\ \A i \in Slots : d[i].adr = a => d[i].time = g[a] /\ d[i].firstTime = g[a]
    <2>1. /\ \E i \in Slots : c[i].adr = a
          /\ \A i \in Slots : c[i].adr = a => c[i].time = f[a] /\ c[i].firstTime = f[a]
      BY <1>4, <1>5, Zenon DEF IsPatient
    <2> QED
      BY <2>1, Zenon DEF StaysAsOld
  <1> QED
    BY <1>1, <1>5, Zenon DEF IsPatient

LEMMA PatientStep == TableOK /\ TableOK' /\ PaidFor /\ Patient /\ [CNext]_cvars => Patient'
  <1> SUFFICES ASSUME TableOK, TableOK', PaidFor, Patient, [CNext]_cvars, NEW a \in newcomers'
               PROVE  IsPatient(challenges', firstAsked', now', a)
    BY PatientParts
  <1>0. /\ challenges \in [Slots -> Challenge] /\ svsTime \in Nat \ {0} /\ now \in Nat
        /\ firstAsked \in [NetAddress -> Nat] /\ newcomers \subseteq NetAddress
        /\ newcomers' \subseteq NetAddress
        /\ \A b \in NetAddress : firstAsked[b] <= svsTime
    <2>1. newcomers' \subseteq NetAddress
      BY DEF TableOK, TypeOK
    <2> QED
      BY <2>1, TypeParts DEF TableOK, Entries
  <1>n. a # NoAddress /\ a \in NetAddress
    BY <1>0, ChallengesAssumption
  <1>p. a \in newcomers => IsPatient(challenges, firstAsked, now, a)
    BY PatientParts
  <1>1. ASSUME NEW b \in NetAddress, GetChallengeAgain(b)
        PROVE  IsPatient(challenges', firstAsked', now', a)
    <2>1. /\ challenges' = challenges /\ now' = now /\ newcomers' = newcomers
          /\ Pending(b) # {} /\ Asked(b)
      BY <1>1 DEF GetChallengeAgain, Admit
    <2>2. firstAsked[b] # 0
      <3>1. PICK i \in Slots : challenges[i].adr = b
        BY <2>1 DEF Pending
      <3>2. b # NoAddress
        BY ChallengesAssumption
      <3>3. firstAsked[b] \in 1 .. challenges[i].firstTime
        BY <3>1, <3>2 DEF TableOK, Entries
      <3> QED
        BY <3>3
    <2>3. firstAsked' = firstAsked
      BY <2>1, <2>2 DEF Asked
    <2> QED
      BY <1>p, <2>1, <2>3
  <1>2. ASSUME NEW b \in NetAddress, NEW v \in Value, GetChallengeAnew(b, v)
        PROVE  IsPatient(challenges', firstAsked', now', a)
    <2>1. /\ Admit /\ now' = now /\ newcomers' = newcomers /\ Pending(b) = {}
          /\ challenges' = Issued(Oldest, b, v) /\ Asked(b)
      BY <1>2 DEF GetChallengeAnew, Admit
    <2>2. Oldest \in Slots
      BY <1>0, OldestSlot
    <2>3. /\ challenges'[Oldest].adr = b /\ ~challenges'[Oldest].connected
          /\ challenges'[Oldest].time = svsTime /\ challenges'[Oldest].firstTime = svsTime
          /\ \A j \in Slots : j # Oldest => challenges'[j] = challenges[j]
      <3>1. /\ Issued(Oldest, b, v)[Oldest]
                  = [adr |-> b, challenge |-> v, time |-> svsTime,
                     firstTime |-> svsTime, connected |-> FALSE, ignoredCount |-> 0]
            /\ \A j \in Slots : j # Oldest => Issued(Oldest, b, v)[j] = challenges[j]
        BY <1>0, <2>2, IssuedType
      <3> QED
        BY <2>1, <3>1
    <2>4. /\ firstAsked'[b] \in 1 .. svsTime
          /\ firstAsked[b] # 0 => firstAsked'[b] = firstAsked[b]
          /\ firstAsked[b] = 0 => firstAsked'[b] = svsTime
          /\ \A d \in NetAddress : d # b => firstAsked'[d] = firstAsked[d]
      <3>1. firstAsked[b] = 0 => firstAsked'[b] = svsTime
        BY <1>0, <2>1 DEF Asked
      <3> QED
        BY <1>0, <2>1, <3>1, AskedFacts
    <2>5. IsPatient(challenges, firstAsked, now, a)
      BY <1>p, <2>1
    <2>6. CASE a = b
      <3>1. \A i \in Slots : challenges[i].adr # a
        BY <2>1, <2>5, <2>6, Zenon DEF Pending, IsPatient
      <3>2. \A i \in Slots : challenges'[i].adr = a => i = Oldest
        BY <2>3, <3>1
      <3>3. \A i \in Slots : challenges'[i].adr = a => ~challenges'[i].connected
        BY <2>3, <3>2, Zenon
      <3>4. CASE firstAsked[a] = 0
        <4>1. firstAsked'[a] = svsTime
          BY <2>4, <2>6, <3>4
        <4> QED
          BY <2>2, <2>3, <2>6, <3>2, <3>3, <4>1, Zenon DEF IsPatient
      <3>5. CASE firstAsked[a] # 0
        <4>1. firstAsked'[a] = firstAsked[a] /\ ~(now - firstAsked[a] <= Lifetime)
          BY <2>4, <2>5, <2>6, <3>1, <3>5, Zenon DEF IsPatient
        <4> QED
          BY <2>1, <3>3, <4>1, Zenon DEF IsPatient
      <3> QED
        BY <3>4, <3>5
    <2>7. CASE a # b
      <3>1. firstAsked'[a] = firstAsked[a]
        BY <1>n, <2>4, <2>7
      <3>2. CASE challenges[Oldest].adr = a
        <4>1. GivenUp(Oldest)
          <5>1. b # NoAddress
            BY ChallengesAssumption
          <5> QED
            BY <1>n, <2>3, <2>7, <3>2, <5>1 DEF GivenUp
        <4>2. now - challenges[Oldest].time > Lifetime
          BY <2>2, <4>1, GivenUpLate
        <4>3. NumSlots \in Nat /\ Period \in Nat /\ Burst \in Nat
          BY LimitAssumption, ChallengesAssumption
        <4>4. Lifetime \in Int
          BY <4>3, Multiples DEF Lifetime
        <4>5. challenges[Oldest].time \in Nat /\ firstAsked[a] \in Nat
          BY <1>0, <1>n, <2>2 DEF Challenge
        <4>6. ~(firstAsked[a] # 0 /\ now - firstAsked[a] <= Lifetime)
          <5>1. SUFFICES ASSUME firstAsked[a] # 0 /\ now - firstAsked[a] <= Lifetime
                         PROVE  FALSE
            OBVIOUS
          <5>2. challenges[Oldest].time = firstAsked[a]
            BY <2>2, <2>5, <3>2, <5>1, Zenon DEF IsPatient
          <5> QED
            BY <1>0, <4>2, <4>4, <4>5, <5>1, <5>2
        <4>7. \A i \in Slots : challenges'[i].adr = a => ~challenges'[i].connected
          <5>1. \A i \in Slots : challenges'[i].adr = a => challenges'[i] = challenges[i]
            BY <2>3, <2>7
          <5> QED
            BY <2>5, <5>1, Zenon DEF IsPatient
        <4> QED
          BY <2>1, <3>1, <4>6, <4>7, Zenon DEF IsPatient
      <3>3. CASE challenges[Oldest].adr # a
        <4>1. \A i \in Slots : challenges[i].adr = a \/ challenges'[i].adr = a
                                 => StaysAsOld(challenges[i], challenges'[i])
          BY <2>3, <2>7, <3>3 DEF StaysAsOld
        <4>2. firstAsked[a] \in Nat /\ now' \in Nat /\ now <= now'
          BY <1>0, <1>n, <2>1
        <4> QED
          BY <1>0, <2>5, <3>1, <4>1, <4>2, StaysPatient, Zenon
      <3> QED
        BY <3>2, <3>3
    <2> QED
      BY <2>6, <2>7
  <1>k. ASSUME now' \in {now, now + 1}, firstAsked' = firstAsked, a \in newcomers,
               \A i \in Slots : challenges[i].adr = a \/ challenges'[i].adr = a
                                 => StaysAsOld(challenges[i], challenges'[i])
        PROVE  IsPatient(challenges', firstAsked', now', a)
    <2>1. /\ firstAsked[a] \in Nat /\ now' \in Nat /\ now <= now'
          /\ firstAsked'[a] = firstAsked[a] /\ now \in Nat
      BY <1>0, <1>n, <1>k
    <2>2. IsPatient(challenges, firstAsked, now, a)
      BY <1>k, <1>p
    <2> QED
      BY <1>k, <2>1, <2>2, StaysPatient
  <1>3. ASSUME NEW b \in NetAddress, NEW v \in Value, ConnectIgnored(b, v)
        PROVE  IsPatient(challenges', firstAsked', now', a)
    <2> DEFINE k == First(Unread(b, v))
    <2>1. /\ challenges' = [challenges EXCEPT ![k].ignoredCount = @ + 1]
          /\ now' = now /\ firstAsked' = firstAsked /\ newcomers' = newcomers
      BY <1>3 DEF ConnectIgnored, Admit
    <2> HIDE DEF k
    <2>2. \A j \in Slots : /\ challenges'[j].adr = challenges[j].adr
                           /\ challenges'[j].time = challenges[j].time
                           /\ challenges'[j].firstTime = challenges[j].firstTime
                           /\ challenges'[j].connected = challenges[j].connected
      BY <1>0, <2>1, CountedType, Zenon
    <2>3. now' \in {now, now + 1} /\ a \in newcomers
      BY <2>1
    <2> QED
      BY <1>k, <2>1, <2>2, <2>3, Zenon DEF StaysAsOld
  <1>4. ASSUME NEW b \in NetAddress, NEW v \in Value, DirectConnect(b, v)
        PROVE  IsPatient(challenges', firstAsked', now', a)
    <2> DEFINE k == First(Presented(b, v))
    <2>1. /\ challenges' = [challenges EXCEPT ![k].connected = TRUE]
          /\ now' = now /\ firstAsked' = firstAsked /\ newcomers' = newcomers \ {b}
          /\ Presented(b, v) # {}
      BY <1>4 DEF DirectConnect, Admit
    <2>2. k \in Slots /\ challenges[k].adr = b
      <3>1. Presented(b, v) \in SUBSET Slots
        BY DEF Presented
      <3>2. k \in Presented(b, v)
        BY <2>1, <3>1, FirstIsIn
      <3> QED
        BY <3>2 DEF Presented
    <2> HIDE DEF k
    <2>3. \A j \in Slots : /\ challenges'[j].adr = challenges[j].adr
                           /\ challenges'[j].time = challenges[j].time
                           /\ challenges'[j].firstTime = challenges[j].firstTime
                           /\ j # k => challenges'[j].connected = challenges[j].connected
      BY <1>0, <2>1, ConnectedType, Zenon
    <2>4. now' \in {now, now + 1} /\ a \in newcomers /\ a # b
      BY <2>1
    <2>5. \A j \in Slots : challenges[j].adr = a \/ challenges'[j].adr = a => j # k
      BY <2>2, <2>3, <2>4
    <2> QED
      BY <1>k, <2>1, <2>3, <2>4, <2>5, Zenon DEF StaysAsOld
  <1>5. ASSUME NEW i \in Slots, Disconnect(i)
        PROVE  IsPatient(challenges', firstAsked', now', a)
    <2>1. /\ challenges' = [challenges EXCEPT ![i].connected = FALSE]
          /\ now' = now /\ firstAsked' = firstAsked /\ newcomers' = newcomers
      BY <1>5 DEF Disconnect, observed
    <2>2. \A j \in Slots :
             /\ challenges'[j].adr = challenges[j].adr
             /\ challenges'[j].time = challenges[j].time
             /\ challenges'[j].firstTime = challenges[j].firstTime
             /\ challenges'[j].connected = IF j = i THEN FALSE ELSE challenges[j].connected
      BY <1>0, <2>1, ConnectedType, Zenon
    <2>3. \A j \in Slots : challenges'[j].connected => challenges[j].connected
      BY <2>2, Zenon
    <2>4. now' \in {now, now + 1} /\ a \in newcomers
      BY <2>1
    <2> QED
      BY <1>k, <2>1, <2>2, <2>3, <2>4, Zenon DEF StaysAsOld
  <1>6. ASSUME NEW v \in Value, NEW verdict, AuthorizeIpPacket(v, verdict)
        PROVE  IsPatient(challenges', firstAsked', now', a)
    <2> DEFINE k == First({j \in Slots : challenges[j].challenge = v})
    <2>1. /\ now' = now /\ firstAsked' = firstAsked
          /\ \/ challenges' = challenges /\ newcomers' = newcomers
             \/ /\ challenges' = [challenges EXCEPT ![k] = Cleared(@.ignoredCount)]
                /\ newcomers' = newcomers \ {challenges[k].adr}
      BY <1>6 DEF AuthorizeIpPacket, Admit
    <2>2. now' \in {now, now + 1} /\ a \in newcomers
      BY <2>1
    <2> HIDE DEF k
    <2>3. CASE challenges' = challenges /\ newcomers' = newcomers
      BY <1>k, <2>1, <2>2, <2>3, Zenon DEF StaysAsOld
    <2>4. CASE /\ challenges' = [challenges EXCEPT ![k] = Cleared(@.ignoredCount)]
               /\ newcomers' = newcomers \ {challenges[k].adr}
      <3>1. /\ \A j \in Slots : j # k => challenges'[j] = challenges[j]
            /\ k \in Slots => challenges'[k].adr = NoAddress
        BY <1>0, <2>4, ClearedType, Zenon
      <3>2. a # challenges[k].adr
        BY <2>4
      <3>3. \A j \in Slots : challenges[j].adr = a \/ challenges'[j].adr = a => j # k
        BY <1>n, <3>1, <3>2, Zenon
      <3> QED
        BY <1>k, <2>1, <2>2, <3>1, <3>3, Zenon DEF StaysAsOld
    <2> QED
      BY <2>1, <2>3, <2>4
  <1>7. ASSUME OtherReply \/ PacketRefused \/ Millisecond \/ UNCHANGED cvars
        PROVE  IsPatient(challenges', firstAsked', now', a)
    <2>1. /\ now' \in {now, now + 1} /\ challenges' = challenges
          /\ firstAsked' = firstAsked /\ newcomers' = newcomers
      BY <1>7 DEF OtherReply, PacketRefused, Millisecond, cvars, observed, Admit, Refuse, Tick
    <2>2. a \in newcomers
      BY <2>1
    <2> QED
      BY <1>k, <2>1, <2>2, Zenon DEF StaysAsOld
  <1> QED
    BY <1>1, <1>2, <1>3, <1>4, <1>5, <1>6, <1>7 DEF CNext

(* The inductive invariant behind PatientIsAnswered. *)
THEOREM NewcomersKeepTheirChallenge == CSpec => []Patient
  <1>1. CInit => Patient
    <2>1. ASSUME CInit
          PROVE  /\ \A i \in Slots : ~challenges[i].connected
                 /\ \A a \in NetAddress : firstAsked[a] = 0
                 /\ newcomers = NetAddress
      BY <2>1 DEF CInit, Cleared
    <2> QED
      BY <2>1, Zenon DEF Patient
  <1>2. CSpec => []TableOK
    BY InitTable, TableStep, PTL DEF CSpec
  <1> QED
    BY <1>1, <1>2, PatientStep, FloodIsPaidFor, PTL DEF CSpec

(* A newcomer who asks again, longer than the timeout after it first asked *)
(* and with the authorize server as long silent, is let through, unless so *)
(* much time went by that a flood may have taken its challenge.            *)
THEOREM TheyAreAnswered == CSpec => PatientIsAnswered
  <1> DEFINE Asks(a) == /\ GetChallengeAgain(a) \/ \E v \in Value : GetChallengeAnew(a, v)
                        /\ firstAsked[a] # 0
                        /\ AuthorizeTimeout < svsTime - firstAsked[a]
                        /\ now - firstAsked[a] <= Lifetime
                        /\ AuthorizeTimeout < svsTime - lastHeard
                        /\ authorize # "unresolved"
  <1>1. ASSUME TableOK, Patient, NEW a \in newcomers, Asks(a)
        PROVE  reply'.to = a
    <2>1. /\ challenges \in [Slots -> Challenge] /\ a \in NetAddress
      BY <1>1, TypeParts DEF TableOK
    <2>2. IsPatient(challenges, firstAsked, now, a)
      BY <1>1, PatientParts
    <2>3. Pending(a) # {}
      BY <1>1, <2>2, Zenon DEF Pending, IsPatient
    <2>4. GetChallengeAgain(a)
      BY <1>1, <2>3 DEF GetChallengeAnew
    <2> DEFINE i == First(Pending(a))
               c == challenges[i]
    <2>5. i \in Slots /\ c.adr = a
      <3>1. Pending(a) \in SUBSET Slots
        BY DEF Pending
      <3>2. i \in Pending(a)
        BY <2>3, <3>1, FirstIsIn
      <3> QED
        BY <3>2 DEF Pending
    <2>6. c.firstTime = firstAsked[a]
      BY <1>1, <2>2, <2>5, Zenon DEF IsPatient
    <2>7. Answer(a, c)
      BY <2>4 DEF GetChallengeAgain
    <2> HIDE DEF c, i
    <2>8. TimedOut(c)
      BY <1>1, <2>6 DEF TimedOut
    <2>9. AnswerLan(a) \/ AnswerTimedOut(a, c)
      BY <1>1, <2>7, <2>8 DEF Answer, AnswerUnresolved, AuthorizeRequest
    <2> QED
      BY <2>9 DEF AnswerLan, AnswerTimedOut
  <1>2. TableOK /\ Patient => [\A a \in newcomers : Asks(a) => reply'.to = a]_cvars
    BY <1>1
  <1>3. CSpec => []TableOK
    BY InitTable, TableStep, PTL DEF CSpec
  <1> QED
    BY <1>2, <1>3, NewcomersKeepTheirChallenge, PTL DEF PatientIsAnswered

----------------------------------------------------------------------------
(* Nobody comes in who has not read the message: a slot counts for the     *)
(* challenge it holds, and no two slots hold the same challenge of the     *)
(* same address, so that the slot which counts is the one presented.       *)

(* A slot that counts right. *)
CountsRight(c, r, i) ==
    /\ c[i].adr # NoAddress =>
          /\ r[c[i].adr][c[i].challenge] = c[i].ignoredCount
          /\ \A j \in Slots : (j # i /\ c[j].adr = c[i].adr)
                => c[j].challenge # c[i].challenge
    /\ c[i].connected => c[i].adr # NoAddress /\ c[i].ignoredCount >= MessageChallenges

LEMMA CountedParts == /\ Counted <=> \A i \in Slots : CountsRight(challenges, read, i)
                      /\ Counted' <=> \A i \in Slots : CountsRight(challenges', read', i)
  BY DEF Counted, CountsRight

LEMMA CountedStep == TableOK /\ Counted /\ [CNext]_cvars => Counted'
  <1> SUFFICES ASSUME TableOK, Counted, [CNext]_cvars
               PROVE  \A i \in Slots : CountsRight(challenges', read', i)
    BY CountedParts
  <1>0. /\ challenges \in [Slots -> Challenge] /\ svsTime \in Nat
        /\ read \in [NetAddress -> [Value -> Nat]]
        /\ MessageChallenges \in Nat
    BY TypeParts, ChallengesAssumption DEF TableOK
  <1>c. \A i \in Slots : CountsRight(challenges, read, i)
    BY CountedParts
  <1>s. \A i \in Slots : /\ challenges[i].adr \in NetAddress \cup {NoAddress}
                         /\ challenges[i].ignoredCount \in Nat
                         /\ challenges[i].adr # NoAddress => challenges[i].challenge \in Value
    BY <1>0 DEF TableOK, Entries, Challenge
  <1>1. ASSUME NEW a \in NetAddress, NEW v \in Value, GetChallengeAnew(a, v)
        PROVE  \A i \in Slots : CountsRight(challenges', read', i)
    <2>1. /\ \A j \in Slots : challenges[j].adr = a => challenges[j].challenge # v
          /\ challenges' = Issued(Oldest, a, v)
          /\ read' = [read EXCEPT ![a][v] = 0]
      BY <1>1 DEF GetChallengeAnew
    <2>2. Oldest \in Slots
      BY <1>0, OldestSlot
    <2>3. /\ challenges'[Oldest].adr = a /\ challenges'[Oldest].challenge = v
          /\ ~challenges'[Oldest].connected /\ challenges'[Oldest].ignoredCount = 0
          /\ \A j \in Slots : j # Oldest => challenges'[j] = challenges[j]
      <3>1. /\ Issued(Oldest, a, v)[Oldest]
                  = [adr |-> a, challenge |-> v, time |-> svsTime,
                     firstTime |-> svsTime, connected |-> FALSE, ignoredCount |-> 0]
            /\ \A j \in Slots : j # Oldest => Issued(Oldest, a, v)[j] = challenges[j]
        BY <1>0, <2>2, IssuedType
      <3> QED
        BY <2>1, <3>1
    <2>4. /\ read'[a][v] = 0
          /\ \A b \in NetAddress, w \in Value :
                b # a \/ w # v => read'[b][w] = read[b][w]
      BY <1>0, <2>1
    <2> SUFFICES ASSUME NEW i \in Slots
                 PROVE  CountsRight(challenges', read', i)
      OBVIOUS
    <2>5. CASE i = Oldest
      BY <2>1, <2>3, <2>4, <2>5 DEF CountsRight
    <2>6. CASE i # Oldest
      <3>1. challenges'[i] = challenges[i] /\ CountsRight(challenges, read, i)
        BY <1>c, <2>3, <2>6
      <3>2. ASSUME challenges[i].adr # NoAddress
            PROVE  /\ read'[challenges[i].adr][challenges[i].challenge]
                        = challenges[i].ignoredCount
                   /\ \A j \in Slots : (j # i /\ challenges'[j].adr = challenges[i].adr)
                         => challenges'[j].challenge # challenges[i].challenge
        <4>1. challenges[i].adr \in NetAddress /\ challenges[i].challenge \in Value
          BY <1>s, <3>2
        <4>2. challenges[i].adr # a \/ challenges[i].challenge # v
          BY <2>1
        <4>3. read'[challenges[i].adr][challenges[i].challenge] = challenges[i].ignoredCount
          BY <2>4, <3>1, <3>2, <4>1, <4>2 DEF CountsRight
        <4>4. ASSUME NEW j \in Slots, j # i, challenges'[j].adr = challenges[i].adr
              PROVE  challenges'[j].challenge # challenges[i].challenge
          <5>1. CASE j = Oldest
            BY <2>3, <4>2, <4>4, <5>1
          <5>2. CASE j # Oldest
            BY <2>3, <3>1, <3>2, <4>4, <5>2 DEF CountsRight
          <5> QED
            BY <5>1, <5>2
        <4> QED
          BY <4>3, <4>4
      <3> QED
        BY <3>1, <3>2 DEF CountsRight
    <2> QED
      BY <2>5, <2>6
  <1>2. ASSUME NEW a \in NetAddress, NEW v \in Value, ConnectIgnored(a, v)
        PROVE  \A i \in Slots : CountsRight(challenges', read', i)
    <2> DEFINE k == First(Unread(a, v))
    <2>1. /\ Unread(a, v) # {}
          /\ challenges' = [challenges EXCEPT ![k].ignoredCount = @ + 1]
          /\ read' = [read EXCEPT ![a][v] = @ + 1]
      BY <1>2 DEF ConnectIgnored
    <2>2. k \in Slots /\ challenges[k].adr = a /\ challenges[k].challenge = v
      <3>1. Unread(a, v) \in SUBSET Slots
        BY DEF Unread, Presented
      <3>2. k \in Unread(a, v)
        BY <2>1, <3>1, FirstIsIn
      <3> QED
        BY <3>2 DEF Unread, Presented
    <2> HIDE DEF k
    <2>3. \A j \in Slots : /\ challenges'[j].adr = challenges[j].adr
                           /\ challenges'[j].challenge = challenges[j].challenge
                           /\ challenges'[j].connected = challenges[j].connected
                           /\ challenges'[j].ignoredCount = challenges[j].ignoredCount
                                                              + (IF j = k THEN 1 ELSE 0)
      BY <1>0, <2>1, CountedType, Zenon
    <2>4. /\ read'[a][v] = read[a][v] + 1
          /\ \A b \in NetAddress, w \in Value :
                b # a \/ w # v => read'[b][w] = read[b][w]
      BY <1>0, <2>1
    <2>5. a # NoAddress
      BY ChallengesAssumption
    <2> SUFFICES ASSUME NEW i \in Slots
                 PROVE  CountsRight(challenges', read', i)
      OBVIOUS
    <2>6. CountsRight(challenges, read, i) /\ CountsRight(challenges, read, k)
      BY <1>c, <2>2
    <2>7. challenges'[i].adr # NoAddress =>
            \A j \in Slots : (j # i /\ challenges'[j].adr = challenges'[i].adr)
                 => challenges'[j].challenge # challenges'[i].challenge
      BY <2>3, <2>6 DEF CountsRight
    <2>8. challenges'[i].connected => /\ challenges'[i].adr # NoAddress
                                      /\ challenges'[i].ignoredCount >= MessageChallenges
      BY <1>0, <1>s, <2>3, <2>6 DEF CountsRight
    <2>9. ASSUME challenges[i].adr # NoAddress
          PROVE  read'[challenges[i].adr][challenges[i].challenge]
                    = challenges'[i].ignoredCount
      <3>1. CASE i = k
        <4>1. read[a][v] = challenges[k].ignoredCount
          BY <2>2, <2>5, <2>6 DEF CountsRight
        <4> QED
          BY <2>2, <2>3, <2>4, <3>1, <4>1
      <3>2. CASE i # k
        <4>1. challenges[i].adr # a \/ challenges[i].challenge # v
          BY <2>2, <2>5, <2>6, <3>2 DEF CountsRight
        <4>2. challenges[i].adr \in NetAddress /\ challenges[i].challenge \in Value
          BY <1>s, <2>9
        <4>3. read[challenges[i].adr][challenges[i].challenge] = challenges[i].ignoredCount
          BY <2>6, <2>9 DEF CountsRight
        <4>4. challenges'[i].ignoredCount = challenges[i].ignoredCount
          BY <1>s, <2>3, <3>2
        <4> QED
          BY <2>4, <4>1, <4>2, <4>3, <4>4
      <3> QED
        BY <3>1, <3>2
    <2> QED
      BY <2>3, <2>7, <2>8, <2>9 DEF CountsRight
  <1>3. ASSUME NEW k, NEW b \in BOOLEAN, read' = read,
               challenges' = [challenges EXCEPT ![k].connected = b],
               b => /\ challenges[k].adr # NoAddress
                    /\ challenges[k].ignoredCount >= MessageChallenges
        PROVE  \A i \in Slots : CountsRight(challenges', read', i)
    <2>0. challenges' = [challenges EXCEPT ![k].connected = b] /\ b \in BOOLEAN
      BY <1>3
    <2>1. \A j \in Slots : /\ challenges'[j].adr = challenges[j].adr
                           /\ challenges'[j].challenge = challenges[j].challenge
                           /\ challenges'[j].ignoredCount = challenges[j].ignoredCount
                           /\ challenges'[j].connected
                                = IF j = k THEN b ELSE challenges[j].connected
      BY <1>0, <2>0, ConnectedType
    <2> QED
      BY <1>c, <1>3, <2>1 DEF CountsRight
  <1>4. ASSUME NEW a \in NetAddress, NEW v \in Value, DirectConnect(a, v)
        PROVE  \A i \in Slots : CountsRight(challenges', read', i)
    <2> DEFINE k == First(Presented(a, v))
    <2>1. /\ Presented(a, v) # {} /\ Unread(a, v) = {}
          /\ challenges' = [challenges EXCEPT ![k].connected = TRUE]
          /\ read' = read
      BY <1>4 DEF DirectConnect
    <2>2. /\ k \in Slots /\ challenges[k].adr = a
          /\ challenges[k].ignoredCount >= MessageChallenges
      <3>1. Presented(a, v) \in SUBSET Slots
        BY DEF Presented
      <3>2. k \in Presented(a, v)
        BY <2>1, <3>1, FirstIsIn
      <3>3. k \in Slots /\ challenges[k].adr = a
        BY <3>2 DEF Presented
      <3>4. ~(challenges[k].ignoredCount < MessageChallenges)
        BY <2>1, <3>2 DEF Unread
      <3> HIDE DEF k
      <3> QED
        BY <1>0, <1>s, <3>3, <3>4
    <2>3. a # NoAddress
      BY ChallengesAssumption
    <2> HIDE DEF k
    <2> QED
      BY <1>3, <2>1, <2>2, <2>3
  <1>5. ASSUME NEW k \in Slots, Disconnect(k)
        PROVE  \A i \in Slots : CountsRight(challenges', read', i)
    <2>1. read' = read /\ challenges' = [challenges EXCEPT ![k].connected = FALSE]
      BY <1>5 DEF Disconnect, observed
    <2> QED
      BY <1>3, <2>1
  <1>6. ASSUME challenges' = challenges, read' = read
        PROVE  \A i \in Slots : CountsRight(challenges', read', i)
    BY <1>c, <1>6
  <1>7. ASSUME NEW v \in Value, NEW verdict, AuthorizeIpPacket(v, verdict)
        PROVE  \A i \in Slots : CountsRight(challenges', read', i)
    <2> DEFINE k == First({j \in Slots : challenges[j].challenge = v})
    <2>1. /\ read' = read
          /\ \/ challenges' = challenges
             \/ challenges' = [challenges EXCEPT ![k] = Cleared(@.ignoredCount)]
      BY <1>7 DEF AuthorizeIpPacket
    <2> HIDE DEF k
    <2>2. CASE challenges' = [challenges EXCEPT ![k] = Cleared(@.ignoredCount)]
      <3>1. /\ \A j \in Slots : j # k => challenges'[j] = challenges[j]
            /\ k \in Slots => challenges'[k].adr = NoAddress /\ ~challenges'[k].connected
        BY <1>0, <2>2, ClearedType, Zenon
      <3> SUFFICES ASSUME NEW i \in Slots
                   PROVE  CountsRight(challenges', read', i)
        OBVIOUS
      <3>2. CASE i = k
        BY <3>1, <3>2 DEF CountsRight
      <3>3. CASE i # k
        <4>1. challenges'[i] = challenges[i] /\ CountsRight(challenges, read, i)
          BY <1>c, <3>1, <3>3
        <4>2. \A j \in Slots : challenges'[j] = challenges[j] \/ challenges'[j].adr = NoAddress
          BY <3>1
        <4> QED
          BY <2>1, <4>1, <4>2 DEF CountsRight
      <3> QED
        BY <3>2, <3>3
    <2> QED
      BY <1>6, <2>1, <2>2
  <1>8. ASSUME \/ \E a \in NetAddress : GetChallengeAgain(a)
               \/ OtherReply \/ PacketRefused \/ Millisecond \/ UNCHANGED cvars
        PROVE  \A i \in Slots : CountsRight(challenges', read', i)
    BY <1>6, <1>8
       DEF GetChallengeAgain, OtherReply, PacketRefused, Millisecond, cvars, observed
  <1> QED
    BY <1>1, <1>2, <1>4, <1>5, <1>7, <1>8 DEF CNext

(* Whoever is in the game has read the message. *)
THEOREM NobodyEntersUnread == CSpec => []ReadBeforeEntry
  <1>1. CInit => Counted
    BY DEF CInit, Cleared, Counted
  <1>2. Counted => ReadBeforeEntry
    BY DEF Counted, ReadBeforeEntry
  <1> QED
    BY <1>1, <1>2, InitTable, TableStep, CountedStep, PTL DEF CSpec
=============================================================================
