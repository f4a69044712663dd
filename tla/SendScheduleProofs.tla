------------------------- MODULE SendScheduleProofs -------------------------
(***************************************************************************)
(* Theorems about SendSchedule, for all rates, sizes and lengths of a frame. *)
(***************************************************************************)
EXTENDS SendSchedule, TLAPS

(* The constants, as the proofs use them. *)
LEMMA Constants ==
    /\ Second \in Nat \ {0} /\ Header \in Nat /\ Header * Second \in Nat
    /\ LowestRate \in Nat \ {0}
    /\ MaxMsec \in Nat /\ RateSize \in Nat
    /\ FragmentSize \in Nat \ {0} /\ FragmentSize <= RateSize
    /\ \A r \in Rates : r \in Nat /\ LowestRate <= r
    /\ DownloadRate \in Nat /\ LowestRate <= DownloadRate
    /\ MinMaxRate \in Nat /\ LowestRate <= MinMaxRate
    /\ \A s \in Sizes : s \in Nat
    /\ \A m \in AllMsecs : m \in 0 .. MaxMsec
    /\ \A m \in MaxRates : m \in Int
    /\ \A m \in FrameMsecs : m \in Nat \ {0}
  <1>1. \A a, b \in Nat : a * b \in Nat
    BY SMT
  <1>2. Header * Second \in Nat
    BY <1>1, ScheduleAssumption
  <1> QED
    BY <1>2, ScheduleAssumption DEF AllRates

(* What \div returns. *)
LEMMA Division ==
    ASSUME NEW a \in Nat, NEW r \in Nat \ {0}
    PROVE  /\ a \div r \in Nat
           /\ r * (a \div r) <= a
           /\ a < r * (a \div r) + r
  BY SMT

(* More is not less after a division by less. *)
LEMMA DivisionMonotone ==
    ASSUME NEW a \in Nat, NEW b \in Nat, a <= b,
           NEW r \in Nat \ {0}, NEW s \in Nat \ {0}, s <= r
    PROVE  a \div r <= b \div s
  <1> DEFINE p == a \div r
             q == b \div s
  <1>1. p \in Nat /\ q \in Nat /\ r * p <= a /\ b < s * q + s
    BY Division
  <1>2. s * p <= r * p
    <2>1. \A x, y, z \in Nat : x <= y => x * z <= y * z
      BY SMT
    <2> QED
      BY <1>1, <2>1
  <1>3. s * p < s * (q + 1)
    <2>1. s * (q + 1) = s * q + s
      BY <1>1, SMT
    <2>2. s * p \in Int /\ r * p \in Int /\ s * q \in Int
      BY <1>1, SMT
    <2> QED
      BY <1>1, <1>2, <2>1, <2>2, SMT
  <1>4. p < q + 1
    <2>1. \A x, y \in Nat : x >= y => s * x >= s * y
      BY SMT
    <2>2. SUFFICES ASSUME p >= q + 1 PROVE FALSE
      BY <1>1, SMT
    <2>3. s * p >= s * (q + 1)
      BY <1>1, <2>1, <2>2, SMT
    <2>4. s * p \in Int /\ s * (q + 1) \in Int
      BY <1>1, SMT
    <2> QED
      BY <1>3, <2>3, <2>4, SMT
  <1> QED
    BY <1>1, <1>4, SMT

Settings == fast \in BOOLEAN /\ maxRate \in MaxRates \cup {MinMaxRate}

(* Whatever sv_maxRate is, the rate in force is not too low for the        *)
(* longest wait.                                                           *)
LEMMA RateRange ==
    ASSUME NEW c \in Client, Settings
    PROVE  Rate(c) \in Nat \ {0} /\ LowestRate <= Rate(c)
  <1>1. c.rate \in Nat /\ LowestRate <= c.rate
    BY Constants DEF Client
  <1>2. maxRate \in Int
    BY Constants DEF Settings
  <1> QED
    BY <1>1, <1>2, Constants, SMT DEF Rate, Raised, Least

LEMMA RaisedSetting ==
    ASSUME Settings
    PROVE  Raised \in MaxRates \cup {MinMaxRate}
  BY DEF Settings, Raised

----------------------------------------------------------------------------
(* The pause after a packet pays for it, and ends. *)
LEMMA RateMsecPays ==
    ASSUME NEW c \in Client, Settings, NEW size \in Nat
    PROVE  /\ RateMsec(c, size) \in Nat
           /\ Charge(c, size) \in Nat
           /\ Charge(c, size) <= FragmentSize * Second
           /\ Charge(c, size) <= Rate(c) * RateMsec(c, size)
           /\ RateMsec(c, size) <= Longest
           /\ Longest \in Nat /\ MaxMsec <= Longest /\ Second <= Longest
  <1> DEFINE sent == Least(size, FragmentSize)
             charged == Least(size, RateSize)
             r == Rate(c)
             q == RateMsec(c, size)
             a == (charged + Header) * Second
             b == (RateSize + Header) * Second
             lost == Excess(c)
  <1>1. /\ sent \in Nat /\ charged \in Nat
        /\ sent <= charged /\ sent <= FragmentSize /\ charged <= RateSize
    BY Constants, SMT DEF Least
  <1>2. /\ r \in Nat \ {0} /\ LowestRate <= r
        /\ lost \in Nat /\ r <= Header * Second + lost
    <2>1. r \in Nat \ {0} /\ LowestRate <= r
      BY RateRange
    <2>2. lost = Most(r - Header * Second, 0)
      BY DEF Excess
    <2> HIDE DEF r, lost
    <2> QED
      BY <2>1, <2>2, Constants, SMT DEF Most
  <1>3. \A x, y \in Nat : /\ x * Second \in Nat
                          /\ (x + y) * Second = x * Second + y * Second
                          /\ x <= y => x * Second <= y * Second
    BY Constants, SMT
  <1>4. /\ a \in Nat /\ b \in Nat /\ a <= b
        /\ a = charged * Second + Header * Second
        /\ charged * Second \in Nat /\ sent * Second \in Nat
        /\ sent * Second <= charged * Second
        /\ sent * Second <= FragmentSize * Second
    <2>1. charged + Header \in Nat /\ RateSize + Header \in Nat
          /\ charged + Header <= RateSize + Header
      BY <1>1, Constants, SMT
    <2> HIDE DEF sent, charged
    <2> QED
      BY <1>1, <1>3, <2>1, Constants
  <1>5. q = a \div r
    BY DEF RateMsec
  <1>6. q \in Nat /\ r * q \in Int /\ a < r * q + r
    <2> HIDE DEF a, r, q
    <2>1. r \in Nat \ {0}
      BY <1>2
    <2>2. q \in Nat /\ a < r * q + r
      BY <1>4, <1>5, <2>1, Division
    <2>3. r * q \in Int
      BY <2>1, <2>2, SMT
    <2> QED
      BY <2>2, <2>3
  <1>7. sent * Second - lost <= r * q /\ 0 <= r * q
    <2>1. \A x, y \in Nat : 0 <= x * y
      BY SMT
    <2> HIDE DEF sent, charged, a, r, q, lost
    <2> QED
      BY <1>2, <1>4, <1>6, <2>1, Constants, SMT
  <1>8. q <= b \div LowestRate /\ b \div LowestRate \in Nat
    <2> HIDE DEF a, b, r, q
    <2> QED
      BY <1>2, <1>4, <1>5, DivisionMonotone, Division, Constants
  <1>9. /\ b \div LowestRate <= Longest
        /\ Longest \in Nat /\ MaxMsec <= Longest /\ Second <= Longest
    BY <1>8, Constants, SMT DEF Longest, Most
  <1> QED
    <2>1. Charge(c, size) = Most(sent * Second - lost, 0)
      BY DEF Charge
    <2> HIDE DEF sent, charged, a, b, r, q, lost
    <2>2. q <= Longest
      BY <1>6, <1>8, <1>9, SMT
    <2>3. /\ Charge(c, size) \in Nat
          /\ Charge(c, size) <= sent * Second
          /\ Charge(c, size) <= r * q
      BY <1>2, <1>4, <1>6, <1>7, <2>1, SMT DEF Most
    <2>4. sent * Second \in Int /\ FragmentSize * Second \in Int
      BY <1>4, Constants, SMT
    <2>5. Charge(c, size) <= FragmentSize * Second
      BY <1>4, <2>3, <2>4, SMT
    <2> QED
      BY <1>6, <1>9, <2>2, <2>3, <2>5 DEF r, q

(* What time pays off. *)
LEMMA TimePays ==
    ASSUME NEW d \in Nat, NEW r \in Nat \ {0}, NEW delay \in Nat,
           NEW msec \in Nat \ {0}, d <= r * delay
    PROVE  /\ Most(d - r * msec, 0) \in Nat
           /\ Most(d - r * msec, 0) <= d
           /\ delay <= msec => Most(d - r * msec, 0) = 0
           /\ delay > msec => Most(d - r * msec, 0) <= r * (delay - msec)
  <1>1. /\ r * msec \in Nat /\ r * delay \in Nat
        /\ delay <= msec => r * delay <= r * msec
        /\ delay > msec => r * (delay - msec) = r * delay - r * msec
        /\ delay > msec => r * (delay - msec) >= 0
    BY SMT
  <1> QED
    BY <1>1, SMT DEF Most

(* A packet changes nothing of a client but its channel. *)
OnChannel(c, more, left, cut) ==
    [c EXCEPT !.unsentFragments = more, !.left = left, !.cut = cut]

LEMMA OnChannelClient ==
    ASSUME NEW c \in Client, NEW more \in BOOLEAN, NEW left \in Nat, NEW cut \in BOOLEAN
    PROVE  /\ OnChannel(c, more, left, cut) \in Client
           /\ OnChannel(c, more, left, cut).rate = c.rate
           /\ OnChannel(c, more, left, cut).snapshotMsec = c.snapshotMsec
           /\ OnChannel(c, more, left, cut).state = c.state
           /\ OnChannel(c, more, left, cut).downloadName = c.downloadName
           /\ OnChannel(c, more, left, cut).cut = cut
  <1> DEFINE t == OnChannel(c, more, left, cut)
  <1>1. t \in Client
    BY Zenon DEF Client, OnChannel
  <1>2. t.rate = c.rate /\ t.snapshotMsec = c.snapshotMsec /\ t.state = c.state
    BY SMT DEF Client, OnChannel
  <1>3. t.downloadName = c.downloadName
    BY SMT DEF Client, OnChannel
  <1>4. t.cut = cut
    BY SMT DEF Client, OnChannel
  <1> QED
    BY <1>1, <1>2, <1>3, <1>4, Zenon

LEMMA TransmittedClient ==
    ASSUME NEW c \in Client, NEW size \in Nat
    PROVE  /\ Transmitted(c, size) \in Client
           /\ Transmitted(c, size).rate = c.rate
           /\ Transmitted(c, size).snapshotMsec = c.snapshotMsec
           /\ Transmitted(c, size).state = c.state
           /\ Transmitted(c, size).downloadName = c.downloadName
           /\ Transmitted(c, size).cut = (c.cut \/ c.unsentFragments)
  <1> DEFINE cut == c.cut \/ c.unsentFragments
  <1>1. cut \in BOOLEAN
    BY Zenon
  <1>2. \E more \in BOOLEAN, left \in Nat : Transmitted(c, size) = OnChannel(c, more, left, cut)
    <2>1. CASE size < FragmentSize
      <3>1. Transmitted(c, size) = OnChannel(c, FALSE, 0, cut)
        BY <2>1, Zenon DEF Transmitted, OnChannel
      <3>2. 0 \in Nat
        BY SMT
      <3> QED
        BY <3>1, <3>2, Zenon
    <2>2. CASE ~(size < FragmentSize)
      <3>1. size - FragmentSize \in Nat
        BY <2>2, Constants, SMT
      <3>2. Transmitted(c, size) = OnChannel(c, TRUE, size - FragmentSize, cut)
        BY <2>2, Zenon DEF Transmitted, OnChannel
      <3> QED
        BY <3>1, <3>2, Zenon
    <2> QED
      BY <2>1, <2>2
  <1>3. PICK more \in BOOLEAN, left \in Nat : Transmitted(c, size) = OnChannel(c, more, left, cut)
    BY <1>2
  <1> HIDE DEF cut
  <1>4. /\ OnChannel(c, more, left, cut) \in Client
        /\ OnChannel(c, more, left, cut).rate = c.rate
        /\ OnChannel(c, more, left, cut).snapshotMsec = c.snapshotMsec
        /\ OnChannel(c, more, left, cut).state = c.state
        /\ OnChannel(c, more, left, cut).downloadName = c.downloadName
        /\ OnChannel(c, more, left, cut).cut = cut
    BY <1>1, OnChannelClient
  <1> QED
    BY <1>3, <1>4, Zenon DEF cut

LEMMA FlushedClient ==
    ASSUME NEW c \in Client
    PROVE  /\ Flushed(c) \in Client /\ ~Flushed(c).unsentFragments
           /\ Flushed(c).rate = c.rate /\ Flushed(c).snapshotMsec = c.snapshotMsec
           /\ Flushed(c).state = c.state
           /\ Flushed(c).downloadName = c.downloadName /\ Flushed(c).cut = c.cut
  <1>1. Flushed(c) \in Client
    <2>1. 0 \in Nat
      BY SMT
    <2> QED
      BY <2>1, Zenon DEF Flushed, Client
  <1>2. /\ Flushed(c).rate = c.rate /\ Flushed(c).snapshotMsec = c.snapshotMsec
        /\ Flushed(c).state = c.state
    BY SMT DEF Flushed, Client
  <1>3. ~Flushed(c).unsentFragments
    BY SMT DEF Flushed, Client
  <1>4. Flushed(c).downloadName = c.downloadName
    BY SMT DEF Flushed, Client
  <1>5. Flushed(c).cut = c.cut
    BY SMT DEF Flushed, Client
  <1> QED
    BY <1>1, <1>2, <1>3, <1>4, <1>5, Zenon

LEMMA DroppedClient ==
    ASSUME NEW c \in Client
    PROVE  /\ Dropped(c) \in Client
           /\ Dropped(c).rate = c.rate /\ Dropped(c).snapshotMsec = c.snapshotMsec
           /\ Dropped(c).cut = c.cut /\ Dropped(c).unsentFragments = c.unsentFragments
           /\ Dropped(c).state = "zombie" /\ Dropped(c).lan = c.lan
           /\ ~Dropped(c).downloadName /\ ~Dropped(c).download
  <1>1. Dropped(c) \in Client
    BY Zenon DEF Dropped, Client
  <1>2. /\ Dropped(c).rate = c.rate /\ Dropped(c).snapshotMsec = c.snapshotMsec
        /\ Dropped(c).state = "zombie"
    BY SMT DEF Dropped, Client
  <1>3. Dropped(c).cut = c.cut
    BY SMT DEF Dropped, Client
  <1>4. Dropped(c).unsentFragments = c.unsentFragments
    BY SMT DEF Dropped, Client
  <1>5. Dropped(c).lan = c.lan
    BY SMT DEF Dropped, Client
  <1>6. ~Dropped(c).downloadName /\ ~Dropped(c).download
    BY SMT DEF Dropped, Client
  <1> QED
    BY <1>1, <1>2, <1>3, <1>4, <1>5, <1>6, Zenon

(* A message that was sent: what the schedule does with a client. *)
LEMMA SentClient ==
    ASSUME NEW c \in Client, Settings, NEW size \in Nat
    PROVE  /\ Sent(c, size) \in Client
           /\ Rate(Sent(c, size)) = Rate(c)
           /\ Sent(c, size).snapshotMsec = c.snapshotMsec
           /\ Sent(c, size).delay <= Longest
           /\ Sent(c, size).cut = (c.cut \/ c.unsentFragments)
           /\ ~c.downloadName => ~Sent(c, size).downloadName
           /\ c.state = "zombie" => Sent(c, size).state = "zombie"
           /\ Sent(c, size).state = "zombie" /\ Sent(c, size).downloadName
                 => c.state = "zombie" /\ c.downloadName
           /\ ~Unrated(c) => /\ Sent(c, size).delay >= c.snapshotMsec
                             /\ Charge(c, size) <= Rate(c) * Sent(c, size).delay
  <1> DEFINE d == IF c.dropReason THEN Dropped(c) ELSE c
             t == Transmitted(d, size)
             s == Sent(c, size)
             q == RateMsec(d, size)
  <1>1. /\ d \in Client /\ d.rate = c.rate /\ d.snapshotMsec = c.snapshotMsec
        /\ d.cut = c.cut /\ d.unsentFragments = c.unsentFragments
        /\ ~c.downloadName => ~d.downloadName
        /\ c.state = "zombie" => d.state = "zombie"
        /\ d.state = "zombie" /\ d.downloadName => c.state = "zombie" /\ c.downloadName
        /\ ~Unrated(c) => ~Unrated(d)
    <2>1. CASE c.dropReason
      <3>1. Dropped(c) \in Client
        BY DroppedClient
      <3>2. /\ Dropped(c).rate = c.rate /\ Dropped(c).snapshotMsec = c.snapshotMsec
            /\ Dropped(c).cut = c.cut /\ Dropped(c).unsentFragments = c.unsentFragments
            /\ Dropped(c).state = "zombie" /\ Dropped(c).lan = c.lan
            /\ ~Dropped(c).downloadName
        BY DroppedClient
      <3>3. ~Unrated(c) => ~Unrated(Dropped(c))
        BY <3>2, DroppedClient, Zenon DEF Unrated
      <3> QED
        BY <2>1, <3>1, <3>2, <3>3, Zenon
    <2>2. CASE ~c.dropReason
      BY <2>2, Zenon
    <2> QED
      BY <2>1, <2>2
  <1>2. /\ q \in Nat /\ q <= Longest /\ Charge(d, size) <= Rate(d) * q
        /\ Charge(d, size) \in Nat
        /\ Longest \in Nat /\ MaxMsec <= Longest /\ Second <= Longest
    <2> HIDE DEF d
    <2> QED
      BY <1>1, RateMsecPays
  <1>3. Pause(d, size) \in Nat /\ Pause(d, size) <= Longest
        /\ Pause(d, size) >= q /\ Pause(d, size) >= d.snapshotMsec
    <2> HIDE DEF d
    <2>1. d.snapshotMsec \in 0 .. MaxMsec
      BY <1>1, Constants DEF Client
    <2> QED
      BY <1>2, <2>1, Constants, SMT DEF Pause, Most
  <1>4. /\ t \in Client /\ t.rate = d.rate /\ t.snapshotMsec = d.snapshotMsec
        /\ t.state = d.state /\ t.downloadName = d.downloadName
        /\ t.cut = (d.cut \/ d.unsentFragments)
    <2> HIDE DEF d
    <2> QED
      BY <1>1, TransmittedClient
  <1>5. s = [t EXCEPT !.delay = IF Unrated(d) THEN 0 ELSE Pause(d, size)]
    BY DEF Sent
  <1>6. /\ s \in Client /\ s.rate = c.rate /\ s.snapshotMsec = c.snapshotMsec
        /\ s.state = d.state /\ s.downloadName = d.downloadName
        /\ s.cut = (c.cut \/ c.unsentFragments)
        /\ s.delay = IF Unrated(d) THEN 0 ELSE Pause(d, size)
    <2> HIDE DEF d, t, s
    <2> QED
      BY <1>1, <1>3, <1>4, <1>5, SMT DEF Client
  <1>7. Rate(s) = Rate(c) /\ Rate(d) = Rate(c) /\ Charge(d, size) = Charge(c, size)
    <2> HIDE DEF d, s
    <2>1. Rate(s) = Rate(c) /\ Rate(d) = Rate(c)
      BY <1>1, <1>6 DEF Rate
    <2> QED
      BY <2>1 DEF Charge, Excess
  <1>8. ~Unrated(c) => Charge(c, size) <= Rate(c) * Pause(d, size)
    <2> HIDE DEF d, q
    <2>1. Rate(d) \in Nat \ {0}
      BY <1>1, RateRange
    <2>2. \A r, x, y \in Nat : x <= y => r * x <= r * y
      BY SMT
    <2>3. Rate(d) * q <= Rate(d) * Pause(d, size)
      BY <1>2, <1>3, <2>1, <2>2
    <2>4. Rate(d) * q \in Nat /\ Rate(d) * Pause(d, size) \in Nat
      BY <1>2, <1>3, <2>1, SMT
    <2> QED
      BY <1>2, <1>7, <2>3, <2>4, SMT
  <1> QED
    <2>1. /\ s.delay <= Longest
          /\ ~Unrated(c) => s.delay >= c.snapshotMsec
      <3> HIDE DEF d, s
      <3> QED
        BY <1>1, <1>2, <1>3, <1>6, SMT
    <2>2. ~Unrated(c) => s.delay = Pause(d, size)
      <3> HIDE DEF d, s
      <3> QED
        BY <1>1, <1>6, Zenon
    <2> HIDE DEF d, s
    <2>3. ~Unrated(c) => Charge(c, size) <= Rate(c) * s.delay
      BY <1>8, <2>2, Zenon
    <2> QED
      BY <1>1, <1>6, <1>7, <2>1, <2>3, Zenon DEF s

(* A snapshot with a part of a download in it. *)
LEMMA WrittenToClient ==
    ASSUME NEW c \in Client, NEW d \in WrittenTo(c)
    PROVE  /\ d \in Client
           /\ d.cut = c.cut /\ d.unsentFragments = c.unsentFragments
           /\ ~c.downloadName => d = c
           /\ c.downloadName => d.state = "connected"
  <1>1. CASE ~c.downloadName
    BY <1>1 DEF WrittenTo
  <1>2. CASE c.downloadName
    <2> DEFINE e == [c EXCEPT !.state = "connected", !.rate = DownloadRate,
                              !.snapshotMsec = DownloadMsec]
    <2>1. e \in Client
      BY Zenon DEF Client, AllMsecs
    <2>2. e.state = "connected"
      BY SMT DEF Client
    <2>3. e.cut = c.cut
      BY SMT DEF Client
    <2>4. e.unsentFragments = c.unsentFragments
      BY SMT DEF Client
    <2>5. \/ d = e
          \/ d = [e EXCEPT !.download = TRUE]
          \/ d = [e EXCEPT !.downloadName = FALSE]
          \/ d = [e EXCEPT !.download = TRUE, !.downloadName = FALSE]
      BY <1>2, Zenon DEF WrittenTo
    <2> HIDE DEF e
    <2>6. d \in Client
      BY <2>1, <2>5, Zenon DEF Client
    <2>7. /\ d.state = e.state /\ d.cut = e.cut
          /\ d.unsentFragments = e.unsentFragments
      <3>1. CASE d = e
        BY <3>1
      <3>2. CASE d = [e EXCEPT !.download = TRUE]
        <4>1. d.state = e.state
          BY <2>1, <3>2, SMT DEF Client
        <4>2. d.cut = e.cut
          BY <2>1, <3>2, SMT DEF Client
        <4>3. d.unsentFragments = e.unsentFragments
          BY <2>1, <3>2, SMT DEF Client
        <4> QED
          BY <4>1, <4>2, <4>3
      <3>3. CASE d = [e EXCEPT !.downloadName = FALSE]
        <4>1. d.state = e.state
          BY <2>1, <3>3, SMT DEF Client
        <4>2. d.cut = e.cut
          BY <2>1, <3>3, SMT DEF Client
        <4>3. d.unsentFragments = e.unsentFragments
          BY <2>1, <3>3, SMT DEF Client
        <4> QED
          BY <4>1, <4>2, <4>3
      <3>4. CASE d = [e EXCEPT !.download = TRUE, !.downloadName = FALSE]
        <4>1. d.state = e.state
          BY <2>1, <3>4, SMT DEF Client
        <4>2. d.cut = e.cut
          BY <2>1, <3>4, SMT DEF Client
        <4>3. d.unsentFragments = e.unsentFragments
          BY <2>1, <3>4, SMT DEF Client
        <4> QED
          BY <4>1, <4>2, <4>3
      <3> QED
        BY <2>5, <3>1, <3>2, <3>3, <3>4
    <2> QED
      BY <1>2, <2>2, <2>3, <2>4, <2>6, <2>7, Zenon
  <1> QED
    BY <1>1, <1>2

----------------------------------------------------------------------------
LEMMA InitSchedule == Init => ScheduleIInv
  <1> SUFFICES ASSUME Init PROVE ScheduleIInv
    OBVIOUS
  <1>1. PICK lan \in BOOLEAN, rate \in Rates, msec \in Msecs :
           cl = Connected(lan, rate, msec)
    BY DEF Init
  <1>2. cl \in Client /\ cl.delay = 0 /\ cl.cut = FALSE /\ cl.downloadName = FALSE
        /\ cl.snapshotMsec \in 0 .. MaxMsec
    BY <1>1, Constants, SMT DEF Connected, Client, AllMsecs
  <1>3. TypeOK
    BY <1>2, Constants, SMT DEF Init, TypeOK
  <1>4. Rate(cl) \in Nat \ {0} /\ Longest \in Nat /\ FragmentSize * Second \in Nat
    <2>1. Settings
      BY <1>3 DEF TypeOK, Settings
    <2>2. \A a, b \in Nat : a * b \in Nat
      BY SMT
    <2> QED
      BY <1>2, <2>1, <2>2, RateRange, RateMsecPays, Constants
  <1> QED
    BY <1>2, <1>3, <1>4, Constants, SMT
    DEF Init, ScheduleIInv, DelayPays, RateKept, DelayPaces, DelayEnds, ZombieIdle, NotCutOff

LEMMA NextRateRange ==
    ASSUME Settings', cl' \in Client
    PROVE  Rate(cl)' \in Nat \ {0}
  <1>1. cl'.rate \in Nat /\ LowestRate <= cl'.rate
    BY Constants DEF Client
  <1>2. maxRate' \in Int
    BY Constants DEF Settings
  <1> QED
    BY <1>1, <1>2, Constants, SMT DEF Rate, Raised, Least

(* A message sent outside the schedule leaves nothing to pay. *)
LEMMA UnscheduledKeeps ==
    ASSUME ScheduleIInv, Settings', cl' \in Client,
           SeenUnscheduled, silent' \in Nat, silent' + cl'.delay <= Longest,
           ZombieIdle', NotCutOff'
    PROVE  ScheduleIInv'
  <1>1. debt' = 0 /\ since' = MaxMsec
    BY DEF SeenUnscheduled
  <1>2. Rate(cl)' \in Nat \ {0} /\ cl'.delay \in Nat /\ cl'.snapshotMsec \in 0 .. MaxMsec
    <2>1. Rate(cl)' \in Nat \ {0}
      BY NextRateRange
    <2> QED
      BY <2>1, Constants DEF Client
  <1>3. FragmentSize * Second \in Nat
    <2>1. \A a, b \in Nat : a * b \in Nat
      BY SMT
    <2> QED
      BY <2>1, Constants
  <1>4. TypeOK'
    BY <1>1, Constants, SMT DEF TypeOK, Settings
  <1>5. 0 <= Rate(cl)' * cl'.delay
    <2>1. \A a, b \in Nat : 0 <= a * b
      BY SMT
    <2> QED
      BY <1>2, <2>1
  <1> QED
    BY <1>1, <1>2, <1>3, <1>4, <1>5, Constants, SMT
    DEF ScheduleIInv, DelayPays, RateKept, DelayPaces, DelayEnds

(* A snapshot or a fragment of the schedule: what was owed is paid by now. *)
LEMMA ScheduledKeeps ==
    ASSUME ScheduleIInv, Settings', cl' \in Client,
           NEW msec \in FrameMsecs, Due(msec),
           NEW owed \in Nat, owed <= FragmentSize * Second,
           debt' = Most(debt - Rate(cl) * msec, 0) + owed,
           since' \in 0 .. MaxMsec, since' + cl'.delay >= cl'.snapshotMsec,
           silent' = 0, cl'.delay <= Longest,
           owed <= Rate(cl)' * cl'.delay,
           ZombieIdle', NotCutOff'
    PROVE  ScheduleIInv'
  <1>1. cl \in Client /\ Settings /\ debt \in Nat /\ debt <= Rate(cl) * cl.delay
    BY DEF ScheduleIInv, TypeOK, Settings, DelayPays
  <1>2. owed \in Nat /\ owed <= FragmentSize * Second
    OBVIOUS
  <1>3. Rate(cl) \in Nat \ {0} /\ cl.delay \in Nat
    BY <1>1, RateRange DEF Client
  <1>4. Most(debt - Rate(cl) * msec, 0) = 0
    <2>1. msec \in Nat \ {0} /\ cl.delay <= msec
      BY Constants DEF Due
    <2> QED
      BY <1>1, <1>3, <2>1, TimePays
  <1>5. debt' = owed
    BY <1>2, <1>4, SMT
  <1>6. TypeOK'
    BY <1>2, <1>5, SMT DEF TypeOK, Settings
  <1>7. DelayPays' /\ RateKept' /\ DelayPaces'
    BY <1>2, <1>5, Zenon DEF DelayPays, RateKept, DelayPaces
  <1>8. DelayEnds'
    <2>1. cl'.delay \in Nat
      BY DEF Client
    <2> QED
      BY <2>1, <1>1, RateMsecPays, SMT DEF DelayEnds
  <1> QED
    BY <1>6, <1>7, <1>8 DEF ScheduleIInv

LEMMA WaitKeeps ==
    ASSUME ScheduleIInv, NEW msec \in FrameMsecs, FrameWaits(msec)
    PROVE  ScheduleIInv'
  <1>1. /\ cl \in Client /\ Settings /\ debt \in Nat /\ debt <= Rate(cl) * cl.delay
        /\ since \in 0 .. MaxMsec /\ silent \in Nat
        /\ cl.delay \in Nat /\ cl.snapshotMsec \in 0 .. MaxMsec
        /\ debt <= FragmentSize * Second
        /\ since + cl.delay >= cl.snapshotMsec
        /\ silent + cl.delay <= Longest
    BY Constants DEF ScheduleIInv, TypeOK, Settings, DelayPays, RateKept, DelayPaces,
                     DelayEnds, Client
  <1>2. /\ cl' = [cl EXCEPT !.delay = cl.delay - msec]
        /\ debt' = Most(debt - Rate(cl) * msec, 0)
        /\ since' = Least(since + msec, MaxMsec)
        /\ silent' = silent + msec
        /\ fast' = fast /\ maxRate' = maxRate
        /\ cl.delay > msec /\ msec \in Nat \ {0}
    BY <1>1, Constants, SMT DEF FrameWaits, SeenWait, cvars, Due
  <1>3. cl.delay - msec \in Nat
    BY <1>1, <1>2, SMT
  <1>4. /\ cl' \in Client /\ cl'.delay = cl.delay - msec
        /\ cl'.rate = cl.rate /\ cl'.snapshotMsec = cl.snapshotMsec
    BY <1>1, <1>2, <1>3, SMT DEF Client
  <1>5. Rate(cl)' = Rate(cl) /\ Rate(cl) \in Nat \ {0}
    BY <1>1, <1>2, <1>4, RateRange DEF Rate, Raised
  <1>6. debt' \in Nat /\ debt' <= debt /\ debt' <= Rate(cl) * (cl.delay - msec)
    BY <1>1, <1>2, <1>5, TimePays
  <1>7. ZombieIdle' /\ NotCutOff'
    <2>1. cl'.state = cl.state
      BY <1>1, <1>2, SMT DEF Client
    <2>2. cl'.cut = cl.cut
      BY <1>1, <1>2, SMT DEF Client
    <2>3. cl'.downloadName = cl.downloadName
      BY <1>1, <1>2, SMT DEF Client
    <2> QED
      BY <2>1, <2>2, <2>3, Zenon DEF ScheduleIInv, ZombieIdle, NotCutOff
  <1>8. RateKept'
    <2>1. \A a, b \in Nat : a * b \in Nat
      BY SMT
    <2>2. FragmentSize * Second \in Nat
      BY <2>1, Constants
    <2> QED
      BY <1>1, <1>6, <2>2, SMT DEF RateKept
  <1>9. since' \in 0 .. MaxMsec /\ silent' \in Nat
    BY <1>1, <1>2, Constants, SMT DEF Least
  <1>10. TypeOK'
    BY <1>1, <1>2, <1>4, <1>6, <1>9, Zenon DEF TypeOK, Settings
  <1>11. DelayPays'
    BY <1>4, <1>5, <1>6 DEF DelayPays
  <1>12. DelayPaces'
    BY <1>1, <1>2, <1>4, Constants, SMT DEF DelayPaces, Least
  <1>13. DelayEnds'
    <2>1. Longest \in Nat
      BY <1>1, RateMsecPays
    <2> QED
      BY <1>1, <1>2, <1>4, <2>1, SMT DEF DelayEnds
  <1> QED
    BY <1>7, <1>8, <1>10, <1>11, <1>12, <1>13 DEF ScheduleIInv

----------------------------------------------------------------------------
(* That sv_maxRate is raised changes no rate. *)
LEMMA RaisedRate ==
    ASSUME Settings, maxRate' \in {maxRate, Raised}, fast' = fast
    PROVE  /\ Settings'
           /\ Rate(cl)' = IF maxRate = 0 THEN cl'.rate ELSE Least(cl'.rate, Raised)
  <1>1. maxRate \in Int /\ MinMaxRate \in Nat \ {0}
    BY Constants DEF Settings
  <1>2. Settings'
    BY RaisedSetting, Zenon DEF Settings
  <1>3. (maxRate' = 0 <=> maxRate = 0) /\ (maxRate # 0 => Raised' = Raised)
    BY <1>1, SMT DEF Raised
  <1> QED
    BY <1>2, <1>3, Zenon DEF Rate

(* A message sent to a client that is c by then. *)
LEMMA SendKeeps ==
    ASSUME Settings, NEW c \in Client, NEW size \in Nat, cl' = Sent(c, size),
           c.state = "zombie" => ~c.downloadName,
           c.cut \/ c.unsentFragments => c.state = "zombie"
    PROVE  cl' \in Client /\ cl'.delay <= Longest /\ ZombieIdle' /\ NotCutOff'
  <1>1. /\ cl' \in Client /\ cl'.delay <= Longest
        /\ cl'.cut = (c.cut \/ c.unsentFragments)
        /\ c.state = "zombie" => cl'.state = "zombie"
        /\ cl'.state = "zombie" /\ cl'.downloadName => c.state = "zombie" /\ c.downloadName
    BY SentClient, Zenon
  <1> QED
    BY <1>1, Zenon DEF ZombieIdle, NotCutOff

LEMMA FragmentKeeps ==
    ASSUME ScheduleIInv, NEW msec \in FrameMsecs, FrameFragment(msec)
    PROVE  ScheduleIInv'
  <1> DEFINE q == RateMsec(cl, cl.left)
             n == NextFragment(cl)
  <1>1. cl \in Client /\ Settings /\ since \in 0 .. MaxMsec
    BY DEF ScheduleIInv, TypeOK, Settings
  <1>2. cl.left \in Nat /\ cl.delay \in Nat /\ cl.snapshotMsec \in 0 .. MaxMsec
    BY <1>1, Constants DEF Client
  <1>3. /\ q \in Nat /\ q <= Longest /\ Charge(cl, cl.left) <= Rate(cl) * q
        /\ Charge(cl, cl.left) \in Nat /\ Charge(cl, cl.left) <= FragmentSize * Second
    BY <1>1, <1>2, RateMsecPays
  <1>4. /\ cl' = [n EXCEPT !.delay = q] /\ Due(msec)
        /\ debt' = Most(debt - Rate(cl) * msec, 0) + Charge(cl, cl.left)
        /\ since' = Least(since + msec, MaxMsec) /\ silent' = 0
        /\ maxRate' = Raised /\ fast' = fast
    BY DEF FrameFragment
  <1>5. /\ n \in Client /\ n.rate = cl.rate /\ n.snapshotMsec = cl.snapshotMsec
        /\ n.state = cl.state /\ n.downloadName = cl.downloadName /\ n.cut = cl.cut
    <2>1. CASE cl.left < FragmentSize
      <3>1. n = Flushed(cl)
        BY <2>1, Zenon DEF NextFragment, Flushed
      <3> QED
        BY <1>1, <3>1, FlushedClient, Zenon
    <2>2. CASE ~(cl.left < FragmentSize)
      <3>1. n = [cl EXCEPT !.left = cl.left - FragmentSize]
        BY <2>2, Zenon DEF NextFragment
      <3>2. cl.left - FragmentSize \in Nat
        BY <1>2, <2>2, Constants, SMT
      <3> HIDE DEF n
      <3>3. n \in Client
        BY <1>1, <3>1, <3>2, Zenon DEF Client
      <3>4. n.rate = cl.rate /\ n.snapshotMsec = cl.snapshotMsec /\ n.state = cl.state
        BY <1>1, <3>1, SMT DEF Client
      <3>5. n.downloadName = cl.downloadName
        BY <1>1, <3>1, SMT DEF Client
      <3>6. n.cut = cl.cut
        BY <1>1, <3>1, SMT DEF Client
      <3> QED
        BY <3>3, <3>4, <3>5, <3>6, Zenon
    <2> QED
      BY <2>1, <2>2
  <1>6. /\ cl' \in Client /\ cl'.delay = q /\ cl'.rate = cl.rate
        /\ cl'.snapshotMsec = cl.snapshotMsec
        /\ cl'.state = cl.state /\ cl'.downloadName = cl.downloadName /\ cl'.cut = cl.cut
    <2> HIDE DEF n, q
    <2>1. cl' \in Client
      BY <1>3, <1>4, <1>5, Zenon DEF Client
    <2>2. /\ cl'.delay = q /\ cl'.rate = n.rate
          /\ cl'.snapshotMsec = n.snapshotMsec /\ cl'.state = n.state
      BY <1>4, <1>5, Zenon DEF Client
    <2>3. cl'.downloadName = n.downloadName
      BY <1>4, <1>5, SMT DEF Client
    <2>4. cl'.cut = n.cut
      BY <1>4, <1>5, SMT DEF Client
    <2> QED
      BY <1>5, <2>1, <2>2, <2>3, <2>4, Zenon
  <1>7. Settings' /\ Rate(cl)' = Rate(cl)
    <2>1. maxRate' \in {maxRate, Raised}
      BY <1>4
    <2>2. Settings' /\ Rate(cl)' = IF maxRate = 0 THEN cl'.rate ELSE Least(cl'.rate, Raised)
      BY <1>1, <1>4, <2>1, RaisedRate
    <2> QED
      BY <1>6, <2>2, Zenon DEF Rate
  <1>8. ZombieIdle' /\ NotCutOff'
    BY <1>6, Zenon DEF ScheduleIInv, ZombieIdle, NotCutOff
  <1>9. since' \in 0 .. MaxMsec /\ since' + cl'.delay >= cl'.snapshotMsec
    <2>1. since + cl.delay >= cl.snapshotMsec /\ cl.delay <= msec /\ msec \in Nat \ {0}
      BY <1>4, Constants DEF ScheduleIInv, DelayPaces, Due
    <2> HIDE DEF q
    <2> QED
      BY <1>1, <1>2, <1>3, <1>4, <1>6, <2>1, Constants, SMT DEF Least
  <1> HIDE DEF q, n
  <1>10. Charge(cl, cl.left) <= Rate(cl)' * cl'.delay /\ cl'.delay <= Longest
    BY <1>3, <1>6, <1>7
  <1> QED
    BY <1>3, <1>4, <1>6, <1>7, <1>8, <1>9, <1>10, ScheduledKeeps

LEMMA SnapshotKeeps ==
    ASSUME ScheduleIInv, NEW msec \in FrameMsecs, NEW size \in Sizes,
           FrameSnapshot(msec, size)
    PROVE  ScheduleIInv'
  <1>1. cl \in Client /\ Settings /\ since \in 0 .. MaxMsec /\ size \in Nat
    BY Constants DEF ScheduleIInv, TypeOK, Settings
  <1>2. PICK c \in WrittenTo(cl) :
          /\ cl' = Sent(c, size)
          /\ IF Unrated(c)
             THEN SeenUnscheduled /\ maxRate' \in {maxRate, Raised}
             ELSE /\ debt' = Most(debt - Rate(cl) * msec, 0) + Charge(c, size)
                  /\ since' = 0
                  /\ maxRate' = Raised
    BY DEF FrameSnapshot
  <1>3. /\ Due(msec) /\ ~cl.unsentFragments
        /\ silent' = 0 /\ fast' = fast
        /\ maxRate' \in {maxRate, Raised}
    BY <1>2, Zenon DEF FrameSnapshot
  <1>4. /\ c \in Client /\ c.cut = cl.cut /\ c.unsentFragments = cl.unsentFragments
        /\ ~cl.downloadName => c = cl
        /\ cl.downloadName => c.state = "connected"
    BY <1>1, WrittenToClient
  <1>5. (c.state = "zombie" => ~c.downloadName) /\ (c.cut \/ c.unsentFragments => c.state = "zombie")
    BY <1>3, <1>4, Zenon DEF ScheduleIInv, ZombieIdle, NotCutOff
  <1>6. cl' \in Client /\ cl'.delay <= Longest /\ ZombieIdle' /\ NotCutOff'
    BY <1>1, <1>2, <1>4, <1>5, SendKeeps
  <1>7. Settings' /\ Rate(cl)' = IF maxRate = 0 THEN cl'.rate ELSE Least(cl'.rate, Raised)
    BY <1>1, <1>3, RaisedRate
  <1>8. CASE Unrated(c)
    <2>1. SeenUnscheduled
      BY <1>2, <1>8
    <2>2. silent' \in Nat /\ silent' + cl'.delay <= Longest
      <3>1. cl'.delay \in Nat
        BY <1>6 DEF Client
      <3> QED
        BY <1>3, <1>6, <3>1, SMT
    <2> QED
      BY <1>6, <1>7, <2>1, <2>2, UnscheduledKeeps
  <1>9. CASE ~Unrated(c)
    <2>1. debt' = Most(debt - Rate(cl) * msec, 0) + Charge(c, size) /\ since' = 0
      BY <1>2, <1>9
    <2>2. /\ Rate(Sent(c, size)) = Rate(c)
          /\ Sent(c, size).snapshotMsec = c.snapshotMsec
          /\ Sent(c, size).delay >= c.snapshotMsec
          /\ Charge(c, size) <= Rate(c) * Sent(c, size).delay
      BY <1>1, <1>4, <1>9, SentClient
    <2>3. Rate(cl)' = Rate(c)
      BY <1>2, <1>7, <2>2, Zenon DEF Rate
    <2>4. /\ Charge(c, size) <= Rate(cl)' * cl'.delay
          /\ Charge(c, size) \in Nat /\ Charge(c, size) <= FragmentSize * Second
      BY <1>1, <1>2, <1>4, <2>2, <2>3, RateMsecPays
    <2>5. since' \in 0 .. MaxMsec /\ since' + cl'.delay >= cl'.snapshotMsec
      <3>1. cl'.delay \in Nat /\ cl'.snapshotMsec \in 0 .. MaxMsec
        BY <1>6, Constants DEF Client
      <3>2. cl'.delay >= cl'.snapshotMsec
        BY <1>2, <2>2
      <3> QED
        BY <2>1, <3>1, <3>2, Constants, SMT
    <2> QED
      BY <1>1, <1>3, <1>6, <1>7, <2>1, <2>4, <2>5, ScheduledKeeps
  <1> QED
    BY <1>8, <1>9

(* A message sent to c, whatever the clock says. *)
LEMMA SendUnscheduledKeeps ==
    ASSUME ScheduleIInv, NEW c \in Client, NEW size \in Nat, cl' = Sent(c, size),
           c.state = "zombie" => ~c.downloadName,
           c.cut \/ c.unsentFragments => c.state = "zombie",
           SeenUnscheduled, silent' = 0,
           maxRate' \in {maxRate, Raised}, fast' = fast
    PROVE  ScheduleIInv'
  <1>1. Settings
    BY DEF ScheduleIInv, TypeOK, Settings
  <1>2. cl' \in Client /\ cl'.delay <= Longest /\ ZombieIdle' /\ NotCutOff'
    BY <1>1, SendKeeps
  <1>3. Settings'
    BY <1>1, RaisedRate
  <1>4. silent' \in Nat /\ silent' + cl'.delay <= Longest
    <2>1. cl'.delay \in Nat
      BY <1>2 DEF Client
    <2> QED
      BY <1>2, <2>1, SMT
  <1> QED
    BY <1>2, <1>3, <1>4, UnscheduledKeeps

LEMMA FastKeeps ==
    ASSUME ScheduleIInv, NEW msec \in FrameMsecs, NEW size \in Sizes, FrameFast(msec, size)
    PROVE  ScheduleIInv'
  <1>1. cl \in Client /\ size \in Nat
    BY Constants DEF ScheduleIInv, TypeOK
  <1>2. PICK c \in WrittenTo(Flushed(cl)) : cl' = Sent(c, size)
    BY DEF FrameFast
  <1>3. /\ Flushed(cl) \in Client /\ ~Flushed(cl).unsentFragments
        /\ Flushed(cl).state = cl.state
        /\ Flushed(cl).downloadName = cl.downloadName /\ Flushed(cl).cut = cl.cut
    BY <1>1, FlushedClient
  <1>4. /\ c \in Client /\ c.cut = cl.cut /\ ~c.unsentFragments
        /\ ~cl.downloadName => c.state = cl.state /\ ~c.downloadName
        /\ cl.downloadName => c.state = "connected"
    <2>1. /\ c \in Client /\ c.cut = Flushed(cl).cut
          /\ c.unsentFragments = Flushed(cl).unsentFragments
          /\ ~Flushed(cl).downloadName => c = Flushed(cl)
          /\ Flushed(cl).downloadName => c.state = "connected"
      BY <1>2, <1>3, WrittenToClient
    <2> QED
      BY <1>3, <2>1, Zenon
  <1>5. (c.state = "zombie" => ~c.downloadName) /\ (c.cut \/ c.unsentFragments => c.state = "zombie")
    BY <1>4, Zenon DEF ScheduleIInv, ZombieIdle, NotCutOff
  <1>6. SeenUnscheduled /\ silent' = 0 /\ maxRate' \in {maxRate, Raised} /\ fast' = fast
    BY DEF FrameFast
  <1> QED
    BY <1>1, <1>2, <1>4, <1>5, <1>6, SendUnscheduledKeeps

LEMMA PrimedClient ==
    ASSUME NEW c \in Client, NEW rate \in Rates, NEW msec \in Msecs
    PROVE  /\ Primed(c, rate, msec) \in Client
           /\ Primed(c, rate, msec).state = "connected"
           /\ Primed(c, rate, msec).cut = c.cut
           /\ Primed(c, rate, msec).unsentFragments = c.unsentFragments
  <1> DEFINE e == Primed(c, rate, msec)
  <1>1. e \in Client
    BY Zenon DEF Primed, Client, AllMsecs
  <1>2. e.state = "connected"
    BY SMT DEF Primed, Client
  <1>3. e.cut = c.cut
    BY SMT DEF Primed, Client
  <1>4. e.unsentFragments = c.unsentFragments
    BY SMT DEF Primed, Client
  <1> QED
    BY <1>1, <1>2, <1>3, <1>4, Zenon

LEMMA GameStateKeeps ==
    ASSUME ScheduleIInv, NEW size \in Sizes, SendClientGameState(size)
    PROVE  ScheduleIInv'
  <1>1. cl \in Client /\ size \in Nat
    BY Constants DEF ScheduleIInv, TypeOK
  <1>2. PICK rate \in Rates, msec \in Msecs :
          cl' = Sent(Primed(Flushed(cl), rate, msec), size)
    BY DEF SendClientGameState
  <1> DEFINE e == Primed(Flushed(cl), rate, msec)
  <1>3. e \in Client /\ e.state = "connected" /\ ~e.cut /\ ~e.unsentFragments
    <2>1. Flushed(cl) \in Client /\ ~Flushed(cl).unsentFragments /\ Flushed(cl).cut = cl.cut
      BY <1>1, FlushedClient
    <2>2. ~cl.cut
      BY Zenon DEF SendClientGameState, ScheduleIInv, NotCutOff
    <2>3. e \in Client /\ e.state = "connected" /\ e.cut = Flushed(cl).cut
          /\ e.unsentFragments = Flushed(cl).unsentFragments
      BY <2>1, PrimedClient
    <2> QED
      BY <2>1, <2>2, <2>3, Zenon
  <1>4. SeenUnscheduled /\ silent' = 0 /\ maxRate' \in {maxRate, Raised} /\ fast' = fast
    BY DEF SendClientGameState
  <1>5. cl' = Sent(e, size)
    BY <1>2
  <1> HIDE DEF e
  <1>6. (e.state = "zombie" => ~e.downloadName) /\ (e.cut \/ e.unsentFragments => e.state = "zombie")
    BY <1>3
  <1> QED
    BY <1>1, <1>3, <1>4, <1>5, <1>6, SendUnscheduledKeeps

LEMMA UnpureKeeps ==
    ASSUME ScheduleIInv, NEW size \in Sizes, UnpureClient(size)
    PROVE  ScheduleIInv'
  <1>1. cl \in Client /\ Settings /\ size \in Nat
    BY Constants DEF ScheduleIInv, TypeOK, Settings
  <1> DEFINE e == [Dropped(cl) EXCEPT !.state = "active"]
             s == Sent(e, size)
  <1>2. e \in Client /\ ~e.downloadName
    <2>1. Dropped(cl) \in Client /\ ~Dropped(cl).downloadName
      BY <1>1, DroppedClient
    <2>2. e \in Client
      BY <2>1, Zenon DEF Client
    <2>3. e.downloadName = Dropped(cl).downloadName
      BY <2>1, SMT DEF Client
    <2> QED
      BY <2>1, <2>2, <2>3, Zenon
  <1>3. s \in Client /\ s.delay <= Longest /\ ~s.downloadName
    <2> HIDE DEF e
    <2> QED
      BY <1>1, <1>2, SentClient
  <1>4. cl' = [s EXCEPT !.state = "zombie"]
    BY DEF UnpureClient
  <1> HIDE DEF s
  <1>5. cl' \in Client
    BY <1>3, <1>4, Zenon DEF Client
  <1>6. cl'.state = "zombie" /\ cl'.delay = s.delay
    BY <1>3, <1>4, SMT DEF Client
  <1>7. cl'.downloadName = s.downloadName
    BY <1>3, <1>4, SMT DEF Client
  <1>8. ZombieIdle' /\ NotCutOff'
    BY <1>3, <1>6, <1>7, Zenon DEF ZombieIdle, NotCutOff
  <1>9. SeenUnscheduled /\ silent' = 0 /\ maxRate' \in {maxRate, Raised} /\ fast' = fast
    BY DEF UnpureClient
  <1>10. Settings'
    BY <1>1, <1>9, RaisedRate
  <1>11. silent' \in Nat /\ silent' + cl'.delay <= Longest
    <2>1. cl'.delay \in Nat
      BY <1>5 DEF Client
    <2> QED
      BY <1>3, <1>6, <1>9, <2>1, SMT
  <1> QED
    BY <1>5, <1>8, <1>9, <1>10, <1>11, UnscheduledKeeps

----------------------------------------------------------------------------
(* A step that sends nothing and takes no time. *)
LEMMA QuietKeeps ==
    ASSUME ScheduleIInv, Settings', cl' \in Client, cl'.delay = cl.delay,
           \/ debt' = debt /\ Rate(cl)' = Rate(cl)
           \/ debt' = 0,
           \/ since' = since /\ cl'.snapshotMsec = cl.snapshotMsec
           \/ since' = MaxMsec,
           silent' = silent, ZombieIdle', NotCutOff'
    PROVE  ScheduleIInv'
  <1>1. /\ cl \in Client /\ Settings /\ debt \in Nat /\ since \in 0 .. MaxMsec
        /\ silent \in Nat /\ silent + cl.delay <= Longest
        /\ debt <= Rate(cl) * cl.delay /\ debt <= FragmentSize * Second
        /\ since + cl.delay >= cl.snapshotMsec
    BY DEF ScheduleIInv, TypeOK, Settings, DelayEnds, DelayPays, RateKept, DelayPaces
  <1>2. /\ cl'.delay \in Nat /\ cl'.snapshotMsec \in 0 .. MaxMsec
        /\ Rate(cl)' \in Nat \ {0}
    BY NextRateRange, Constants DEF Client
  <1>3. \A a, b \in Nat : a * b \in Nat /\ 0 <= a * b
    BY SMT
  <1>4. TypeOK'
    BY <1>1, Constants, SMT DEF TypeOK, Settings
  <1>5. DelayPays'
    BY <1>1, <1>2, <1>3 DEF DelayPays
  <1>6. RateKept'
    BY <1>1, <1>3, Constants DEF RateKept
  <1>7. DelayPaces'
    BY <1>1, <1>2, Constants, SMT DEF DelayPaces
  <1>8. DelayEnds'
    BY <1>1 DEF DelayEnds
  <1> QED
    BY <1>4, <1>5, <1>6, <1>7, <1>8 DEF ScheduleIInv

LEMMA EnterKeeps ==
    ASSUME ScheduleIInv, ClientEnterWorld
    PROVE  ScheduleIInv'
  <1>1. /\ cl \in Client /\ cl.state = "connected" /\ silent \in Nat
        /\ silent + cl.delay <= Longest /\ cl.delay \in Nat
        /\ cl' = [cl EXCEPT !.state = "active", !.delay = 0]
        /\ SeenUnscheduled /\ silent' = silent /\ fast' = fast /\ maxRate' = maxRate
    BY DEF ScheduleIInv, TypeOK, DelayEnds, ClientEnterWorld, cvars, Client
  <1>2. cl' \in Client
    <2>1. 0 \in Nat
      BY SMT
    <2> QED
      BY <1>1, <2>1, Zenon DEF Client
  <1>3. cl'.state = "active" /\ cl'.delay = 0
    BY <1>1, SMT DEF Client
  <1>4. cl'.cut = cl.cut
    BY <1>1, SMT DEF Client
  <1>5. ZombieIdle' /\ NotCutOff'
    BY <1>1, <1>3, <1>4, Zenon DEF ScheduleIInv, ZombieIdle, NotCutOff
  <1>6. Settings'
    BY <1>1 DEF ScheduleIInv, TypeOK, Settings
  <1>7. silent' \in Nat /\ silent' + cl'.delay <= Longest
    <2>1. Longest \in Nat
      <3>1. Settings
        BY DEF ScheduleIInv, TypeOK, Settings
      <3> QED
        BY <1>1, <3>1, RateMsecPays
    <2> QED
      BY <1>1, <1>3, <2>1, SMT
  <1> QED
    BY <1>1, <1>2, <1>5, <1>6, <1>7, UnscheduledKeeps

LEMMA ConnectKeeps ==
    ASSUME ScheduleIInv, DirectConnect
    PROVE  ScheduleIInv'
  <1>1. PICK lan \in BOOLEAN, rate \in Rates, msec \in Msecs : cl' = Connected(lan, rate, msec)
    BY DEF DirectConnect
  <1>2. /\ cl' \in Client /\ cl'.delay = 0 /\ cl'.cut = FALSE /\ cl'.state = "connected"
    BY <1>1, SMT DEF Connected, Client, AllMsecs
  <1>3. SeenUnscheduled /\ silent' = 0 /\ fast' = fast /\ maxRate' = maxRate
    BY DEF DirectConnect, cvars
  <1>4. Settings' /\ Longest \in Nat
    <2>1. Settings /\ cl \in Client
      BY DEF ScheduleIInv, TypeOK, Settings
    <2>2. Settings'
      BY <1>3, <2>1 DEF Settings
    <2> QED
      BY <2>1, <2>2, RateMsecPays
  <1>5. ZombieIdle' /\ NotCutOff'
    BY <1>2, Zenon DEF ZombieIdle, NotCutOff
  <1>6. silent' \in Nat /\ silent' + cl'.delay <= Longest
    BY <1>2, <1>3, <1>4, SMT
  <1> QED
    BY <1>2, <1>3, <1>4, <1>5, <1>6, UnscheduledKeeps

LEMMA ClientStays ==
    ASSUME ScheduleIInv, cl' \in Client, UNCHANGED <<cvars, debt, since, silent>>,
           cl'.delay = cl.delay, cl'.rate = cl.rate,
           cl'.snapshotMsec = cl.snapshotMsec, cl'.state = cl.state, cl'.cut = cl.cut,
           cl.state # "zombie" \/ ~cl'.downloadName
    PROVE  ScheduleIInv'
  <1>1. debt' = debt /\ since' = since /\ silent' = silent /\ fast' = fast /\ maxRate' = maxRate
    BY DEF cvars
  <1>2. Settings' /\ Rate(cl)' = Rate(cl)
    BY <1>1, Zenon DEF ScheduleIInv, TypeOK, Settings, Rate, Raised
  <1>3. ZombieIdle' /\ NotCutOff'
    BY Zenon DEF ScheduleIInv, ZombieIdle, NotCutOff
  <1> QED
    BY <1>1, <1>2, <1>3, QuietKeeps

(* The steps that change a client and leave what the schedule looks at.    *)
LEMMA ClientKeeps ==
    ASSUME ScheduleIInv,
           \/ SetDropReason \/ BeginDownload \/ EndDownload \/ UserinfoChanged
    PROVE  ScheduleIInv'
  <1>1. cl \in Client /\ Settings
    BY DEF ScheduleIInv, TypeOK, Settings
  <1>2. CASE SetDropReason
    <2>1. cl' = [cl EXCEPT !.dropReason = TRUE] /\ cl.state # "zombie" /\ UNCHANGED <<cvars, debt, since, silent>>
      BY <1>2 DEF SetDropReason
    <2>2. cl' \in Client
      BY <1>1, <2>1, Zenon DEF Client
    <2>3. cl'.delay = cl.delay /\ cl'.rate = cl.rate /\ cl'.snapshotMsec = cl.snapshotMsec
          /\ cl'.state = cl.state
      BY <1>1, <2>1, SMT DEF Client
    <2>4. cl'.cut = cl.cut
      BY <1>1, <2>1, SMT DEF Client
    <2>5. cl'.downloadName = cl.downloadName
      BY <1>1, <2>1, SMT DEF Client
    <2> QED
      BY <1>1, <2>1, <2>2, <2>3, <2>4, <2>5, ClientStays
  <1>3. CASE BeginDownload
    <2>1. cl' = [cl EXCEPT !.downloadName = TRUE, !.download = FALSE]
          /\ cl.state # "zombie" /\ UNCHANGED <<cvars, debt, since, silent>>
      BY <1>3 DEF BeginDownload
    <2>2. cl' \in Client
      BY <1>1, <2>1, Zenon DEF Client
    <2>3. cl'.delay = cl.delay /\ cl'.rate = cl.rate /\ cl'.snapshotMsec = cl.snapshotMsec
          /\ cl'.state = cl.state
      BY <1>1, <2>1, SMT DEF Client
    <2>4. cl'.cut = cl.cut
      BY <1>1, <2>1, SMT DEF Client
    <2> QED
      BY <1>1, <2>1, <2>2, <2>3, <2>4, ClientStays
  <1>4. CASE EndDownload
    <2>1. cl' = [cl EXCEPT !.downloadName = FALSE, !.download = FALSE]
          /\ UNCHANGED <<cvars, debt, since, silent>>
      BY <1>4 DEF EndDownload
    <2>2. cl' \in Client
      BY <1>1, <2>1, Zenon DEF Client
    <2>3. cl'.delay = cl.delay /\ cl'.rate = cl.rate /\ cl'.snapshotMsec = cl.snapshotMsec
          /\ cl'.state = cl.state
      BY <1>1, <2>1, SMT DEF Client
    <2>4. cl'.cut = cl.cut
      BY <1>1, <2>1, SMT DEF Client
    <2>5. ~cl'.downloadName
      BY <1>1, <2>1, SMT DEF Client
    <2> QED
      BY <1>1, <2>1, <2>2, <2>3, <2>4, <2>5, ClientStays
  <1>5. CASE UserinfoChanged
    <2>1. PICK rate \in Rates, msec \in Msecs :
             cl' = [cl EXCEPT !.rate = rate, !.snapshotMsec = msec]
      BY <1>5 DEF UserinfoChanged
    <2>2. cl' \in Client
      BY <1>1, <2>1, Zenon DEF Client, AllMsecs
    <2>3. cl'.delay = cl.delay /\ cl'.state = cl.state
      BY <1>1, <2>1, SMT DEF Client
    <2>4. cl'.cut = cl.cut
      BY <1>1, <2>1, SMT DEF Client
    <2>5. cl.state # "zombie" /\ SeenChange /\ UNCHANGED cvars
      BY <1>5 DEF UserinfoChanged
    <2>6. ZombieIdle' /\ NotCutOff'
      BY <2>3, <2>4, <2>5, Zenon DEF ScheduleIInv, ZombieIdle, NotCutOff
    <2>7. Settings'
      BY <1>1, <2>5 DEF Settings, cvars
    <2>8. /\ (debt' = debt /\ Rate(cl)' = Rate(cl)) \/ debt' = 0
          /\ (since' = since /\ cl'.snapshotMsec = cl.snapshotMsec) \/ since' = MaxMsec
          /\ silent' = silent
      BY <2>5, Zenon DEF SeenChange
    <2> QED
      BY <2>2, <2>3, <2>6, <2>7, <2>8, QuietKeeps
  <1> QED
    BY <1>2, <1>3, <1>4, <1>5

LEMMA CvarKeeps ==
    ASSUME ScheduleIInv, CvarChanged
    PROVE  ScheduleIInv'
  <1>1. cl' = cl /\ SeenChange /\ Settings'
    BY DEF CvarChanged, Settings
  <1>2. cl' \in Client /\ cl'.delay = cl.delay /\ ZombieIdle' /\ NotCutOff'
    BY <1>1, Zenon DEF ScheduleIInv, TypeOK, ZombieIdle, NotCutOff
  <1>3. /\ (debt' = debt /\ Rate(cl)' = Rate(cl)) \/ debt' = 0
        /\ (since' = since /\ cl'.snapshotMsec = cl.snapshotMsec) \/ since' = MaxMsec
        /\ silent' = silent
    BY <1>1, Zenon DEF SeenChange
  <1> QED
    BY <1>1, <1>2, <1>3, QuietKeeps

LEMMA StutterKeeps ==
    ASSUME ScheduleIInv, UNCHANGED vars
    PROVE  ScheduleIInv'
  BY DEF vars, cvars, ScheduleIInv, TypeOK, DelayPays, RateKept, DelayPaces, DelayEnds,
         ZombieIdle, NotCutOff, Rate, Raised

----------------------------------------------------------------------------
(* The schedule's invariant: at every instant the delay that is left pays  *)
(* for what was sent, makes up the pace, and ends (SV_RateMsec and its     *)
(* three callers).                                                         *)
THEOREM ScheduleInductive == Spec => []ScheduleIInv
  <1>1. Init => ScheduleIInv
    BY InitSchedule
  <1>2. ScheduleIInv /\ [Next]_vars => ScheduleIInv'
    <2> SUFFICES ASSUME ScheduleIInv, [Next]_vars PROVE ScheduleIInv'
      OBVIOUS
    <2>1. ASSUME NEW msec \in FrameMsecs, Frame(msec) PROVE ScheduleIInv'
      <3>1. CASE FrameWaits(msec)
        BY <3>1, WaitKeeps
      <3>2. CASE FrameFragment(msec)
        BY <3>2, FragmentKeeps
      <3>3. ASSUME NEW size \in Sizes, FrameSnapshot(msec, size) PROVE ScheduleIInv'
        BY <3>3, SnapshotKeeps
      <3>4. ASSUME NEW size \in Sizes, FrameFast(msec, size) PROVE ScheduleIInv'
        BY <3>4, FastKeeps
      <3> QED
        BY <2>1, <3>1, <3>2, <3>3, <3>4 DEF Frame
    <2>2. ASSUME NEW size \in Sizes, SendClientGameState(size) PROVE ScheduleIInv'
      BY <2>2, GameStateKeeps
    <2>3. ASSUME NEW size \in Sizes, UnpureClient(size) PROVE ScheduleIInv'
      BY <2>3, UnpureKeeps
    <2>4. CASE ClientEnterWorld
      BY <2>4, EnterKeeps
    <2>5. CASE SetDropReason \/ BeginDownload \/ EndDownload \/ UserinfoChanged
      BY <2>5, ClientKeeps
    <2>6. CASE CvarChanged
      BY <2>6, CvarKeeps
    <2>7. CASE DirectConnect
      BY <2>7, ConnectKeeps
    <2>8. CASE UNCHANGED vars
      BY <2>8, StutterKeeps
    <2> QED
      BY <2>1, <2>2, <2>3, <2>4, <2>5, <2>6, <2>7, <2>8 DEF Next
  <1> QED
    BY <1>1, <1>2, PTL DEF Spec

(* For every rate, over any window a client is sent no more than its rate  *)
(* allows and one packet, but for what the division of SV_RateMsec lets    *)
(* through with each packet at a rate the header does not cover            *)
(* (custom_SV_SendClientMessages, custom_SV_SendMessageToClient).          *)
THEOREM RateIsKept == Spec => []RateKept
  BY ScheduleInductive, PTL DEF ScheduleIInv

(* No client waits longer than the longest pause for a packet. *)
THEOREM NobodyStarves == Spec => []NotStarved
  <1>1. ScheduleIInv => NotStarved
    <2>1. SUFFICES ASSUME ScheduleIInv PROVE NotStarved
      OBVIOUS
    <2>2. Settings /\ cl \in Client /\ silent \in Nat /\ silent + cl.delay <= Longest
      BY <2>1 DEF ScheduleIInv, TypeOK, Settings, DelayEnds
    <2>3. cl.delay \in Nat /\ Longest \in Nat
      BY <2>2, RateMsecPays DEF Client
    <2> QED
      BY <2>2, <2>3, SMT DEF NotStarved
  <1> QED
    BY <1>1, ScheduleInductive, PTL

(* A message in fragments is finished before the next one is begun.        *)
THEOREM MessagesAreWhole == Spec => []NotCutOff
  BY ScheduleInductive, PTL DEF ScheduleIInv

(* Snapshots keep the pace a client asked for, fragments in between or not. *)
THEOREM PaceIsKept == Spec => Paced
  <1>1. ASSUME ScheduleIInv, NEW msec \in FrameMsecs, NEW size \in Sizes,
               FrameSnapshot(msec, size)
        PROVE  since + msec >= cl.snapshotMsec
    <2>1. /\ since \in 0 .. MaxMsec /\ cl \in Client
          /\ since + cl.delay >= cl.snapshotMsec /\ cl.delay <= msec
      BY <1>1 DEF ScheduleIInv, TypeOK, DelayPaces, FrameSnapshot, Due
    <2>2. /\ cl.delay \in Nat /\ cl.snapshotMsec \in 0 .. MaxMsec /\ msec \in Nat \ {0}
      BY <2>1, Constants DEF Client
    <2> QED
      BY <2>1, <2>2, Constants, SMT
  <1>2. ScheduleIInv => \A msec \in FrameMsecs, size \in Sizes :
                           FrameSnapshot(msec, size) => since + msec >= cl.snapshotMsec
    BY <1>1
  <1> QED
    BY <1>2, ScheduleInductive, PTL DEF Paced
=============================================================================
