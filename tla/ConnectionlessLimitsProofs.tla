--------------------- MODULE ConnectionlessLimitsProofs ---------------------
(***************************************************************************)
(* The rate limits for any number of slots, hashes and addresses, any hash *)
(* function and any limits: the chains of the table stay whole however     *)
(* slots are reclaimed and given away; what one address and all addresses  *)
(* together get through is bounded; nobody is refused without a cause.     *)
(***************************************************************************)
EXTENDS LimitsWindow, SharedLemmas, FiniteSetTheorems

Slot == [adr : Address \cup {NoAddress}, hash : Hashes, prev : Pointer,
         next : Pointer, bucket : BucketsTo(AuthorizeLimit)]

Tables == [slots : [Slots -> Slot], heads : [Hashes -> Pointer]]

----------------------------------------------------------------------------
(* The n slots of chain h, in its order. *)
Holds(t, h, n, c) ==
    \A i \in Slots : (~IsFree(t, i) /\ t.slots[i].hash = h) <=> \E k \in 1 .. n : c[k] = i

Linked(t, h, n, c) ==
    /\ t.heads[h] = IF n = 0 THEN Null ELSE c[1]
    /\ \A k \in 1 .. n :
          /\ t.slots[c[k]].prev = IF k = 1 THEN Null ELSE c[k - 1]
          /\ t.slots[c[k]].next = IF k = n THEN Null ELSE c[k + 1]

Distinct(n, c) == \A k, l \in 1 .. n : c[k] = c[l] => k = l

IsChain(t, h, n, c) ==
    n \in Nat /\ c \in [1 .. n -> Slots] /\ Distinct(n, c) /\ Holds(t, h, n, c) /\ Linked(t, h, n, c)

Chained(t) == \A h \in Hashes : \E n, c : IsChain(t, h, n, c)

(* Slots in use are on the chain of their address, which no other slot has. *)
Addressed(t) == \A i \in Slots : ~IsFree(t, i) => t.slots[i].hash = Hash[t.slots[i].adr]

Unshared(t) ==
    \A i, j \in Slots : ~IsFree(t, i) /\ t.slots[i].adr = t.slots[j].adr => i = j

Good(t) == t \in Tables /\ Chained(t) /\ Addressed(t) /\ Unshared(t)

(* The same slots are in use, for the same addresses, with the same buckets. *)
SameSlot(t, u, i) == /\ u.slots[i].adr = t.slots[i].adr
                     /\ u.slots[i].hash = t.slots[i].hash
                     /\ u.slots[i].bucket = t.slots[i].bucket

----------------------------------------------------------------------------
LEMMA ConstantFacts ==
    /\ NumSlots \in Nat \ {0} /\ NumHashes \in Nat \ {0}
    /\ Hash \in [Address -> Hashes] /\ NoAddress \notin Address
    /\ Null \notin Slots /\ 0 \in Hashes
    /\ EmptySlot \in Slot
    /\ AddressLimit \in Nat \ {0} /\ AuthorizeLimit \in Nat \ {0} /\ AddressLimit <= AuthorizeLimit
    /\ Period \in Nat \ {0} /\ (AuthorizeLimit + 1) * Period <= IntHalf
  <1>1. /\ NumSlots \in Nat \ {0} /\ NumHashes \in Nat \ {0}
        /\ Hash \in [Address -> Hashes] /\ NoAddress \notin Address
        /\ AddressLimit \in Nat \ {0} /\ AuthorizeLimit \in Nat \ {0} /\ AddressLimit <= AuthorizeLimit
        /\ Period \in Nat \ {0} /\ (AuthorizeLimit + 1) * Period <= IntHalf
    BY LimitsAssumption DEF Hashes
  <1>2. Null \notin Slots /\ 0 \in Hashes /\ Null \in Pointer
    BY <1>1 DEF Null, Slots, Hashes, Pointer
  <1>3. ZeroBucket \in BucketsTo(AuthorizeLimit)
    BY <1>1 DEF ZeroBucket, BucketsTo
  <1>4. EmptySlot \in Slot
    BY <1>2, <1>3 DEF EmptySlot, Slot
  <1> QED
    BY <1>1, <1>2, <1>4

(* One pointer of the table is set. *)
LEMMA SetNextFacts ==
    ASSUME NEW t \in Tables, NEW p \in Pointer, NEW h \in Hashes, NEW n \in Pointer
    PROVE  /\ SetNext(t, p, h, n) \in Tables
           /\ \A g \in Hashes : SetNext(t, p, h, n).heads[g] =
                 IF p = Null /\ g = h THEN n ELSE t.heads[g]
           /\ \A i \in Slots :
                 /\ SameSlot(t, SetNext(t, p, h, n), i)
                 /\ SetNext(t, p, h, n).slots[i].prev = t.slots[i].prev
                 /\ SetNext(t, p, h, n).slots[i].next =
                      IF i = p THEN n ELSE t.slots[i].next
  <1> DEFINE u == SetNext(t, p, h, n)
  <1>1. t.slots \in [Slots -> Slot] /\ t.heads \in [Hashes -> Pointer] /\ Null \notin Slots
    BY ConstantFacts DEF Tables
  <1>2. CASE p = Null
    <2>1. u = [t EXCEPT !.heads[h] = n]
      BY <1>2 DEF SetNext
    <2>2. u.slots = t.slots /\ u.heads = [t.heads EXCEPT ![h] = n] /\ u \in Tables
      BY <2>1 DEF Tables
    <2> QED
      BY <1>1, <1>2, <2>2 DEF SameSlot
  <1>3. CASE p # Null
    <2>1. p \in Slots
      BY <1>3 DEF Pointer
    <2>2. u = [t EXCEPT !.slots[p].next = n]
      BY <1>3 DEF SetNext
    <2> DEFINE s == [t.slots[p] EXCEPT !.next = n]
    <2>3. /\ s \in Slot /\ s.adr = t.slots[p].adr /\ s.hash = t.slots[p].hash
          /\ s.bucket = t.slots[p].bucket /\ s.prev = t.slots[p].prev /\ s.next = n
      BY <1>1, <2>1 DEF Slot
    <2> HIDE DEF s
    <2>4. u.heads = t.heads /\ u.slots = [t.slots EXCEPT ![p] = s] /\ u \in Tables
      BY <1>1, <2>1, <2>2, <2>3 DEF Tables, s
    <2>5. \A i \in Slots : u.slots[i] = IF i = p THEN s ELSE t.slots[i]
      BY <1>1, <2>1, <2>4
    <2> HIDE DEF u
    <2> QED
      BY <1>3, <2>3, <2>4, <2>5 DEF SameSlot, u
  <1> QED
    BY <1>2, <1>3

LEMMA SetPrevFacts ==
    ASSUME NEW t \in Tables, NEW n \in Pointer, NEW p \in Pointer
    PROVE  /\ SetPrev(t, n, p) \in Tables
           /\ SetPrev(t, n, p).heads = t.heads
           /\ \A i \in Slots :
                 /\ SameSlot(t, SetPrev(t, n, p), i)
                 /\ SetPrev(t, n, p).slots[i].next = t.slots[i].next
                 /\ SetPrev(t, n, p).slots[i].prev =
                      IF i = n THEN p ELSE t.slots[i].prev
  <1> DEFINE u == SetPrev(t, n, p)
  <1>1. t.slots \in [Slots -> Slot] /\ t.heads \in [Hashes -> Pointer] /\ Null \notin Slots
    BY ConstantFacts DEF Tables
  <1>2. CASE n = Null
    BY <1>1, <1>2 DEF SetPrev, SameSlot
  <1>3. CASE n # Null
    <2>1. n \in Slots
      BY <1>3 DEF Pointer
    <2>2. u = [t EXCEPT !.slots[n].prev = p]
      BY <1>3 DEF SetPrev
    <2> DEFINE s == [t.slots[n] EXCEPT !.prev = p]
    <2>3. /\ s \in Slot /\ s.adr = t.slots[n].adr /\ s.hash = t.slots[n].hash
          /\ s.bucket = t.slots[n].bucket /\ s.next = t.slots[n].next /\ s.prev = p
      BY <1>1, <2>1 DEF Slot
    <2> HIDE DEF s
    <2>4. u.heads = t.heads /\ u.slots = [t.slots EXCEPT ![n] = s] /\ u \in Tables
      BY <1>1, <2>1, <2>2, <2>3 DEF Tables, s
    <2>5. \A i \in Slots : u.slots[i] = IF i = n THEN s ELSE t.slots[i]
      BY <1>1, <2>1, <2>4
    <2> HIDE DEF u
    <2> QED
      BY <1>3, <2>3, <2>4, <2>5 DEF SameSlot, u
  <1> QED
    BY <1>2, <1>3

(* A slot is written as a whole. *)
LEMMA SetSlotFacts ==
    ASSUME NEW t \in Tables, NEW i \in Slots, NEW s \in Slot
    PROVE  /\ [t EXCEPT !.slots[i] = s] \in Tables
           /\ [t EXCEPT !.slots[i] = s].heads = t.heads
           /\ \A j \in Slots : [t EXCEPT !.slots[i] = s].slots[j] = IF j = i THEN s ELSE t.slots[j]
  <1> DEFINE u == [t EXCEPT !.slots[i] = s]
  <1>1. u.slots = [t.slots EXCEPT ![i] = s] /\ u.heads = t.heads /\ u \in Tables
    BY DEF Tables
  <1>2. \A j \in Slots : u.slots[j] = IF j = i THEN s ELSE t.slots[j]
    BY <1>1 DEF Tables
  <1> QED
    BY <1>1, <1>2

(* Unlink, slot by slot: the neighbours are joined. *)
LEMMA UnlinkFields ==
    ASSUME NEW t \in Tables, NEW i \in Slots
    PROVE  /\ Unlink(t, i) \in Tables
           /\ Unlink(t, i).slots[i] = EmptySlot
           /\ \A g \in Hashes : Unlink(t, i).heads[g] =
                 IF t.slots[i].prev = Null /\ g = t.slots[i].hash
                 THEN t.slots[i].next ELSE t.heads[g]
           /\ \A j \in Slots \ {i} :
                 /\ SameSlot(t, Unlink(t, i), j)
                 /\ Unlink(t, i).slots[j].prev =
                      IF j = t.slots[i].next THEN t.slots[i].prev ELSE t.slots[j].prev
                 /\ Unlink(t, i).slots[j].next =
                      IF j = t.slots[i].prev THEN t.slots[i].next ELSE t.slots[j].next
  <1> DEFINE s == t.slots[i]
             u == SetNext(t, s.prev, s.hash, s.next)
             v == SetPrev(u, s.next, s.prev)
             w == [v EXCEPT !.slots[i] = EmptySlot]
  <1>1. s.prev \in Pointer /\ s.next \in Pointer /\ s.hash \in Hashes
    BY DEF Tables, Slot
  <1>2. Unlink(t, i) = w
    BY DEF Unlink
  <1>3. /\ u \in Tables
        /\ \A g \in Hashes : u.heads[g] =
              IF s.prev = Null /\ g = s.hash THEN s.next ELSE t.heads[g]
        /\ \A j \in Slots : /\ SameSlot(t, u, j)
                            /\ u.slots[j].prev = t.slots[j].prev
                            /\ u.slots[j].next = IF j = s.prev THEN s.next ELSE t.slots[j].next
    BY SMTT(30), <1>1, SetNextFacts
  <1> HIDE DEF u
  <1>4. /\ v \in Tables /\ v.heads = u.heads
        /\ \A j \in Slots : /\ SameSlot(u, v, j)
                            /\ v.slots[j].next = u.slots[j].next
                            /\ v.slots[j].prev = IF j = s.next THEN s.prev ELSE u.slots[j].prev
    BY <1>1, <1>3, SetPrevFacts
  <1> HIDE DEF v
  <1>5. /\ w \in Tables /\ w.heads = v.heads
        /\ \A j \in Slots : w.slots[j] = IF j = i THEN EmptySlot ELSE v.slots[j]
    BY <1>4, SetSlotFacts, ConstantFacts
  <1> HIDE DEF w
  <1>6. ASSUME NEW j \in Slots \ {i}
        PROVE  /\ SameSlot(t, w, j)
               /\ w.slots[j].prev = IF j = s.next THEN s.prev ELSE t.slots[j].prev
               /\ w.slots[j].next = IF j = s.prev THEN s.next ELSE t.slots[j].next
    BY <1>3, <1>4, <1>5 DEF SameSlot
  <1> QED
    BY <1>2, <1>3, <1>4, <1>5, <1>6

(* The slot Push writes. *)
NewSlot(t, a) == [adr |-> a, hash |-> Hash[a], prev |-> Null, next |-> t.heads[Hash[a]],
                  bucket |-> [lastTime |-> now, burst |-> 0]]

LEMMA NewSlotFields ==
    ASSUME NEW t, NEW a
    PROVE  /\ NewSlot(t, a).adr = a /\ NewSlot(t, a).hash = Hash[a]
           /\ NewSlot(t, a).prev = Null /\ NewSlot(t, a).next = t.heads[Hash[a]]
           /\ NewSlot(t, a).bucket = [lastTime |-> now, burst |-> 0]
  BY DEF NewSlot

LEMMA PushFields ==
    ASSUME NEW t \in Tables, NEW i \in Slots, NEW a \in Address, now \in Nat
    PROVE  /\ Push(t, i, a) \in Tables
           /\ Push(t, i, a).slots[i] = NewSlot(t, a)
           /\ \A g \in Hashes : Push(t, i, a).heads[g] = IF g = Hash[a] THEN i ELSE t.heads[g]
           /\ \A j \in Slots \ {i} :
                 /\ SameSlot(t, Push(t, i, a), j)
                 /\ Push(t, i, a).slots[j].prev =
                      IF j = t.heads[Hash[a]] THEN i ELSE t.slots[j].prev
                 /\ Push(t, i, a).slots[j].next = t.slots[j].next
  <1> DEFINE h == Hash[a]
             s == NewSlot(t, a)
             u == SetPrev(t, t.heads[h], i)
             v == [u EXCEPT !.slots[i] = s]
             w == [v EXCEPT !.heads[h] = i]
  <1>1. h \in Hashes /\ t.heads[h] \in Pointer /\ i \in Pointer
    BY ConstantFacts DEF Tables, Pointer
  <1>2. s \in Slot
    <2>1. [lastTime |-> now, burst |-> 0] \in BucketsTo(AuthorizeLimit)
      BY ConstantFacts DEF BucketsTo
    <2>2. Null \in Pointer
      BY DEF Pointer
    <2> QED
      BY <1>1, <2>1, <2>2 DEF NewSlot, Slot
  <1>3. Push(t, i, a) = w
    BY DEF Push, NewSlot
  <1> HIDE DEF s
  <1>4. /\ u \in Tables /\ u.heads = t.heads
        /\ \A j \in Slots : /\ SameSlot(t, u, j)
                            /\ u.slots[j].next = t.slots[j].next
                            /\ u.slots[j].prev = IF j = t.heads[h] THEN i ELSE t.slots[j].prev
    BY <1>1, SetPrevFacts
  <1> HIDE DEF u
  <1>5. /\ v \in Tables /\ v.heads = u.heads
        /\ \A j \in Slots : v.slots[j] = IF j = i THEN s ELSE u.slots[j]
    BY <1>2, <1>4, SetSlotFacts
  <1> HIDE DEF v
  <1>6. w \in Tables /\ w.slots = v.slots /\ w.heads = [v.heads EXCEPT ![h] = i]
    BY <1>1, <1>5 DEF Tables
  <1>7. \A g \in Hashes : w.heads[g] = IF g = h THEN i ELSE t.heads[g]
    BY <1>4, <1>5, <1>6 DEF Tables
  <1> HIDE DEF w
  <1>8. ASSUME NEW j \in Slots \ {i}
        PROVE  /\ SameSlot(t, w, j)
               /\ w.slots[j].prev = IF j = t.heads[h] THEN i ELSE t.slots[j].prev
               /\ w.slots[j].next = t.slots[j].next
    BY <1>4, <1>5, <1>6 DEF SameSlot
  <1> QED
    BY <1>3, <1>5, <1>6, <1>7, <1>8 DEF s

----------------------------------------------------------------------------
(* A chain no step touches stays. *)
LEMMA ChainKept ==
    ASSUME NEW t \in Tables, NEW u \in Tables, NEW h \in Hashes, NEW n, NEW c,
           IsChain(t, h, n, c), u.heads[h] = t.heads[h],
           \A i \in Slots : \/ /\ SameSlot(t, u, i)
                               /\ \/ t.slots[i].hash # h
                                  \/ /\ u.slots[i].prev = t.slots[i].prev
                                     /\ u.slots[i].next = t.slots[i].next
                            \/ /\ IsFree(t, i) \/ t.slots[i].hash # h
                               /\ IsFree(u, i) \/ u.slots[i].hash # h
    PROVE  IsChain(u, h, n, c)
  <1>1. /\ n \in Nat /\ c \in [1 .. n -> Slots] /\ Distinct(n, c)
        /\ Holds(t, h, n, c) /\ Linked(t, h, n, c)
    BY DEF IsChain
  <1>2. Holds(u, h, n, c)
    BY <1>1 DEF Holds, SameSlot, IsFree
  <1>3. ASSUME NEW k \in 1 .. n
        PROVE  /\ u.slots[c[k]].prev = t.slots[c[k]].prev
               /\ u.slots[c[k]].next = t.slots[c[k]].next
    <2>1. c[k] \in Slots /\ ~IsFree(t, c[k]) /\ t.slots[c[k]].hash = h
      BY <1>1 DEF Holds
    <2> QED
      BY <2>1
  <1>4. Linked(u, h, n, c)
    BY <1>1, <1>3 DEF Linked
  <1> QED
    BY <1>1, <1>2, <1>4 DEF IsChain

(* A slot is taken off its chain, wherever it stands on it. *)
LEMMA UnlinkChain ==
    ASSUME NEW t \in Tables, NEW i \in Slots, ~IsFree(t, i),
           NEW n, NEW c, IsChain(t, t.slots[i].hash, n, c)
    PROVE  \E l : IsChain(Unlink(t, i), t.slots[i].hash, n - 1, l)
  <1> DEFINE h == t.slots[i].hash
             u == Unlink(t, i)
             pr == t.slots[i].prev
             ne == t.slots[i].next
  <1>0. h \in Hashes /\ Null \notin Slots /\ EmptySlot.adr = NoAddress
    BY ConstantFacts DEF Tables, Slot, EmptySlot
  <1>1. /\ n \in Nat /\ c \in [1 .. n -> Slots] /\ Distinct(n, c)
        /\ Holds(t, h, n, c) /\ Linked(t, h, n, c)
    BY DEF IsChain
  <1>2. PICK k \in 1 .. n : c[k] = i
    BY <1>1 DEF Holds
  <1> DEFINE l == [m \in 1 .. n - 1 |-> IF m < k THEN c[m] ELSE c[m + 1]]
  <1>3. /\ n \in Nat \ {0} /\ n - 1 \in Nat /\ k \in Nat \ {0} /\ k <= n
    BY <1>1
  <1>4. /\ pr = IF k = 1 THEN Null ELSE c[k - 1]
        /\ ne = IF k = n THEN Null ELSE c[k + 1]
    BY <1>1, <1>2 DEF Linked
  <1>5. \A a, b \in 1 .. n : c[a] = c[b] => a = b
    BY <1>1 DEF Distinct
  <1>6. /\ k # 1 => k - 1 \in 1 .. n
        /\ k # n => k + 1 \in 1 .. n
    BY <1>3
  <1>7. /\ \A m \in 1 .. n : c[m] = ne <=> (k # n /\ m = k + 1)
        /\ \A m \in 1 .. n : c[m] = pr <=> (k # 1 /\ m = k - 1)
        /\ \A m \in 1 .. n : c[m] = i <=> m = k
    BY <1>0, <1>1, <1>2, <1>4, <1>5, <1>6
  <1>8. /\ u \in Tables /\ u.slots[i] = EmptySlot
        /\ u.heads[h] = IF pr = Null THEN ne ELSE t.heads[h]
        /\ \A j \in Slots \ {i} :
              /\ SameSlot(t, u, j)
              /\ u.slots[j].prev = IF j = ne THEN pr ELSE t.slots[j].prev
              /\ u.slots[j].next = IF j = pr THEN ne ELSE t.slots[j].next
    BY <1>0, UnlinkFields
  <1> HIDE DEF u, pr, ne, h, l
  <1>9. /\ l \in [1 .. n - 1 -> Slots]
        /\ \A m \in 1 .. n - 1 : /\ m < k => l[m] = c[m]
                                 /\ m >= k => l[m] = c[m + 1]
                                 /\ m \in 1 .. n /\ m + 1 \in 1 .. n
    BY <1>1, <1>3 DEF l
  <1>10. Distinct(n - 1, l)
    <2> SUFFICES ASSUME NEW a \in 1 .. n - 1, NEW b \in 1 .. n - 1, l[a] = l[b]
                 PROVE  a = b
      BY DEF Distinct
    <2>1. CASE a < k /\ b < k
      BY <1>5, <1>9, <2>1
    <2>2. CASE a < k /\ b >= k
      BY <1>3, <1>5, <1>9, <2>2
    <2>3. CASE a >= k /\ b < k
      BY <1>3, <1>5, <1>9, <2>3
    <2>4. CASE a >= k /\ b >= k
      <3>1. a + 1 = b + 1
        BY <1>5, <1>9, <2>4
      <3> QED
        BY <3>1
    <2> QED
      BY <1>3, <2>1, <2>2, <2>3, <2>4
  <1>11. Holds(u, h, n - 1, l)
    <2> SUFFICES ASSUME NEW x \in Slots
                 PROVE  (~IsFree(u, x) /\ u.slots[x].hash = h) <=> \E m \in 1 .. n - 1 : l[m] = x
      BY DEF Holds
    <2>1. CASE x = i
      <3>1. \A m \in 1 .. n - 1 : l[m] # i
        <4> TAKE m \in 1 .. n - 1
        <4>1. m < k => l[m] # i
          BY <1>3, <1>7, <1>9
        <4>2. m >= k => l[m] # i
          BY <1>3, <1>7, <1>9
        <4> QED
          BY <1>3, <4>1, <4>2
      <3>2. IsFree(u, i)
        BY <1>0, <1>8 DEF IsFree
      <3> QED
        BY <2>1, <3>1, <3>2
    <2>2. CASE x # i
      <3>1. (~IsFree(u, x) /\ u.slots[x].hash = h) <=> \E m \in 1 .. n : c[m] = x
        BY <1>1, <1>8, <2>2 DEF Holds, SameSlot, IsFree
      <3>2. ASSUME NEW m \in 1 .. n, c[m] = x
            PROVE  \E j \in 1 .. n - 1 : l[j] = x
        <4>1. CASE m < k
          <5>1. m \in 1 .. n - 1 /\ l[m] = c[m]
            BY <1>3, <1>9, <4>1
          <5> QED
            BY <3>2, <5>1
        <4>2. CASE m > k
          <5>1. m - 1 \in 1 .. n - 1 /\ l[m - 1] = c[m]
            BY <1>3, <1>9, <4>2
          <5> QED
            BY <3>2, <5>1
        <4>3. m # k
          BY <1>2, <2>2, <3>2
        <4> QED
          BY <1>3, <4>1, <4>2, <4>3
      <3>3. ASSUME NEW j \in 1 .. n - 1, l[j] = x
            PROVE  \E m \in 1 .. n : c[m] = x
        <4>1. CASE j < k
          BY <1>9, <3>3, <4>1
        <4>2. CASE j >= k
          BY <1>9, <3>3, <4>2
        <4> QED
          BY <1>3, <4>1, <4>2
      <3> QED
        BY <3>1, <3>2, <3>3
    <2> QED
      BY <2>1, <2>2
  <1>12. ASSUME NEW m \in 1 .. n, m # k
         PROVE  /\ u.slots[c[m]].prev = IF m = k + 1 THEN pr ELSE IF m = 1 THEN Null ELSE c[m - 1]
                /\ u.slots[c[m]].next = IF m = k - 1 THEN ne ELSE IF m = n THEN Null ELSE c[m + 1]
    <2>1. c[m] \in Slots \ {i}
      BY <1>1, <1>7, <1>12
    <2>2. /\ t.slots[c[m]].prev = IF m = 1 THEN Null ELSE c[m - 1]
          /\ t.slots[c[m]].next = IF m = n THEN Null ELSE c[m + 1]
      BY <1>1 DEF Linked
    <2>3. /\ c[m] = ne <=> m = k + 1
          /\ c[m] = pr <=> m = k - 1
      BY <1>3, <1>7
    <2> QED
      BY <1>8, <2>1, <2>2, <2>3
  <1>13. Linked(u, h, n - 1, l)
    <2>1. u.heads[h] = IF n - 1 = 0 THEN Null ELSE l[1]
      <3>1. CASE k = 1 /\ n = 1
        BY <1>4, <1>8, <3>1
      <3>2. CASE k = 1 /\ n # 1
        <4>1. 1 \in 1 .. n - 1 /\ l[1] = c[2] /\ n - 1 # 0
          BY <1>3, <1>9, <3>2
        <4>2. ne = c[2] /\ pr = Null
          BY <1>3, <1>4, <3>2
        <4> QED
          BY <1>8, <4>1, <4>2
      <3>3. CASE k # 1
        <4>1. 1 \in 1 .. n - 1 /\ l[1] = c[1] /\ n - 1 # 0 /\ n # 0
          BY <1>3, <1>9, <3>3
        <4>2. pr = c[k - 1] /\ pr # Null
          BY <1>0, <1>1, <1>4, <1>6, <3>3
        <4>3. t.heads[h] = c[1]
          BY <1>1, <4>1 DEF Linked
        <4> QED
          BY <1>8, <4>1, <4>2, <4>3
      <3> QED
        BY <3>1, <3>2, <3>3
    <2>2. ASSUME NEW m \in 1 .. n - 1
          PROVE  /\ u.slots[l[m]].prev = IF m = 1 THEN Null ELSE l[m - 1]
                 /\ u.slots[l[m]].next = IF m = n - 1 THEN Null ELSE l[m + 1]
      <3>1. CASE m < k - 1
        <4>1. /\ m \in 1 .. n /\ m # k /\ m # k + 1 /\ m # k - 1 /\ m # n /\ m # n - 1
              /\ l[m] = c[m] /\ l[m + 1] = c[m + 1]
              /\ m # 1 => l[m - 1] = c[m - 1]
          BY <1>3, <1>9, <3>1
        <4> QED
          BY <1>12, <4>1
      <3>2. CASE m = k - 1
        <4>1. m \in 1 .. n /\ m # k /\ m # k + 1 /\ (m = n - 1 <=> k = n)
          BY <1>3, <3>2
        <4>2. l[m] = c[m]
          BY <1>3, <1>9, <3>2
        <4>3. m # 1 => l[m - 1] = c[m - 1]
          BY <1>3, <1>9, <3>2
        <4>4. m # n - 1 => l[m + 1] = c[k + 1]
          <5> SUFFICES ASSUME m # n - 1
                       PROVE  l[m + 1] = c[k + 1]
            OBVIOUS
          <5>1. m + 1 \in 1 .. n - 1 /\ ~(m + 1 < k) /\ (m + 1) + 1 = k + 1
            BY <1>3, <3>2
          <5> QED
            BY <1>9, <5>1
        <4> QED
          BY <1>4, <1>12, <3>2, <4>1, <4>2, <4>3, <4>4
      <3>3. CASE m = k
        <4>1. /\ m + 1 \in 1 .. n /\ m + 1 # k /\ m + 1 # k - 1 /\ l[m] = c[m + 1]
              /\ m # 1 => l[m - 1] = c[k - 1]
              /\ m # n - 1 => l[m + 1] = c[m + 2]
              /\ m = n - 1 <=> m + 1 = n
              /\ (m + 1) + 1 = m + 2
          BY <1>3, <1>9, <3>3
        <4> QED
          BY <1>4, <1>12, <3>3, <4>1
      <3>4. CASE m > k
        <4>1. /\ m + 1 \in 1 .. n /\ m + 1 # k /\ m + 1 # k - 1 /\ m + 1 # k + 1 /\ m + 1 # 1
              /\ l[m] = c[m + 1] /\ m # 1
              /\ l[m - 1] = c[m]
              /\ m # n - 1 => l[m + 1] = c[m + 2]
              /\ m = n - 1 <=> m + 1 = n
              /\ (m + 1) + 1 = m + 2 /\ (m + 1) - 1 = m
          BY SMTT(30), <1>3, <1>9, <3>4
        <4> QED
          BY <1>12, <4>1
      <3> QED
        BY <1>3, <3>1, <3>2, <3>3, <3>4
    <2> QED
      BY <2>1, <2>2 DEF Linked
  <1>14. IsChain(u, h, n - 1, l)
    BY <1>3, <1>9, <1>10, <1>11, <1>13 DEF IsChain
  <1> QED
    BY <1>14 DEF u, h

LEMMA UnlinkGood ==
    ASSUME NEW t, Good(t), NEW i \in Slots, ~IsFree(t, i)
    PROVE  Good(Unlink(t, i))
  <1> DEFINE u == Unlink(t, i)
             h == t.slots[i].hash
  <1>1. t \in Tables /\ Chained(t) /\ Addressed(t) /\ Unshared(t)
    BY DEF Good
  <1>2. h \in Hashes /\ Null \notin Slots /\ EmptySlot.adr = NoAddress
    BY <1>1, ConstantFacts DEF Tables, Slot, EmptySlot
  <1>3. /\ u \in Tables /\ u.slots[i] = EmptySlot
        /\ \A g \in Hashes : u.heads[g] =
              IF t.slots[i].prev = Null /\ g = h THEN t.slots[i].next ELSE t.heads[g]
        /\ \A j \in Slots \ {i} :
              /\ SameSlot(t, u, j)
              /\ u.slots[j].prev =
                   IF j = t.slots[i].next THEN t.slots[i].prev ELSE t.slots[j].prev
              /\ u.slots[j].next =
                   IF j = t.slots[i].prev THEN t.slots[i].next ELSE t.slots[j].next
    BY <1>1, UnlinkFields
  <1>4. PICK n, c : IsChain(t, h, n, c)
    BY <1>1, <1>2 DEF Chained
  <1>5. \E l : IsChain(u, h, n - 1, l)
    BY <1>1, <1>4, UnlinkChain
  <1>6. ASSUME NEW j \in Slots, j = t.slots[i].prev \/ j = t.slots[i].next
        PROVE  t.slots[j].hash = h
    <2>1. /\ n \in Nat /\ c \in [1 .. n -> Slots] /\ Holds(t, h, n, c) /\ Linked(t, h, n, c)
      BY <1>4 DEF IsChain
    <2>2. PICK k \in 1 .. n : c[k] = i
      BY <2>1 DEF Holds
    <2>3. /\ t.slots[i].prev = IF k = 1 THEN Null ELSE c[k - 1]
          /\ t.slots[i].next = IF k = n THEN Null ELSE c[k + 1]
      BY <2>1, <2>2 DEF Linked
    <2>4. /\ k # 1 => k - 1 \in 1 .. n
          /\ k # n => k + 1 \in 1 .. n
      BY <2>1
    <2>5. \E m \in 1 .. n : c[m] = j
      BY <1>2, <1>6, <2>3, <2>4
    <2> QED
      BY <2>1, <2>5 DEF Holds
  <1> HIDE DEF u, h
  <1>7. IsFree(u, i)
    BY <1>2, <1>3 DEF IsFree
  <1>8. ASSUME NEW g \in Hashes, g # h
        PROVE  \E m, l : IsChain(u, g, m, l)
    <2>1. PICK m, l : IsChain(t, g, m, l)
      BY <1>1, <1>8 DEF Chained
    <2>2. u.heads[g] = t.heads[g]
      BY <1>3, <1>8
    <2>3. ASSUME NEW j \in Slots
          PROVE  \/ /\ SameSlot(t, u, j)
                    /\ \/ t.slots[j].hash # g
                       \/ /\ u.slots[j].prev = t.slots[j].prev
                          /\ u.slots[j].next = t.slots[j].next
                 \/ /\ IsFree(t, j) \/ t.slots[j].hash # g
                    /\ IsFree(u, j) \/ u.slots[j].hash # g
      <3>1. CASE j = i
        BY <1>7, <1>8, <3>1 DEF h
      <3>2. CASE j # i
        BY <1>3, <1>6, <1>8, <3>2
      <3> QED
        BY <3>1, <3>2
    <2>4. IsChain(u, g, m, l)
      BY <1>1, <1>3, <2>1, <2>2, <2>3, ChainKept
    <2> QED
      BY <2>4
  <1>9. Chained(u)
    BY <1>5, <1>8 DEF Chained
  <1>10. Addressed(u) /\ Unshared(u)
    <2>1. Addressed(u)
      BY <1>1, <1>3, <1>7 DEF Addressed, SameSlot, IsFree
    <2>2. ASSUME NEW j \in Slots, NEW k \in Slots, ~IsFree(u, j),
                 u.slots[j].adr = u.slots[k].adr
          PROVE  j = k
      <3>1. j # i /\ k # i
        BY <1>7, <2>2 DEF IsFree
      <3>2. SameSlot(t, u, j) /\ SameSlot(t, u, k)
        BY <1>3, <3>1
      <3> QED
        BY <1>1, <2>2, <3>2 DEF Unshared, SameSlot, IsFree
    <2> QED
      BY <2>1, <2>2 DEF Unshared
  <1> QED
    BY <1>3, <1>9, <1>10 DEF Good, u

(* A free slot becomes the head of a chain. *)
LEMMA PushChain ==
    ASSUME NEW t \in Tables, now \in Nat, NEW a \in Address, NEW i \in Slots, IsFree(t, i),
           NEW n, NEW c, IsChain(t, Hash[a], n, c)
    PROVE  \E l : IsChain(Push(t, i, a), Hash[a], n + 1, l)
  <1> DEFINE h == Hash[a]
             u == Push(t, i, a)
             l == [m \in 1 .. n + 1 |-> IF m = 1 THEN i ELSE c[m - 1]]
  <1>0. h \in Hashes /\ Null \notin Slots /\ a # NoAddress
    BY ConstantFacts
  <1>1. /\ n \in Nat /\ c \in [1 .. n -> Slots] /\ Distinct(n, c)
        /\ Holds(t, h, n, c) /\ Linked(t, h, n, c)
    BY DEF IsChain
  <1>2. \A m \in 1 .. n : c[m] # i
    BY <1>1 DEF Holds
  <1>3. /\ u \in Tables /\ u.heads[h] = i
        /\ u.slots[i].adr = a /\ u.slots[i].hash = h
        /\ u.slots[i].prev = Null /\ u.slots[i].next = t.heads[h]
        /\ \A j \in Slots \ {i} :
              /\ SameSlot(t, u, j)
              /\ u.slots[j].prev = IF j = t.heads[h] THEN i ELSE t.slots[j].prev
              /\ u.slots[j].next = t.slots[j].next
    <2>1. /\ u \in Tables /\ u.slots[i] = NewSlot(t, a)
          /\ \A g \in Hashes : u.heads[g] = IF g = h THEN i ELSE t.heads[g]
          /\ \A j \in Slots \ {i} :
                /\ SameSlot(t, u, j)
                /\ u.slots[j].prev = IF j = t.heads[h] THEN i ELSE t.slots[j].prev
                /\ u.slots[j].next = t.slots[j].next
      BY <1>0, PushFields
    <2> HIDE DEF u
    <2> QED
      BY <1>0, <2>1, NewSlotFields
  <1> HIDE DEF u, h
  <1>4. /\ l \in [1 .. n + 1 -> Slots] /\ l[1] = i /\ n + 1 \in Nat /\ 1 \in 1 .. n + 1
        /\ \A m \in 1 .. n : l[m + 1] = c[m] /\ m + 1 \in 1 .. n + 1
        /\ \A m \in 1 .. n + 1 : m # 1 => m - 1 \in 1 .. n /\ l[m] = c[m - 1]
    BY <1>1
  <1> HIDE DEF l
  <1>5. Distinct(n + 1, l)
    <2> SUFFICES ASSUME NEW p \in 1 .. n + 1, NEW q \in 1 .. n + 1, l[p] = l[q]
                 PROVE  p = q
      BY DEF Distinct
    <2>1. CASE p = 1 \/ q = 1
      BY <1>2, <1>4, <2>1
    <2>2. CASE p # 1 /\ q # 1
      <3>1. p - 1 = q - 1
        BY <1>1, <1>4, <2>2 DEF Distinct
      <3> QED
        BY <1>1, <3>1
    <2> QED
      BY <2>1, <2>2
  <1>6. Holds(u, h, n + 1, l)
    <2> SUFFICES ASSUME NEW x \in Slots
                 PROVE  (~IsFree(u, x) /\ u.slots[x].hash = h) <=> \E m \in 1 .. n + 1 : l[m] = x
      BY DEF Holds
    <2>1. CASE x = i
      BY <1>0, <1>3, <1>4, <2>1 DEF IsFree
    <2>2. CASE x # i
      <3>1. (~IsFree(u, x) /\ u.slots[x].hash = h) <=> \E m \in 1 .. n : c[m] = x
        BY <1>1, <1>3, <2>2 DEF Holds, SameSlot, IsFree
      <3>2. (\E m \in 1 .. n : c[m] = x) <=> (\E m \in 1 .. n + 1 : l[m] = x)
        BY <1>4, <2>2
      <3> QED
        BY <3>1, <3>2
    <2> QED
      BY <2>1, <2>2
  <1>7. ASSUME NEW m \in 1 .. n
        PROVE  /\ u.slots[c[m]].prev = IF m = 1 THEN i ELSE c[m - 1]
               /\ u.slots[c[m]].next = IF m = n THEN Null ELSE c[m + 1]
    <2>1. c[m] \in Slots \ {i}
      BY <1>1, <1>2
    <2>2. /\ t.slots[c[m]].prev = IF m = 1 THEN Null ELSE c[m - 1]
          /\ t.slots[c[m]].next = IF m = n THEN Null ELSE c[m + 1]
          /\ t.heads[h] = c[1]
      BY <1>1 DEF Linked
    <2>3. c[m] = c[1] <=> m = 1
      BY <1>1 DEF Distinct
    <2> QED
      BY <1>3, <2>1, <2>2, <2>3
  <1>8. Linked(u, h, n + 1, l)
    <2>1. u.heads[h] = IF n + 1 = 0 THEN Null ELSE l[1]
      BY <1>1, <1>3, <1>4
    <2>2. ASSUME NEW m \in 1 .. n + 1
          PROVE  /\ u.slots[l[m]].prev = IF m = 1 THEN Null ELSE l[m - 1]
                 /\ u.slots[l[m]].next = IF m = n + 1 THEN Null ELSE l[m + 1]
      <3>1. CASE m = 1
        <4>1. l[m] = i /\ u.slots[i].prev = Null
          BY <1>3, <1>4, <3>1
        <4>2. t.heads[h] = IF n = 0 THEN Null ELSE c[1]
          BY <1>1 DEF Linked
        <4>3. n # 0 => l[2] = c[1]
          BY <1>1, <1>4
        <4>4. m = n + 1 <=> n = 0
          BY <1>1, <3>1
        <4> QED
          BY <1>3, <3>1, <4>1, <4>2, <4>3, <4>4
      <3>2. CASE m # 1
        <4>1. /\ m - 1 \in 1 .. n /\ l[m] = c[m - 1]
              /\ m - 1 # 1 => l[m - 1] = c[(m - 1) - 1]
              /\ m - 1 = 1 => l[m - 1] = i
              /\ m # n + 1 => l[m + 1] = c[(m - 1) + 1]
              /\ m = n + 1 <=> m - 1 = n
          BY <1>1, <1>4, <3>2
        <4> QED
          BY <1>7, <3>2, <4>1
      <3> QED
        BY <3>1, <3>2
    <2> QED
      BY <2>1, <2>2 DEF Linked
  <1>9. IsChain(u, h, n + 1, l)
    BY <1>4, <1>5, <1>6, <1>8 DEF IsChain
  <1> QED
    BY <1>9 DEF u, h

LEMMA PushGood ==
    ASSUME NEW t, Good(t), now \in Nat, NEW a \in Address, NEW i \in Slots, IsFree(t, i),
           \A j \in Slots : t.slots[j].adr # a
    PROVE  Good(Push(t, i, a))
  <1> DEFINE u == Push(t, i, a)
             h == Hash[a]
  <1>1. t \in Tables /\ Chained(t) /\ Addressed(t) /\ Unshared(t)
    BY DEF Good
  <1>2. h \in Hashes /\ Null \notin Slots /\ a # NoAddress
    BY ConstantFacts
  <1>3. /\ u \in Tables
        /\ u.slots[i].adr = a /\ u.slots[i].hash = h
        /\ \A g \in Hashes : u.heads[g] = IF g = h THEN i ELSE t.heads[g]
        /\ \A j \in Slots \ {i} :
              /\ SameSlot(t, u, j)
              /\ u.slots[j].prev = IF j = t.heads[h] THEN i ELSE t.slots[j].prev
              /\ u.slots[j].next = t.slots[j].next
    <2>1. /\ u \in Tables /\ u.slots[i] = NewSlot(t, a)
          /\ \A g \in Hashes : u.heads[g] = IF g = h THEN i ELSE t.heads[g]
          /\ \A j \in Slots \ {i} :
                /\ SameSlot(t, u, j)
                /\ u.slots[j].prev = IF j = t.heads[h] THEN i ELSE t.slots[j].prev
                /\ u.slots[j].next = t.slots[j].next
      BY <1>1, PushFields
    <2> HIDE DEF u
    <2> QED
      BY <1>1, <2>1, NewSlotFields
  <1>4. PICK n, c : IsChain(t, h, n, c)
    BY <1>1, <1>2 DEF Chained
  <1>5. \E l : IsChain(u, h, n + 1, l)
    BY <1>1, <1>4, PushChain
  <1>6. ASSUME NEW j \in Slots, j = t.heads[h]
        PROVE  t.slots[j].hash = h
    <2>1. /\ n \in Nat /\ Holds(t, h, n, c) /\ Linked(t, h, n, c)
      BY <1>4 DEF IsChain
    <2>2. \E m \in 1 .. n : c[m] = j
      BY <1>2, <1>6, <2>1 DEF Linked
    <2> QED
      BY <2>1, <2>2 DEF Holds
  <1> HIDE DEF u, h
  <1>7. ASSUME NEW g \in Hashes, g # h
        PROVE  \E m, l : IsChain(u, g, m, l)
    <2>1. PICK m, l : IsChain(t, g, m, l)
      BY <1>1, <1>7 DEF Chained
    <2>2. u.heads[g] = t.heads[g]
      BY <1>3, <1>7
    <2>3. ASSUME NEW j \in Slots
          PROVE  \/ /\ SameSlot(t, u, j)
                    /\ \/ t.slots[j].hash # g
                       \/ /\ u.slots[j].prev = t.slots[j].prev
                          /\ u.slots[j].next = t.slots[j].next
                 \/ /\ IsFree(t, j) \/ t.slots[j].hash # g
                    /\ IsFree(u, j) \/ u.slots[j].hash # g
      <3>1. CASE j = i
        BY <1>3, <1>7, <3>1
      <3>2. CASE j # i
        BY <1>3, <1>6, <1>7, <3>2
      <3> QED
        BY <3>1, <3>2
    <2>4. IsChain(u, g, m, l)
      BY <1>1, <1>3, <2>1, <2>2, <2>3, ChainKept
    <2> QED
      BY <2>4
  <1>8. Chained(u)
    BY <1>5, <1>7 DEF Chained
  <1>9. Addressed(u)
    <2> SUFFICES ASSUME NEW j \in Slots, ~IsFree(u, j)
                 PROVE  u.slots[j].hash = Hash[u.slots[j].adr]
      BY DEF Addressed
    <2>1. CASE j = i
      BY <1>3, <2>1 DEF h
    <2>2. CASE j # i
      BY <1>1, <1>3, <2>2 DEF Addressed, SameSlot, IsFree
    <2> QED
      BY <2>1, <2>2
  <1>10. Unshared(u)
    <2> SUFFICES ASSUME NEW j \in Slots, NEW k \in Slots, ~IsFree(u, j),
                        u.slots[j].adr = u.slots[k].adr
                 PROVE  j = k
      BY DEF Unshared
    <2>1. \A x \in Slots \ {i} : u.slots[x].adr = t.slots[x].adr /\ u.slots[x].adr # a
      BY <1>3 DEF SameSlot
    <2>2. CASE j = i \/ k = i
      BY <1>3, <2>1, <2>2
    <2>3. CASE j # i /\ k # i
      BY <1>1, <2>1, <2>3 DEF Unshared, IsFree
    <2> QED
      BY <2>2, <2>3
  <1> QED
    BY <1>3, <1>8, <1>9, <1>10 DEF Good, u

----------------------------------------------------------------------------
(* A chain is no longer than the table. *)
LEMMA ChainFits ==
    ASSUME NEW t, NEW h, NEW n, NEW c, IsChain(t, h, n, c)
    PROVE  n <= NumSlots
  <1>1. n \in Nat /\ NumSlots \in Nat /\ c \in [1 .. n -> Slots] /\ Distinct(n, c)
    BY ConstantFacts DEF IsChain
  <1>2. c \in Injection(1 .. n, Slots)
    BY <1>1 DEF Distinct, Injection, IsInjective
  <1>3. IsFiniteSet(Slots) /\ Cardinality(Slots) = NumSlots /\ Cardinality(1 .. n) = n
    BY <1>1, FS_Interval DEF Slots
  <1> QED
    BY <1>2, <1>3, FS_Injection

(* Where the walk along a chain is after k steps. *)
LEMMA WalkFacts ==
    ASSUME NEW t, NEW h \in Hashes, NEW n, NEW c, IsChain(t, h, n, c)
    PROVE  /\ DOMAIN Walk(t, h) = 0 .. NumSlots
           /\ \A k \in 0 .. NumSlots : Walk(t, h)[k] = IF k < n THEN c[k + 1] ELSE Null
  <1> DEFINE Step(at) == [k \in 0 .. NumSlots |->
                            IF k = 0 THEN t.heads[h]
                            ELSE IF at[k - 1] = Null THEN Null
                            ELSE t.slots[at[k - 1]].next]
             w == [k \in 0 .. NumSlots |-> IF k < n THEN c[k + 1] ELSE Null]
             W == Walk(t, h)
  <1>1. /\ n \in Nat /\ NumSlots \in Nat /\ c \in [1 .. n -> Slots] /\ Null \notin Slots
        /\ Linked(t, h, n, c)
    BY ConstantFacts DEF IsChain
  <1>2. ASSUME NEW k \in 0 .. NumSlots
        PROVE  w[k] = IF k = 0 THEN t.heads[h]
                      ELSE IF w[k - 1] = Null THEN Null ELSE t.slots[w[k - 1]].next
    <2>1. CASE k = 0
      BY <1>1, <2>1 DEF Linked
    <2>2. CASE k # 0
      <3>1. k - 1 \in 0 .. NumSlots
        BY <1>1, <2>2
      <3>2. CASE k - 1 < n
        <4>1. k \in 1 .. n /\ w[k - 1] = c[k] /\ c[k] \in Slots
          BY <1>1, <2>2, <3>1, <3>2
        <4>2. t.slots[c[k]].next = IF k = n THEN Null ELSE c[k + 1]
          BY <1>1, <4>1 DEF Linked
        <4>3. w[k] = IF k = n THEN Null ELSE c[k + 1]
          BY <1>1, <4>1
        <4> QED
          BY <1>1, <2>2, <4>1, <4>2, <4>3
      <3>3. CASE ~(k - 1 < n)
        BY <1>1, <2>2, <3>1, <3>3
      <3> QED
        BY <3>2, <3>3
    <2> QED
      BY <2>1, <2>2
  <1>3. w = Step(w)
    BY <1>2
  <1>4. W = CHOOSE at : at = Step(at)
    BY DEF Walk
  <1> HIDE DEF w, Step, W
  <1>5. W = Step(W)
    BY <1>3, <1>4
  <1>7. DOMAIN W = 0 .. NumSlots
    BY <1>5 DEF Step
  <1> DEFINE Wrong == {k \in 0 .. NumSlots : W[k] # w[k]}
  <1>6. ASSUME Wrong # {}
        PROVE  FALSE
    <2>1. Wrong \in SUBSET Nat
      BY <1>1
    <2>2. PICK k \in Wrong : \A j \in Wrong : k <= j
      BY <1>6, <2>1, Least
    <2>3. k \in 0 .. NumSlots /\ W[k] # w[k]
      BY <2>2
    <2>4. W[k] = IF k = 0 THEN t.heads[h]
                 ELSE IF W[k - 1] = Null THEN Null ELSE t.slots[W[k - 1]].next
      BY <1>5, <2>3 DEF Step
    <2>5. k # 0 => W[k - 1] = w[k - 1]
      <3>1. k # 0 => k - 1 \in 0 .. NumSlots /\ ~(k <= k - 1)
        BY <1>1, <2>3
      <3> QED
        BY <2>2, <3>1
    <2> QED
      BY <1>2, <2>3, <2>4, <2>5
  <1> QED
    BY <1>6, <1>7 DEF w, W

(* TableConsistent, from the chains. *)
LEMMA GoodIsConsistent == Good(table) => TableConsistent
  <1> SUFFICES ASSUME Good(table)
               PROVE  TableConsistent
    OBVIOUS
  <1>1. table \in Tables /\ Chained(table) /\ Addressed(table) /\ Unshared(table)
    BY DEF Good
  <1>2. NumSlots \in Nat \ {0} /\ Null \notin Slots
    BY ConstantFacts
  <1>3. ASSUME NEW h \in Hashes
        PROVE  /\ Walk(table, h)[NumSlots] = Null
               /\ \A k \in 0 .. NumSlots - 1 :
                    Walk(table, h)[k] # Null =>
                       /\ ~IsFree(table, Walk(table, h)[k])
                       /\ Hash[table.slots[Walk(table, h)[k]].adr] = h
                       /\ table.slots[Walk(table, h)[k]].prev =
                            IF k = 0 THEN Null ELSE Walk(table, h)[k - 1]
    <2>1. PICK n, c : IsChain(table, h, n, c)
      BY <1>1 DEF Chained
    <2>2. /\ n \in Nat /\ c \in [1 .. n -> Slots]
          /\ Holds(table, h, n, c) /\ Linked(table, h, n, c)
      BY <2>1 DEF IsChain
    <2>3. n <= NumSlots
      BY <2>1, ChainFits
    <2>4. \A k \in 0 .. NumSlots : Walk(table, h)[k] = IF k < n THEN c[k + 1] ELSE Null
      BY <2>1, WalkFacts
    <2>5. Walk(table, h)[NumSlots] = Null
      BY <1>2, <2>2, <2>3, <2>4
    <2>6. ASSUME NEW k \in 0 .. NumSlots - 1, Walk(table, h)[k] # Null
          PROVE  /\ ~IsFree(table, Walk(table, h)[k])
                 /\ Hash[table.slots[Walk(table, h)[k]].adr] = h
                 /\ table.slots[Walk(table, h)[k]].prev =
                      IF k = 0 THEN Null ELSE Walk(table, h)[k - 1]
      <3>1. k \in 0 .. NumSlots /\ k < n /\ k + 1 \in 1 .. n
        BY <1>2, <2>2, <2>4, <2>6
      <3>2. Walk(table, h)[k] = c[k + 1] /\ c[k + 1] \in Slots
        BY <2>2, <2>4, <3>1
      <3>3. ~IsFree(table, c[k + 1]) /\ table.slots[c[k + 1]].hash = h
        BY <2>2, <3>1, <3>2 DEF Holds
      <3>4. table.slots[c[k + 1]].prev = IF k + 1 = 1 THEN Null ELSE c[(k + 1) - 1]
        BY <2>2, <3>1 DEF Linked
      <3>5. k # 0 => Walk(table, h)[k - 1] = c[k]
        <4>1. k # 0 => k - 1 \in 0 .. NumSlots /\ k - 1 < n /\ (k - 1) + 1 = k
          BY <1>2, <2>2, <3>1
        <4> QED
          BY <2>4, <4>1
      <3>6. (k + 1 = 1 <=> k = 0) /\ (k + 1) - 1 = k
        BY <3>1
      <3> QED
        BY <1>1, <3>2, <3>3, <3>4, <3>5, <3>6 DEF Addressed
    <2> QED
      BY <2>5, <2>6
  <1>4. ASSUME NEW i \in Slots, ~IsFree(table, i)
        PROVE  /\ table.slots[i].hash = Hash[table.slots[i].adr]
               /\ \E k \in 0 .. NumSlots : Walk(table, table.slots[i].hash)[k] = i
               /\ \A j \in Slots \ {i} : table.slots[j].adr # table.slots[i].adr
    <2> DEFINE h == table.slots[i].hash
    <2>1. h \in Hashes
      BY <1>1 DEF Tables, Slot
    <2>2. PICK n, c : IsChain(table, h, n, c)
      BY <1>1, <2>1 DEF Chained
    <2>3. PICK m \in 1 .. n : c[m] = i
      BY <1>4, <2>2 DEF IsChain, Holds
    <2>4. n \in Nat /\ n <= NumSlots
      BY <2>2, ChainFits DEF IsChain
    <2>5. m - 1 \in 0 .. NumSlots /\ m - 1 < n /\ (m - 1) + 1 = m
      BY <1>2, <2>4
    <2>6. Walk(table, h)[m - 1] = i
      BY <2>1, <2>2, <2>3, <2>5, WalkFacts
    <2> QED
      BY <1>1, <1>4, <2>5, <2>6 DEF Addressed, Unshared
  <1> QED
    BY <1>3, <1>4 DEF TableConsistent

(* The lookup finds the slot of an address when it has one. *)
LEMMA LookupFacts ==
    ASSUME NEW t, Good(t), NEW a \in Address
    PROVE  \/ /\ Lookup(t, a) = Null
              /\ \A i \in Slots : t.slots[i].adr # a
           \/ Lookup(t, a) \in Slots /\ t.slots[Lookup(t, a)].adr = a
  <1> DEFINE h == Hash[a]
             walk == Walk(t, h)
             hits == {k \in DOMAIN walk : walk[k] # Null /\ t.slots[walk[k]].adr = a}
  <1>1. /\ t \in Tables /\ Chained(t) /\ Addressed(t) /\ Unshared(t)
        /\ h \in Hashes /\ a # NoAddress /\ Null \notin Slots /\ NumSlots \in Nat
    BY ConstantFacts DEF Good
  <1>2. PICK n, c : IsChain(t, h, n, c)
    BY <1>1 DEF Chained
  <1>3. /\ n \in Nat /\ c \in [1 .. n -> Slots] /\ Distinct(n, c) /\ Holds(t, h, n, c)
        /\ n <= NumSlots
    BY <1>2, ChainFits DEF IsChain
  <1>4. \A k \in 0 .. NumSlots : walk[k] = IF k < n THEN c[k + 1] ELSE Null
    BY <1>1, <1>2, WalkFacts
  <1>5. DOMAIN walk = 0 .. NumSlots
    BY <1>1, <1>2, WalkFacts
  <1>6. Lookup(t, a) = IF hits = {} THEN Null
                       ELSE walk[CHOOSE k \in hits : \A j \in hits : k <= j]
    BY DEF Lookup
  <1> HIDE DEF walk, h
  <1>7. CASE hits = {}
    <2>1. ASSUME NEW i \in Slots, t.slots[i].adr = a
          PROVE  FALSE
      <3>1. ~IsFree(t, i) /\ t.slots[i].hash = h
        BY <1>1, <2>1 DEF Addressed, IsFree, h
      <3>2. PICK k \in 1 .. n : c[k] = i
        BY <1>3, <3>1 DEF Holds
      <3>3. k - 1 \in 0 .. NumSlots /\ k - 1 < n /\ (k - 1) + 1 = k
        BY <1>1, <1>3
      <3>4. k - 1 \in hits
        BY <1>1, <1>4, <1>5, <2>1, <3>2, <3>3
      <3> QED
        BY <1>7, <3>4
    <2> QED
      BY <1>6, <1>7, <2>1
  <1>8. CASE hits # {}
    <2>1. hits \in SUBSET Nat
      BY <1>1, <1>5
    <2>2. \E k \in hits : \A j \in hits : k <= j
      BY <1>8, <2>1, Least
    <2>3. PICK k \in hits : Lookup(t, a) = walk[k]
      BY <1>6, <1>8, <2>2
    <2>4. walk[k] # Null /\ t.slots[walk[k]].adr = a /\ k \in 0 .. NumSlots
      BY <1>5, <2>3
    <2>5. walk[k] \in Slots
      BY <1>3, <1>4, <2>4
    <2> QED
      BY <2>3, <2>4, <2>5
  <1> QED
    BY <1>7, <1>8

(* A bucket is charged in its slot. *)
LEMMA SetBucketGood ==
    ASSUME NEW t, Good(t), NEW i \in Slots, NEW b \in BucketsTo(AuthorizeLimit)
    PROVE  /\ Good([t EXCEPT !.slots[i].bucket = b])
           /\ [t EXCEPT !.slots[i].bucket = b].slots[i].adr = t.slots[i].adr
           /\ [t EXCEPT !.slots[i].bucket = b].slots[i].bucket = b
           /\ \A j \in Slots \ {i} : SameSlot(t, [t EXCEPT !.slots[i].bucket = b], j)
  <1> DEFINE u == [t EXCEPT !.slots[i].bucket = b]
             s == [t.slots[i] EXCEPT !.bucket = b]
  <1>1. t \in Tables /\ Chained(t) /\ Addressed(t) /\ Unshared(t)
    BY DEF Good
  <1>2. /\ s \in Slot /\ s.adr = t.slots[i].adr /\ s.hash = t.slots[i].hash
        /\ s.prev = t.slots[i].prev /\ s.next = t.slots[i].next /\ s.bucket = b
    <2>1. t.slots[i] \in Slot
      BY <1>1 DEF Tables
    <2> QED
      BY <2>1 DEF Slot
  <1>3. u = [t EXCEPT !.slots[i] = s]
    BY <1>1 DEF Tables
  <1> HIDE DEF s, u
  <1>4. /\ u \in Tables /\ u.heads = t.heads
        /\ \A j \in Slots : u.slots[j] = IF j = i THEN s ELSE t.slots[j]
    BY <1>1, <1>2, <1>3, SetSlotFacts
  <1>5. /\ u.slots[i].bucket = b
        /\ \A j \in Slots : /\ u.slots[j].adr = t.slots[j].adr
                            /\ u.slots[j].hash = t.slots[j].hash
                            /\ u.slots[j].prev = t.slots[j].prev
                            /\ u.slots[j].next = t.slots[j].next
                            /\ j # i => u.slots[j].bucket = t.slots[j].bucket
    BY <1>2, <1>4
  <1>6. Chained(u)
    <2> SUFFICES ASSUME NEW h \in Hashes
                 PROVE  \E n, c : IsChain(u, h, n, c)
      BY DEF Chained
    <2>1. PICK n, c : IsChain(t, h, n, c)
      BY <1>1 DEF Chained
    <2>2. Holds(u, h, n, c)
      BY <1>5, <2>1 DEF IsChain, Holds, IsFree
    <2>3. Linked(u, h, n, c)
      BY <1>4, <1>5, <2>1 DEF IsChain, Linked
    <2> QED
      BY <2>1, <2>2, <2>3 DEF IsChain
  <1>7. Addressed(u) /\ Unshared(u)
    BY <1>1, <1>5 DEF Addressed, Unshared, IsFree
  <1> QED
    BY <1>4, <1>5, <1>6, <1>7 DEF Good, SameSlot, u

----------------------------------------------------------------------------
(* SVC_BucketForAddress: no slot could be had, the address has one, or it   *)
(* is given one that was free or unused for long enough.                    *)
NoSlot(t, a, limit, r) ==
    /\ r.slot = Null /\ r.table = t /\ Candidates(t, limit) = {}
    /\ \A i \in Slots : t.slots[i].adr # a

OldSlot(t, a, r) == r.slot \in Slots /\ r.table = t /\ t.slots[r.slot].adr = a

FreshSlot(t, a, limit, r) ==
    /\ r.slot \in Slots /\ r.slot \in Candidates(t, limit)
    /\ \A i \in Slots : t.slots[i].adr # a
    /\ r.table.slots[r.slot].adr = a
    /\ r.table.slots[r.slot].bucket = [lastTime |-> now, burst |-> 0]
    /\ \A j \in Slots \ {r.slot} : SameSlot(t, r.table, j)

LEMMA BucketForFacts ==
    ASSUME NEW t, Good(t), now \in Nat, NEW a \in Address, NEW limit
    PROVE  /\ Good(BucketForAddress(t, a, limit).table)
           /\ \/ NoSlot(t, a, limit, BucketForAddress(t, a, limit))
              \/ OldSlot(t, a, BucketForAddress(t, a, limit))
              \/ FreshSlot(t, a, limit, BucketForAddress(t, a, limit))
  <1> DEFINE found == Lookup(t, a)
             cands == Candidates(t, limit)
             i == CHOOSE j \in cands : \A k \in cands : j <= k
             cleared == IF IsFree(t, i) THEN t ELSE Unlink(t, i)
             r == BucketForAddress(t, a, limit)
             full == [table |-> t, slot |-> Null]
             old == [table |-> t, slot |-> found]
             fresh == [table |-> Push(cleared, i, a), slot |-> i]
  <1>0. Null \notin Slots /\ t \in Tables
    BY ConstantFacts DEF Good
  <1>1. /\ found # Null => r = old
        /\ found = Null /\ cands = {} => r = full
        /\ found = Null /\ cands # {} => r = fresh
    BY DEF BucketForAddress
  <1>2. \/ found = Null /\ \A j \in Slots : t.slots[j].adr # a
        \/ found \in Slots /\ t.slots[found].adr = a
    BY LookupFacts
  <1> HIDE DEF r, found, cands
  <1>3. CASE found # Null
    <2>1. r = old
      BY <1>1, <1>3
    <2>2. r.table = t /\ r.slot = found
      BY <2>1
    <2>3. OldSlot(t, a, r)
      BY <1>2, <1>3, <2>2 DEF OldSlot
    <2> QED
      BY <2>2, <2>3 DEF r
  <1>4. CASE found = Null /\ cands = {}
    <2>1. r = full
      BY <1>1, <1>4
    <2>2. r.table = t /\ r.slot = Null
      BY <2>1
    <2>3. NoSlot(t, a, limit, r)
      BY <1>0, <1>2, <1>4, <2>2 DEF NoSlot, cands
    <2> QED
      BY <2>2, <2>3 DEF r
  <1>5. CASE found = Null /\ cands # {}
    <2>1. r = fresh
      BY <1>1, <1>5
    <2>2. r.table = Push(cleared, i, a) /\ r.slot = i
      BY <2>1
    <2>3. cands \in SUBSET Nat /\ cands \subseteq Slots
      BY DEF cands, Candidates, Slots
    <2>4. \E j \in cands : \A k \in cands : j <= k
      BY <1>5, <2>3, Least
    <2>5. i \in cands /\ i \in Slots
      BY <2>3, <2>4
    <2> HIDE DEF i
    <2>6. /\ Good(cleared) /\ IsFree(cleared, i)
          /\ \A j \in Slots \ {i} : SameSlot(t, cleared, j)
      <3>1. CASE IsFree(t, i)
        BY <3>1 DEF SameSlot
      <3>2. CASE ~IsFree(t, i)
        <4>1. cleared = Unlink(t, i)
          BY <3>2
        <4>2. Good(Unlink(t, i))
          BY <2>5, <3>2, UnlinkGood
        <4>3. /\ Unlink(t, i).slots[i] = EmptySlot
              /\ \A j \in Slots \ {i} : SameSlot(t, Unlink(t, i), j)
          BY <1>0, <2>5, UnlinkFields
        <4> QED
          BY <4>1, <4>2, <4>3 DEF IsFree, EmptySlot
      <3> QED
        BY <3>1, <3>2
    <2>7. \A j \in Slots : t.slots[j].adr # a
      BY <1>0, <1>2, <1>5
    <2>8. \A j \in Slots : cleared.slots[j].adr # a
      <3>1. a # NoAddress
        BY ConstantFacts
      <3> QED
        BY <2>5, <2>6, <2>7, <3>1 DEF SameSlot, IsFree
    <2> HIDE DEF cleared
    <2>9. Good(Push(cleared, i, a))
      BY <2>5, <2>6, <2>8, PushGood
    <2>10. cleared \in Tables
      BY <2>6 DEF Good
    <2>11. /\ Push(cleared, i, a).slots[i] = NewSlot(cleared, a)
           /\ \A j \in Slots \ {i} : SameSlot(cleared, Push(cleared, i, a), j)
      BY <2>5, <2>10, PushFields
    <2>12. \A j \in Slots \ {i} : SameSlot(t, Push(cleared, i, a), j)
      BY <2>6, <2>11 DEF SameSlot
    <2>13. FreshSlot(t, a, limit, r)
      BY <2>2, <2>5, <2>7, <2>11, <2>12, NewSlotFields DEF FreshSlot, cands
    <2> QED
      BY <2>2, <2>9, <2>13 DEF r
  <1> QED
    BY <1>3, <1>4, <1>5

----------------------------------------------------------------------------
(* SVC_RateLimitAddress.  A request of an address without a slot that gets  *)
(* one is never refused.                                                    *)
LimitSet == {AddressLimit, AuthorizeLimit}

RefusedFull(a, limit, r) ==
    /\ r.limited /\ r.table = table /\ Candidates(table, limit) = {}
    /\ \A i \in Slots : table.slots[i].adr # a

ChargedOld(a, limit, r, i) ==
    /\ table.slots[i].adr = a /\ r.table.slots[i].adr = a
    /\ r.limited = Limited(table.slots[i].bucket, limit, Period, now)
    /\ r.table.slots[i].bucket = Charge(table.slots[i].bucket, limit, Period, now)
    /\ \A j \in Slots \ {i} : SameSlot(table, r.table, j)

ChargedFresh(a, limit, r, i) ==
    /\ i \in Candidates(table, limit)
    /\ \A j \in Slots : table.slots[j].adr # a
    /\ ~r.limited /\ r.table.slots[i].adr = a
    /\ r.table.slots[i].bucket = [lastTime |-> now, burst |-> 1]
    /\ \A j \in Slots \ {i} : SameSlot(table, r.table, j)

LEMMA LimitFacts ==
    ASSUME NEW limit \in LimitSet
    PROVE  /\ limit \in Nat \ {0} /\ limit \in 0 .. AuthorizeLimit
           /\ limit * Period \in Nat /\ limit * Period < IntHalf
  <1>1. limit \in Nat \ {0} /\ limit <= AuthorizeLimit
    BY ConstantFacts DEF LimitSet
  <1>2. /\ AuthorizeLimit \in Nat /\ Period \in Nat \ {0}
        /\ (AuthorizeLimit + 1) * Period <= IntHalf /\ IntHalf \in Nat
    BY ConstantFacts, IntHalfAssumption
  <1>3. /\ limit * Period <= AuthorizeLimit * Period
        /\ (AuthorizeLimit + 1) * Period = AuthorizeLimit * Period + Period
        /\ limit * Period \in Int /\ AuthorizeLimit * Period \in Int
        /\ 0 * Period <= limit * Period
    BY <1>1, <1>2, Multiples
  <1> QED
    BY <1>1, <1>2, <1>3

(* The first request of a fresh bucket. *)
LEMMA FirstCharge ==
    ASSUME NEW limit \in LimitSet, now \in Nat
    PROVE  /\ ~Limited([lastTime |-> now, burst |-> 0], limit, Period, now)
           /\ Charge([lastTime |-> now, burst |-> 0], limit, Period, now)
                = [lastTime |-> now, burst |-> 1]
  <1> DEFINE b == [lastTime |-> now, burst |-> 0]
  <1>1. Period \in Nat \ {0} /\ limit \in Nat \ {0} /\ IntHalf \in Nat \ {0}
    BY ConstantFacts, LimitFacts, IntHalfAssumption
  <1>2. Interval(b, now) = 0
    <2>1. ToInt(0) = 0
      BY <1>1, ToIntRange
    <2> QED
      BY <2>1 DEF Interval
  <1>3. 0 \div Period = 0 /\ 0 % Period = 0
    BY <1>1
  <1>4. Settle(b, Period, now) = b
    BY <1>2, <1>3 DEF Settle, Drained
  <1> QED
    BY <1>1, <1>4 DEF Limited, Charge

LEMMA RateLimitFacts ==
    ASSUME Good(table), now \in Nat, NEW a \in Address, NEW limit \in LimitSet
    PROVE  /\ Good(RateLimitAddress(a, limit).table)
           /\ \/ RefusedFull(a, limit, RateLimitAddress(a, limit))
              \/ \E i \in Slots : \/ ChargedOld(a, limit, RateLimitAddress(a, limit), i)
                                  \/ ChargedFresh(a, limit, RateLimitAddress(a, limit), i)
  <1> DEFINE r == BucketForAddress(table, a, limit)
             i == r.slot
             b == r.table.slots[i].bucket
             c == Charge(b, limit, Period, now)
             v == Limited(b, limit, Period, now)
             u == [r.table EXCEPT !.slots[i].bucket = c]
             s == RateLimitAddress(a, limit)
  <1>1. /\ i = Null => s = [table |-> r.table, limited |-> TRUE]
        /\ i # Null => s = [table |-> u, limited |-> v]
    BY DEF RateLimitAddress
  <1>2. /\ Good(r.table)
        /\ \/ NoSlot(table, a, limit, r) \/ OldSlot(table, a, r)
           \/ FreshSlot(table, a, limit, r)
    BY BucketForFacts
  <1>3. Null \notin Slots
    BY ConstantFacts
  <1> HIDE DEF s, r
  <1>4. CASE NoSlot(table, a, limit, r)
    <2>1. s = [table |-> r.table, limited |-> TRUE]
      BY <1>1, <1>4 DEF NoSlot
    <2>2. s.table = r.table /\ s.limited
      BY <2>1
    <2>3. RefusedFull(a, limit, s)
      BY <1>4, <2>2 DEF NoSlot, RefusedFull
    <2> QED
      BY <1>2, <2>2, <2>3 DEF s
  <1>5. ASSUME i \in Slots
        PROVE  /\ s.limited = v /\ Good(s.table) /\ s.table.slots[i].bucket = c
               /\ s.table.slots[i].adr = r.table.slots[i].adr
               /\ \A j \in Slots \ {i} : SameSlot(r.table, s.table, j)
    <2>1. r.table.slots[i] \in Slot
      BY <1>2, <1>5 DEF Good, Tables
    <2>2. b \in BucketsTo(AuthorizeLimit)
      BY <2>1 DEF Slot
    <2>3. c \in BucketsTo(AuthorizeLimit)
      <3>1. /\ AuthorizeLimit \in Nat /\ Period \in Nat \ {0} /\ now \in Int
            /\ (AuthorizeLimit + 1) * Period <= IntHalf /\ limit \in 0 .. AuthorizeLimit
        BY LimitFacts, ConstantFacts
      <3> HIDE DEF b
      <3> QED
        BY <2>2, <3>1, Charging
    <2> HIDE DEF c, v, i
    <2>4. /\ Good(u) /\ u.slots[i].adr = r.table.slots[i].adr /\ u.slots[i].bucket = c
          /\ \A j \in Slots \ {i} : SameSlot(r.table, u, j)
      BY SMTT(30), <1>2, <1>5, <2>3, SetBucketGood
    <2>5. s = [table |-> u, limited |-> v]
      BY <1>1, <1>3, <1>5
    <2>6. s.table = u /\ s.limited = v
      BY <2>5
    <2> QED
      BY <2>4, <2>6
  <1>6. CASE OldSlot(table, a, r)
    <2>1. ChargedOld(a, limit, s, i)
      BY <1>5, <1>6 DEF OldSlot, ChargedOld
    <2> QED
      BY <1>5, <1>6, <2>1 DEF OldSlot, s
  <1>7. CASE FreshSlot(table, a, limit, r)
    <2>1. /\ i \in Slots /\ i \in Candidates(table, limit)
          /\ \A j \in Slots : table.slots[j].adr # a
          /\ r.table.slots[i].adr = a
          /\ b = [lastTime |-> now, burst |-> 0]
          /\ \A j \in Slots \ {i} : SameSlot(table, r.table, j)
      BY <1>7 DEF FreshSlot
    <2>2. ~v /\ c = [lastTime |-> now, burst |-> 1]
      BY <2>1, FirstCharge
    <2> HIDE DEF b, c, v, i
    <2>3. \A j \in Slots \ {i} : SameSlot(table, s.table, j)
      BY <1>5, <2>1 DEF SameSlot
    <2>4. ChargedFresh(a, limit, s, i)
      BY <1>5, <2>1, <2>2, <2>3 DEF ChargedFresh
    <2> QED
      BY <1>5, <2>1, <2>4 DEF s
  <1> QED
    BY <1>2, <1>4, <1>6, <1>7

----------------------------------------------------------------------------
(* The inductive invariant. *)
IInv == /\ now \in Nat /\ Good(table)
        /\ outbound \in AnyBucket(OutLimit) /\ rconBucket \in AnyBucket(AddressLimit)
        /\ verdict \in Verdicts

(* What a step is: five handlers differ in the limit only.                  *)
LEMMA Steps ==
    ASSUME [Next]_vars
    PROVE  \/ \E a \in Address, limit \in LimitSet : LimitReply(a, limit)
           \/ \E a \in Address, bad \in BOOLEAN : RemoteCommand(a, bad)
           \/ Tick
           \/ StepBack
           \/ UNCHANGED vars
  <1>1. AddressLimit \in LimitSet /\ AuthorizeLimit \in LimitSet
    BY DEF LimitSet
  <1>2. ASSUME NEW a \in Address,
               \/ GetChallenge(a) \/ DirectConnect(a) \/ AuthorizeIpPacket(a)
               \/ Info(a) \/ Status(a)
        PROVE  \E limit \in LimitSet : LimitReply(a, limit)
    BY <1>1, <1>2 DEF GetChallenge, DirectConnect, AuthorizeIpPacket, Info, Status
  <1> QED
    BY <1>2, Zenon DEF Next

(* A bucket charged at the lower limit only fits an int too.                *)
LEMMA AddressLimitFits == (AddressLimit + 1) * Period <= IntHalf
  <1>1. Period \in Nat \ {0}
    BY ConstantFacts
  <1>2. (AddressLimit + 1) * Period <= (AuthorizeLimit + 1) * Period
    <2> DEFINE x == AddressLimit + 1
               y == AuthorizeLimit + 1
    <2>1. x \in Int /\ y \in Int /\ x <= y
      BY ConstantFacts
    <2> HIDE DEF x, y
    <2>2. x * Period <= y * Period
      BY <1>1, <2>1, Multiples
    <2> QED
      BY <2>2 DEF x, y
  <1>3. /\ (AddressLimit + 1) * Period \in Int /\ (AuthorizeLimit + 1) * Period \in Int
        /\ IntHalf \in Int /\ (AuthorizeLimit + 1) * Period <= IntHalf
    <2>1. AddressLimit + 1 \in Int /\ AuthorizeLimit + 1 \in Int
      BY ConstantFacts
    <2> QED
      BY <1>1, <2>1, Multiples, ConstantFacts, IntHalfAssumption
  <1> QED
    BY <1>2, <1>3

(* The shared buckets keep their bound. *)
LEMMA SharedBuckets ==
    ASSUME IInv
    PROVE  /\ Charge(outbound, OutLimit, OutPeriod, now) \in AnyBucket(OutLimit)
           /\ Charge(rconBucket, AddressLimit, Period, now) \in AnyBucket(AddressLimit)
  <1>1. /\ OutLimit \in Nat /\ OutPeriod \in Nat \ {0} /\ (OutLimit + 1) * OutPeriod <= IntHalf
        /\ OutLimit \in 0 .. OutLimit
    BY LimitsAssumption
  <1>2. /\ AddressLimit \in Nat /\ Period \in Nat \ {0} /\ AddressLimit \in 0 .. AddressLimit
        /\ AddressLimit \in LimitSet
    BY ConstantFacts DEF LimitSet
  <1>3. (AddressLimit + 1) * Period <= IntHalf
    BY AddressLimitFits
  <1>4. /\ now \in Int /\ outbound \in BucketsTo(OutLimit)
        /\ rconBucket \in BucketsTo(AddressLimit)
    BY DEF IInv, AnyBucket, BucketsTo
  <1>5. Charge(outbound, OutLimit, OutPeriod, now) \in BucketsTo(OutLimit)
    BY <1>1, <1>4, Charging
  <1>6. Charge(rconBucket, AddressLimit, Period, now) \in BucketsTo(AddressLimit)
    BY <1>2, <1>3, <1>4, Charging
  <1> QED
    BY <1>5, <1>6 DEF AnyBucket, BucketsTo

LEMMA InitGood == Init => IInv
  <1> SUFFICES ASSUME Init
               PROVE  IInv
    OBVIOUS
  <1> DEFINE t == [slots |-> [i \in Slots |-> EmptySlot], heads |-> [h \in Hashes |-> Null]]
  <1>1. now \in Nat
    BY LimitsAssumption DEF Init
  <1>2. outbound \in AnyBucket(OutLimit) /\ rconBucket \in AnyBucket(AddressLimit)
    BY LimitsAssumption DEF Init, ZeroBucket, AnyBucket
  <1>3. Null \in Pointer /\ EmptySlot \in Slot
    BY ConstantFacts DEF Pointer
  <1>4. t \in Tables
    BY <1>3 DEF Tables
  <1>5. \A i \in Slots : IsFree(t, i)
    BY DEF IsFree, EmptySlot
  <1>6. \A h \in Hashes : t.heads[h] = Null
    OBVIOUS
  <1> HIDE DEF t
  <1>7. ASSUME NEW h \in Hashes
        PROVE  IsChain(t, h, 0, [k \in 1 .. 0 |-> k])
    <2>1. [k \in 1 .. 0 |-> k] \in [1 .. 0 -> Slots]
      OBVIOUS
    <2> QED
      BY <1>5, <1>6, <2>1 DEF IsChain, Distinct, Holds, Linked
  <1>8. Good(t)
    BY <1>4, <1>5, <1>7 DEF Good, Chained, Addressed, Unshared
  <1> QED
    BY <1>1, <1>2, <1>8 DEF IInv, Init, Verdicts, t

LEMMA NextGood == IInv /\ [Next]_vars => IInv'
  <1> SUFFICES ASSUME IInv, [Next]_vars
               PROVE  IInv'
    OBVIOUS
  <1>1. now \in Nat /\ Good(table)
    BY DEF IInv
  <1>2. AddressLimit \in LimitSet
    BY DEF LimitSet
  <1>3. ASSUME NEW a \in Address, NEW limit \in LimitSet, LimitReply(a, limit)
        PROVE  IInv'
    <2>1. Good(table')
      BY <1>1, <1>3, RateLimitFacts DEF LimitReply
    <2>2. outbound' \in AnyBucket(OutLimit)
      BY <1>3, SharedBuckets DEF LimitReply, IInv
    <2> QED
      BY <1>3, <2>1, <2>2 DEF LimitReply, IInv, Verdicts
  <1>4. ASSUME NEW a \in Address, NEW bad \in BOOLEAN, RemoteCommand(a, bad)
        PROVE  IInv'
    <2>1. Good(table')
      BY <1>1, <1>2, <1>4, RateLimitFacts DEF RemoteCommand
    <2>2. rconBucket' \in AnyBucket(AddressLimit)
      BY <1>4, SharedBuckets DEF RemoteCommand, IInv
    <2> QED
      BY <1>4, <2>1, <2>2 DEF RemoteCommand, IInv, Verdicts
  <1>5. CASE Tick
    BY <1>1, <1>5 DEF Tick, IInv, Verdicts
  <1>6. CASE StepBack
    <2>1. now' \in Nat
      BY <1>1, <1>6, LimitsAssumption DEF StepBack
    <2> QED
      BY <1>6, <2>1 DEF StepBack, IInv, Verdicts
  <1>7. CASE UNCHANGED vars
    BY <1>7 DEF vars, IInv
  <1> QED
    BY <1>3, <1>4, <1>5, <1>6, <1>7, Steps

LEMMA Inductive == Spec => []IInv
  BY InitGood, NextGood, PTL DEF Spec

(* Type correctness of the table, the shared buckets and the clock. *)
THEOREM TypeCorrect == Spec => []TypeOK
  <1>1. IInv => TypeOK
    <2> SUFFICES ASSUME IInv
                 PROVE  TypeOK
      OBVIOUS
    <2>1. table.slots \in [Slots -> Slot] /\ table.heads \in [Hashes -> Pointer]
      BY DEF IInv, Good, Tables
    <2> QED
      BY <2>1 DEF IInv, TypeOK, Slot, BucketsTo, AnyBucket
  <1> QED
    BY <1>1, Inductive, PTL

(* The chains thread the table after any packets whatever the clock does:   *)
(* SVC_BucketForAddress takes slots off and puts them on at any place of a  *)
(* chain, and the lookup ends and finds the one slot an address has.        *)
THEOREM TableIsConsistent == Spec => []TableConsistent
  <1>1. IInv => TableConsistent
    BY GoodIsConsistent DEF IInv
  <1> QED
    BY <1>1, Inductive, PTL

----------------------------------------------------------------------------
(* What an address owes, for a table and a time. *)
Owed(t, n, i) ==
    IF EmptyAt(t.slots[i].bucket, Period) - n < -Period THEN -Period
    ELSE EmptyAt(t.slots[i].bucket, Period) - n

DebtIn(t, n, a) ==
    IF {i \in Slots : t.slots[i].adr = a} = {} THEN -Period
    ELSE LET b == t.slots[CHOOSE i \in {i \in Slots : t.slots[i].adr = a} : TRUE].bucket
             owed == EmptyAt(b, Period) - n
         IN IF owed < -Period THEN -Period ELSE owed

LEMMA DebtFacts ==
    ASSUME NEW t, Good(t), NEW n, NEW a \in Address
    PROVE  /\ \A i \in Slots : t.slots[i].adr = a => DebtIn(t, n, a) = Owed(t, n, i)
           /\ (\A i \in Slots : t.slots[i].adr # a) => DebtIn(t, n, a) = -Period
  <1> DEFINE S == {i \in Slots : t.slots[i].adr = a}
             j == CHOOSE i \in S : TRUE
  <1>1. a # NoAddress /\ Unshared(t)
    BY ConstantFacts DEF Good
  <1>2. DebtIn(t, n, a) = IF S = {} THEN -Period ELSE Owed(t, n, j)
    BY DEF DebtIn, Owed
  <1>3. ASSUME NEW i \in Slots, t.slots[i].adr = a
        PROVE  S # {} /\ j = i
    <2>1. i \in S
      BY <1>3
    <2>2. j \in S
      BY <2>1
    <2>3. j \in Slots /\ t.slots[j].adr = a
      BY <2>2
    <2> QED
      BY <1>1, <1>3, <2>1, <2>3 DEF Unshared, IsFree
  <1> QED
    BY <1>2, <1>3

LEMMA DebtIsDebtIn == \A a : Debt(a) = DebtIn(table, now, a)
  BY DEF Debt, DebtIn, SlotsOf


----------------------------------------------------------------------------
(* A clock that may be set back at any time and by any amount and shows     *)
(* less than 2^31 milliseconds, 24 days, or one that is never set back and  *)
(* shows less than 2^32, 49 days: an int that holds the age of a bucket     *)
(* does not begin again.                                                    *)
TimelyClock ==
    /\ MaxNow \in Nat /\ StartTimes \subseteq 0 .. MaxNow
    /\ MaxNow <= IntHalf \/ (StepSizes = {} /\ MaxNow < 2 * IntHalf)

InReach(l) == l \in 0 .. MaxNow /\ (StepSizes = {} => l <= now)

Dated == /\ now \in 0 .. MaxNow
         /\ InReach(outbound.lastTime) /\ InReach(rconBucket.lastTime)
         /\ \A i \in Slots : ~IsFree(table, i) => InReach(table.slots[i].bucket.lastTime)

(* The stamp of a bucket is not ahead of the clock, nor behind it by as     *)
(* much as makes the int begin again.                                       *)
Legible(l) == now - l \in 0 .. (2 * IntHalf - 1)

(* The clock was set back behind the stamp.                                 *)
Early(l) == l \in (now + 1) .. (now + IntHalf)

LEMMA ReachFacts ==
    ASSUME TimelyClock, now \in 0 .. MaxNow, NEW l, InReach(l)
    PROVE  /\ l \in Nat
           /\ Legible(l) \/ Early(l)
  <1>1. IntHalf \in Nat \ {0} /\ l \in 0 .. MaxNow /\ MaxNow \in Nat /\ now \in 0 .. MaxNow
    BY IntHalfAssumption DEF TimelyClock, InReach
  <1>2. CASE MaxNow <= IntHalf
    BY <1>1, <1>2 DEF Legible, Early
  <1>3. CASE l <= now /\ MaxNow < 2 * IntHalf
    BY <1>1, <1>3 DEF Legible
  <1> QED
    BY <1>1, <1>2, <1>3 DEF TimelyClock, InReach

(* A request of a bucket with a legible stamp: refused, the bucket empties  *)
(* when it would have; let through, a period later than it would have or,   *)
(* if that was a period ago, a period from now.                             *)
LEMMA ChargeLegible ==
    ASSUME NEW max \in Nat, NEW period \in Nat \ {0}, (max + 1) * period <= IntHalf,
           NEW limit \in 1 .. max, NEW b \in BucketsTo(max), now \in Nat,
           b.lastTime \in Nat, Legible(b.lastTime)
    PROVE  LET c == Charge(b, limit, period, now)
           IN  /\ c.lastTime \in 0 .. now
               /\ \/ /\ Limited(b, limit, period, now)
                     /\ EmptyAt(c, period) = EmptyAt(b, period)
                     /\ EmptyAt(b, period) - now > (limit - 1) * period
                  \/ /\ ~Limited(b, limit, period, now)
                     /\ EmptyAt(b, period) - now <= -period
                     /\ EmptyAt(c, period) = now + period
                  \/ /\ ~Limited(b, limit, period, now)
                     /\ EmptyAt(c, period) = EmptyAt(b, period) + period
  <1> DEFINE c == Charge(b, limit, period, now)
             s == Settle(b, period, now)
  <1>1. /\ b \in BucketsTo(max) /\ now \in Int /\ b.lastTime \in 0 .. now
        /\ now - b.lastTime \in 0 .. (2 * IntHalf - 1) /\ EmptyAt(b, period) \in Int
    <2>1. IntHalf \in Nat
      BY IntHalfAssumption
    <2> QED
      BY <2>1, EmptyAtType DEF Legible
  <1>2. limit \in 0 .. max /\ limit \in Nat \ {0}
    OBVIOUS
  <1>3. (limit - 1) * period \in Int /\ limit * period = (limit - 1) * period + period
    <2> DEFINE m == limit - 1
    <2>1. m \in Int /\ limit = m + 1
      BY <1>2
    <2> HIDE DEF m
    <2>2. m * period \in Int /\ (m + 1) * period = m * period + period
      BY <2>1, Multiples
    <2> QED
      BY <2>1, <2>2 DEF m
  <1>4. /\ s \in BucketsTo(max)
        /\ s.lastTime \in b.lastTime .. now
        /\ s.lastTime \in (now - (period - 1)) .. now
        /\ \/ s = [lastTime |-> now, burst |-> 0] /\ EmptyAt(b, period) <= now - period
           \/ EmptyAt(s, period) = EmptyAt(b, period) /\ EmptyAt(b, period) > now - period
    BY <1>1, Settling, SettlingExactly
  <1>5. /\ Limited(b, limit, period, now) => c = s
        /\ ~Limited(b, limit, period, now) =>
              EmptyAt(c, period) = EmptyAt(s, period) + period
    <2>1. Limited(b, limit, period, now) => c = s
      BY <1>1, <1>2, Charging
    <2>2. ASSUME ~Limited(b, limit, period, now)
          PROVE  EmptyAt(c, period) = EmptyAt(s, period) + period
      BY <1>1, <1>2, <2>2, Charging
    <2> QED
      BY <2>1, <2>2
  <1>6. Limited(b, limit, period, now) <=> s.burst >= limit
    BY DEF Limited
  <1>7. c.lastTime = s.lastTime
    BY <1>1, <1>4 DEF Charge, BucketsTo
  <1>8. s.burst \in Int /\ s.lastTime \in Int /\ EmptyAt(s, period) = s.lastTime + s.burst * period
    BY <1>4 DEF BucketsTo, EmptyAt
  <1> HIDE DEF c, s
  <1>9. c.lastTime \in 0 .. now
    BY <1>1, <1>4, <1>7
  <1>10. s.burst * period \in Int
    BY <1>8, Multiples
  <1>11. CASE s.burst >= limit
    <2>1. limit * period <= s.burst * period
      BY <1>2, <1>8, <1>11, Multiples
    <2>2. s # [lastTime |-> now, burst |-> 0]
      BY <1>2, <1>11
    <2>3. EmptyAt(b, period) - now > (limit - 1) * period
      BY <1>1, <1>2, <1>3, <1>4, <1>8, <1>10, <2>1, <2>2
    <2> QED
      BY <1>4, <1>5, <1>6, <1>9, <1>11, <2>2, <2>3 DEF c
  <1>12. CASE ~(s.burst >= limit)
    <2>1. ~Limited(b, limit, period, now) /\ EmptyAt(c, period) = EmptyAt(s, period) + period
      BY <1>5, <1>6, <1>12
    <2>2. CASE s = [lastTime |-> now, burst |-> 0] /\ EmptyAt(b, period) <= now - period
      <3>1. EmptyAt(s, period) = now
        BY <1>1, <2>2 DEF EmptyAt
      <3>2. EmptyAt(b, period) - now <= -period /\ EmptyAt(c, period) = now + period
        BY <1>1, <2>1, <2>2, <3>1
      <3> QED
        BY <1>9, <2>1, <3>2 DEF c
    <2>3. CASE EmptyAt(s, period) = EmptyAt(b, period) /\ EmptyAt(b, period) > now - period
      BY <1>9, <2>1, <2>3 DEF c
    <2> QED
      BY <1>4, <2>2, <2>3
  <1> QED
    BY <1>11, <1>12

(* A request of a bucket the clock was set back behind empties it first.    *)
LEMMA ChargeEarly ==
    ASSUME now \in Nat, NEW limit \in Nat \ {0}, NEW period, NEW b,
           b.lastTime \in Int, Early(b.lastTime)
    PROVE  /\ b.lastTime > 0 /\ Interval(b, now) < 0
           /\ ~Limited(b, limit, period, now)
           /\ Charge(b, limit, period, now) = [lastTime |-> now, burst |-> 1]
  <1> DEFINE x == now - b.lastTime
  <1>1. IntHalf \in Nat \ {0}
    BY IntHalfAssumption
  <1>2. b.lastTime > 0 /\ x \in (0 - IntHalf) .. (0 - 1)
    BY <1>1 DEF Early
  <1>3. Interval(b, now) = x
    BY <1>2, ToIntBelow DEF Interval
  <1> HIDE DEF x
  <1>4. Interval(b, now) < 0
    BY <1>1, <1>2, <1>3
  <1>5. Settle(b, period, now) = [lastTime |-> now, burst |-> 0]
    BY <1>4 DEF Settle, Drained
  <1>6. ~Limited(b, limit, period, now)
    BY <1>1, <1>5 DEF Limited
  <1>7. Charge(b, limit, period, now) = [lastTime |-> now, burst |-> 1]
    BY <1>5, <1>6 DEF Charge
  <1> QED
    BY <1>2, <1>4, <1>6, <1>7

(* Either way the new stamp is within reach.                                *)
LEMMA ChargeReach ==
    ASSUME NEW max \in Nat, NEW period \in Nat \ {0}, (max + 1) * period <= IntHalf,
           NEW limit \in 1 .. max, NEW b \in BucketsTo(max),
           TimelyClock, now \in 0 .. MaxNow, InReach(b.lastTime)
    PROVE  Charge(b, limit, period, now).lastTime \in 0 .. now
  <1>1. now \in Nat /\ b.lastTime \in Nat /\ limit \in Nat \ {0} /\ MaxNow \in Nat
    BY ReachFacts DEF TimelyClock
  <1>2. CASE Legible(b.lastTime)
    BY <1>1, <1>2, ChargeLegible
  <1>3. CASE Early(b.lastTime)
    <2>1. Charge(b, limit, period, now) = [lastTime |-> now, burst |-> 1]
      BY <1>1, <1>3, ChargeEarly
    <2> QED
      BY <1>1, <2>1
  <1> QED
    BY <1>2, <1>3, ReachFacts

----------------------------------------------------------------------------
(* The limits of the table and of the two shared buckets.                   *)
LEMMA LimitsFit ==
    /\ \A limit \in LimitSet : limit \in 1 .. AuthorizeLimit
    /\ AuthorizeLimit \in Nat /\ (AuthorizeLimit + 1) * Period <= IntHalf
    /\ AddressLimit \in 1 .. AddressLimit /\ (AddressLimit + 1) * Period <= IntHalf
    /\ OutLimit \in 1 .. OutLimit /\ (OutLimit + 1) * OutPeriod <= IntHalf
    /\ AddressLimit \in Nat /\ OutLimit \in Nat
    /\ Period \in Nat \ {0} /\ OutPeriod \in Nat \ {0}
  BY LimitsAssumption, LimitFacts, AddressLimitFits

LEMMA BucketTypes ==
    ASSUME IInv
    PROVE  /\ outbound \in BucketsTo(OutLimit) /\ rconBucket \in BucketsTo(AddressLimit)
           /\ \A i \in Slots : table.slots[i].bucket \in BucketsTo(AuthorizeLimit)
           /\ now \in Nat
  <1>1. \A i \in Slots : table.slots[i] \in Slot
    BY DEF IInv, Good, Tables
  <1> QED
    BY <1>1 DEF IInv, AnyBucket, BucketsTo, Slot

(* The requests of a step as SVC_RateLimitAddress sees them.                *)
LEMMA DatedRequest ==
    ASSUME IInv, TimelyClock, Dated, NEW a \in Address, NEW limit \in LimitSet,
           NEW i \in Slots, ~IsFree(RateLimitAddress(a, limit).table, i)
    PROVE  InReach(RateLimitAddress(a, limit).table.slots[i].bucket.lastTime)
  <1> DEFINE r == RateLimitAddress(a, limit)
  <1>0. /\ Good(table) /\ now \in Nat /\ now \in 0 .. MaxNow /\ a # NoAddress
        /\ MaxNow \in Nat
    BY ConstantFacts DEF IInv, Dated, TimelyClock
  <1>1. \/ RefusedFull(a, limit, r)
        \/ \E j \in Slots : ChargedOld(a, limit, r, j) \/ ChargedFresh(a, limit, r, j)
    BY <1>0, RateLimitFacts
  <1>2. ~IsFree(r.table, i)
    OBVIOUS
  <1> SUFFICES InReach(r.table.slots[i].bucket.lastTime)
    OBVIOUS
  <1> HIDE DEF r
  <1>3. ASSUME SameSlot(table, r.table, i)
        PROVE  InReach(r.table.slots[i].bucket.lastTime)
    BY <1>2, <1>3 DEF SameSlot, IsFree, Dated
  <1>4. ASSUME r.table.slots[i].bucket.lastTime \in 0 .. now
        PROVE  InReach(r.table.slots[i].bucket.lastTime)
    BY <1>0, <1>4 DEF InReach
  <1>5. CASE RefusedFull(a, limit, r)
    BY <1>3, <1>5 DEF RefusedFull, SameSlot
  <1>6. ASSUME NEW j \in Slots, ChargedOld(a, limit, r, j)
        PROVE  InReach(r.table.slots[i].bucket.lastTime)
    <2>1. CASE i = j
      <3>1. InReach(table.slots[i].bucket.lastTime)
        BY <1>0, <1>6, <2>1 DEF ChargedOld, IsFree, Dated
      <3>2. r.table.slots[i].bucket.lastTime \in 0 .. now
        BY <1>0, <1>6, <2>1, <3>1, BucketTypes, LimitsFit, ChargeReach DEF ChargedOld
      <3> QED
        BY <1>4, <3>2
    <2>2. CASE i # j
      BY <1>3, <1>6, <2>2 DEF ChargedOld
    <2> QED
      BY <2>1, <2>2
  <1>7. ASSUME NEW j \in Slots, ChargedFresh(a, limit, r, j)
        PROVE  InReach(r.table.slots[i].bucket.lastTime)
    <2>1. CASE i = j
      <3>1. r.table.slots[i].bucket.lastTime \in 0 .. now
        BY <1>0, <1>7, <2>1 DEF ChargedFresh
      <3> QED
        BY <1>4, <3>1
    <2>2. CASE i # j
      BY <1>3, <1>7, <2>2 DEF ChargedFresh
    <2> QED
      BY <2>1, <2>2
  <1> QED
    BY <1>1, <1>5, <1>6, <1>7

LEMMA DatedInit == TimelyClock /\ Init => Dated
  <1> SUFFICES ASSUME TimelyClock, Init
               PROVE  Dated
    OBVIOUS
  <1>1. \A i \in Slots : IsFree(table, i)
    BY DEF Init, IsFree, EmptySlot
  <1>2. now \in 0 .. MaxNow /\ MaxNow \in Nat
    BY DEF Init, TimelyClock
  <1>3. outbound.lastTime = 0 /\ rconBucket.lastTime = 0
    BY DEF Init, ZeroBucket
  <1> QED
    BY <1>1, <1>2, <1>3 DEF Dated, InReach

LEMMA DatedNext == TimelyClock /\ IInv /\ Dated /\ [Next]_vars => Dated'
  <1> SUFFICES ASSUME TimelyClock, IInv, Dated, [Next]_vars
               PROVE  Dated'
    OBVIOUS
  <1>1. now \in 0 .. MaxNow /\ MaxNow \in Nat /\ AddressLimit \in LimitSet
    BY DEF Dated, TimelyClock, LimitSet
  <1>2. /\ InReach(Charge(outbound, OutLimit, OutPeriod, now).lastTime)
        /\ InReach(Charge(rconBucket, AddressLimit, Period, now).lastTime)
    <2>1. Charge(outbound, OutLimit, OutPeriod, now).lastTime \in 0 .. now
      BY <1>1, BucketTypes, LimitsFit, ChargeReach DEF Dated
    <2>2. Charge(rconBucket, AddressLimit, Period, now).lastTime \in 0 .. now
      BY <1>1, BucketTypes, LimitsFit, ChargeReach DEF Dated
    <2> QED
      BY <1>1, <2>1, <2>2 DEF InReach
  <1>3. ASSUME NEW a \in Address, NEW limit \in LimitSet, LimitReply(a, limit)
        PROVE  Dated'
    BY <1>2, <1>3, DatedRequest DEF LimitReply, Dated, InReach
  <1>4. ASSUME NEW a \in Address, NEW bad \in BOOLEAN, RemoteCommand(a, bad)
        PROVE  Dated'
    BY <1>1, <1>2, <1>4, DatedRequest DEF RemoteCommand, Dated, InReach
  <1>5. CASE Tick
    <2>1. now' \in 0 .. MaxNow /\ now' = now + 1 /\ now \in Int
      BY <1>1, <1>5 DEF Tick
    <2>2. ASSUME NEW l, InReach(l)
          PROVE  l \in 0 .. MaxNow /\ (StepSizes = {} => l <= now')
      BY <1>1, <2>1, <2>2 DEF InReach
    <2> QED
      BY <1>5, <2>1, <2>2 DEF Tick, Dated, InReach, IsFree
  <1>6. CASE StepBack
    <2>1. StepSizes \subseteq Nat
      BY LimitsAssumption
    <2>2. PICK d \in StepSizes : d <= now /\ now' = now - d
      BY <1>6 DEF StepBack
    <2>3. now' \in 0 .. MaxNow /\ StepSizes # {}
      BY <1>1, <2>1, <2>2
    <2> QED
      BY <1>6, <2>3 DEF StepBack, Dated, InReach, IsFree
  <1>7. CASE UNCHANGED vars
    BY <1>7 DEF vars, Dated, InReach, IsFree
  <1> QED
    BY <1>3, <1>4, <1>5, <1>6, <1>7, Steps

LEMMA DatedAlways ==
    ASSUME TimelyClock
    PROVE  Spec => []Dated
  BY DatedInit, DatedNext, Inductive, PTL DEF Spec

----------------------------------------------------------------------------
(* Refusals for the sake of the address.                                    *)
LEMMA RefusalDue ==
    ASSUME TimelyClock, IInv, Dated
    PROVE  NoFalseRefusal
  <1> SUFFICES ASSUME NEW a \in Address, NEW limit \in LimitSet,
                      RateLimitAddress(a, limit).limited
               PROVE  /\ SlotsOf(a) # {} => Debt(a) > (limit - 1) * Period
                      /\ SlotsOf(a) = {} =>
                           \A i \in Slots :
                             LET stamp == table.slots[i].bucket.lastTime
                             IN  /\ ~IsFree(table, i)
                                 /\ stamp = 0 \/ now - stamp \in 0 .. limit * Period
    BY DEF NoFalseRefusal, LimitSet
  <1> DEFINE r == RateLimitAddress(a, limit)
  <1>1. /\ Good(table) /\ now \in Nat /\ a # NoAddress /\ now \in 0 .. MaxNow
        /\ Period \in Nat \ {0} /\ limit \in Nat \ {0} /\ limit * Period \in Nat
        /\ limit * Period < IntHalf /\ IntHalf \in Nat \ {0}
    BY ConstantFacts, LimitFacts, IntHalfAssumption DEF IInv, Dated
  <1>2. \/ RefusedFull(a, limit, r)
        \/ \E i \in Slots : ChargedOld(a, limit, r, i) \/ ChargedFresh(a, limit, r, i)
    BY <1>1, RateLimitFacts
  <1>3. CASE RefusedFull(a, limit, r)
    <2>1. SlotsOf(a) = {}
      BY <1>3 DEF RefusedFull, SlotsOf
    <2>2. ASSUME NEW i \in Slots
          PROVE  LET stamp == table.slots[i].bucket.lastTime
                 IN  /\ ~IsFree(table, i)
                     /\ stamp = 0 \/ now - stamp \in 0 .. limit * Period
      <3> DEFINE b == table.slots[i].bucket
                 x == now - b.lastTime
      <3>1. ~IsFree(table, i) /\ ~Reclaimable(table, i, limit)
        BY <1>3 DEF RefusedFull, Candidates
      <3>2. b.lastTime \in Nat /\ (Legible(b.lastTime) \/ Early(b.lastTime))
        BY <1>1, <3>1, ReachFacts DEF Dated
      <3>3. CASE b.lastTime = 0
        BY <3>1, <3>3
      <3>4. CASE b.lastTime # 0
        <4>1. ~(Interval(b, now) > limit * Period) /\ ~(Interval(b, now) < 0)
          BY <3>1, <3>4 DEF Reclaimable
        <4>2. ASSUME Early(b.lastTime)
              PROVE  FALSE
          <5>1. b.lastTime \in Int /\ limit \in Nat \ {0} /\ now \in Nat
            BY <1>1, <3>2
          <5> HIDE DEF b
          <5>2. Interval(b, now) < 0
            BY <4>2, <5>1, ChargeEarly
          <5> QED
            BY <4>1, <5>2
        <4>3. x \in 0 .. (2 * IntHalf - 1) /\ Interval(b, now) = ToInt(x)
          BY <3>2, <4>2 DEF Legible, Interval
        <4> HIDE DEF b, x
        <4>4. CASE x < IntHalf
          <5>1. x \in 0 .. (IntHalf - 1) /\ x \in Int
            BY <1>1, <4>3, <4>4
          <5>2. ToInt(x) = x
            BY <5>1, ToIntRange
          <5> QED
            BY <1>1, <3>1, <4>1, <4>3, <5>1, <5>2 DEF b, x
        <4>5. CASE ~(x < IntHalf)
          <5>1. x \in IntHalf .. (2 * IntHalf - 1)
            BY <1>1, <4>3, <4>5
          <5>2. ToInt(x) = x - 2 * IntHalf
            BY <5>1, ToIntWraps
          <5> QED
            BY <1>1, <4>1, <4>3, <5>1, <5>2
        <4> QED
          BY <4>4, <4>5
      <3> QED
        BY <3>3, <3>4
    <2> QED
      BY <2>1, <2>2
  <1>4. ASSUME NEW i \in Slots, ChargedOld(a, limit, r, i)
        PROVE  SlotsOf(a) # {} /\ Debt(a) > (limit - 1) * Period
    <2> DEFINE b == table.slots[i].bucket
    <2>1. /\ table.slots[i].adr = a /\ ~IsFree(table, i)
          /\ Limited(b, limit, Period, now)
      BY <1>1, <1>4 DEF ChargedOld, IsFree
    <2>2. b \in BucketsTo(AuthorizeLimit) /\ b.lastTime \in Nat /\ EmptyAt(b, Period) \in Int
      BY <1>1, <2>1, BucketTypes, ReachFacts, LimitsFit, EmptyAtType DEF Dated
    <2>3. Legible(b.lastTime)
      BY <1>1, <2>1, <2>2, ReachFacts, ChargeEarly DEF Dated
    <2>4. EmptyAt(b, Period) - now > (limit - 1) * Period
      BY <1>1, <2>1, <2>2, <2>3, LimitsFit, ChargeLegible
    <2>5. Debt(a) = Owed(table, now, i)
      BY <1>1, <2>1, DebtFacts, DebtIsDebtIn
    <2>6. (limit - 1) * Period >= 0 /\ (limit - 1) * Period \in Int
      <3> DEFINE m == limit - 1
      <3>1. m \in Int /\ 0 <= m
        BY <1>1
      <3> HIDE DEF m
      <3>2. 0 * Period <= m * Period /\ m * Period \in Int
        BY <1>1, <3>1, Multiples
      <3> QED
        BY <1>1, <3>2 DEF m
    <2>7. Owed(table, now, i) > (limit - 1) * Period
      BY <1>1, <2>2, <2>4, <2>6 DEF Owed
    <2> QED
      BY <2>1, <2>5, <2>7 DEF SlotsOf
  <1>5. ASSUME NEW i \in Slots, ChargedFresh(a, limit, r, i)
        PROVE  FALSE
    BY <1>5 DEF ChargedFresh
  <1> QED
    BY <1>2, <1>3, <1>4, <1>5 DEF RefusedFull, SlotsOf

(* A packet is refused for its address's sake only because of what the     *)
(* address owes, or because every slot of SVC_BucketForAddress is in use by *)
(* an address heard from within limit periods, however the clock is set     *)
(* back: a bucket with a stamp ahead of the clock is emptied by the next    *)
(* request of its address, and its slot can be taken at once.               *)
THEOREM RefusalsAreDue ==
    ASSUME TimelyClock
    PROVE  Spec => []NoFalseRefusal
  <1>1. IInv /\ Dated => NoFalseRefusal
    BY RefusalDue
  <1> QED
    BY <1>1, Inductive, DatedAlways, PTL

----------------------------------------------------------------------------
(* The limits under observation take the steps they take unobserved.        *)
LEMMA ObservedSteps ==
    /\ WInit => Init
    /\ [WNext]_wvars => [Next]_vars
  <1>1. WInit => Init
    BY DEF WInit
  <1>2. [WNext]_wvars => [Next]_vars
    <2>1. ASSUME NEW a \in Address,
                 \/ GetChallenge(a) \/ DirectConnect(a) \/ AuthorizeIpPacket(a)
                 \/ Info(a) \/ Status(a) \/ \E bad \in BOOLEAN : RemoteCommand(a, bad)
          PROVE  Next
      BY <2>1, Zenon DEF Next
    <2>2. WNext => Next
      BY <2>1, Zenon DEF WNext, WTick, WStepBack, Next
    <2> QED
      BY <2>2 DEF wvars
  <1> QED
    BY <1>1, <1>2

LEMMA Observed == WSpec => Spec
  BY ObservedSteps, PTL DEF WSpec, Spec

(* What a step observed is.                                                 *)
LEMMA WSteps ==
    ASSUME [WNext]_wvars
    PROVE  \/ \E a \in Address, limit \in LimitSet : LimitReply(a, limit) /\ WatchReply(a)
           \/ \E a \in Address, bad \in BOOLEAN : RemoteCommand(a, bad) /\ WatchCommand(a, bad)
           \/ WTick
           \/ WStepBack
           \/ UNCHANGED wvars
  <1>1. AddressLimit \in LimitSet /\ AuthorizeLimit \in LimitSet
    BY DEF LimitSet
  <1>2. ASSUME NEW a \in Address,
               \/ GetChallenge(a) \/ DirectConnect(a) \/ AuthorizeIpPacket(a)
               \/ Info(a) \/ Status(a)
        PROVE  \E limit \in LimitSet : LimitReply(a, limit)
    BY <1>1, <1>2 DEF GetChallenge, DirectConnect, AuthorizeIpPacket, Info, Status
  <1> QED
    BY <1>2, Zenon DEF WNext

----------------------------------------------------------------------------
(* A shared bucket covers the debt of what was let through past it.         *)
Covers(b, period, d, t) ==
    d # 0 => b.lastTime <= t /\ d <= EmptyAt(b, period) - t + period - 1

LEMMA ChargeCovers ==
    ASSUME NEW limit \in Nat \ {0}, NEW period \in Nat \ {0}, (limit + 1) * period <= IntHalf,
           NEW b \in BucketsTo(limit), NEW t \in Int, NEW d \in Nat, Covers(b, period, d, t)
    PROVE  LET c == Charge(b, limit, period, t)
           IN  /\ Limited(b, limit, period, t) => Covers(c, period, d, t)
               /\ ~Limited(b, limit, period, t) => Covers(c, period, d + period, t)
  <1> DEFINE c == Charge(b, limit, period, t)
             s == Settle(b, period, t)
  <1>1. limit \in 0 .. limit /\ EmptyAt(b, period) \in Int /\ b.lastTime \in Int
    BY EmptyAtType DEF BucketsTo
  <1>2. /\ s \in BucketsTo(limit)
        /\ b.lastTime <= t => EmptyAt(b, period) <= EmptyAt(s, period)
    BY <1>1, Settling
  <1>3. /\ c \in BucketsTo(limit) /\ c.lastTime \in (t - (period - 1)) .. t
        /\ Limited(b, limit, period, t) => c = s
    BY <1>1, Charging
  <1>4. ASSUME ~Limited(b, limit, period, t)
        PROVE  c.burst = s.burst + 1 /\ EmptyAt(c, period) = EmptyAt(s, period) + period
    BY <1>1, <1>4, Charging
  <1>5. EmptyAt(s, period) \in Int /\ EmptyAt(c, period) \in Int
    BY <1>1, <1>2, <1>3, EmptyAtType
  <1>6. EmptyAt(c, period) >= c.lastTime + (IF Limited(b, limit, period, t) THEN 0 ELSE period)
    <2>1. c.burst \in Nat /\ c.lastTime \in Int /\ s.burst \in Nat
      BY <1>2, <1>3 DEF BucketsTo
    <2>2. EmptyAt(c, period) = c.lastTime + c.burst * period
      BY DEF EmptyAt
    <2> HIDE DEF c, s
    <2>3. 0 * period <= c.burst * period /\ c.burst * period \in Int
      BY <2>1, Multiples
    <2>4. c.burst >= 1 => 1 * period <= c.burst * period
      BY <2>1, Multiples
    <2> QED
      BY <1>4, <2>1, <2>2, <2>3, <2>4
  <1> HIDE DEF c, s
  <1>7. ASSUME Limited(b, limit, period, t)
        PROVE  Covers(c, period, d, t)
    BY <1>1, <1>2, <1>3, <1>5, <1>7 DEF Covers
  <1>8. ASSUME ~Limited(b, limit, period, t)
        PROVE  Covers(c, period, d + period, t)
    BY <1>1, <1>2, <1>3, <1>4, <1>5, <1>6, <1>8 DEF Covers
  <1> QED
    BY <1>7, <1>8 DEF c

SharedInv == /\ replies \in Nat /\ Covers(outbound, OutPeriod, replies, now)
             /\ guesses \in Nat /\ Covers(rconBucket, Period, guesses, now)

(* A millisecond off a debt.                                                *)
LEMMA TickCovers ==
    ASSUME NEW max \in Nat, NEW period \in Nat \ {0}, NEW b \in BucketsTo(max),
           NEW t \in Int, NEW d \in Nat, Covers(b, period, d, t)
    PROVE  /\ AtLeast(d - 1, 0) \in Nat
           /\ Covers(b, period, AtLeast(d - 1, 0), t + 1)
  <1>1. EmptyAt(b, period) \in Int /\ b.lastTime \in Int
    BY EmptyAtType DEF BucketsTo
  <1> QED
    BY <1>1 DEF Covers, AtLeast

(* All addresses together keep the limits of the replies and of the bad     *)
(* passwords, whatever the clock does and however wide an int is.           *)
THEOREM SharedLimitsHold == WSpec => []SharedBound
  <1>1. WInit => SharedInv
    BY DEF WInit, SharedInv, Covers
  <1>2. IInv /\ SharedInv /\ [WNext]_wvars => SharedInv'
    <2> SUFFICES ASSUME IInv, SharedInv, [WNext]_wvars
                 PROVE  SharedInv'
      OBVIOUS
    <2>1. /\ now \in Int /\ outbound \in BucketsTo(OutLimit)
          /\ rconBucket \in BucketsTo(AddressLimit)
          /\ replies \in Nat /\ guesses \in Nat
      BY BucketTypes DEF SharedInv
    <2>2. /\ OutLimit \in Nat \ {0} /\ AddressLimit \in Nat \ {0}
          /\ Period \in Nat \ {0} /\ OutPeriod \in Nat \ {0}
      BY LimitsFit
    <2>3. ASSUME NEW a \in Address, NEW limit \in LimitSet, LimitReply(a, limit), WatchReply(a)
          PROVE  SharedInv'
      <3> DEFINE c == Charge(outbound, OutLimit, OutPeriod, now)
      <3>1. /\ RepliesLimited => Covers(c, OutPeriod, replies, now)
            /\ ~RepliesLimited => Covers(c, OutPeriod, replies + OutPeriod, now)
        BY <2>1, <2>2, LimitsFit, ChargeCovers DEF SharedInv, RepliesLimited
      <3>2. \/ verdict' = "address" /\ outbound' = outbound
            \/ verdict' = "replies" /\ outbound' = c /\ RepliesLimited
            \/ verdict' = "served" /\ outbound' = c /\ ~RepliesLimited
        BY <2>3 DEF LimitReply
      <3>3. now' = now /\ UNCHANGED <<rconBucket, guesses>>
        BY <2>3 DEF LimitReply, WatchReply
      <3>4. replies' = IF verdict' = "served" THEN replies + OutPeriod ELSE replies
        BY <2>3 DEF WatchReply
      <3>5. replies' \in Nat
        BY <2>1, <2>2, <3>4
      <3> HIDE DEF c
      <3>6. Covers(outbound', OutPeriod, replies', now)
        BY <3>1, <3>2, <3>4 DEF SharedInv
      <3> QED
        BY <3>3, <3>5, <3>6 DEF SharedInv, Covers
    <2>4. ASSUME NEW a \in Address, NEW bad \in BOOLEAN,
                 RemoteCommand(a, bad), WatchCommand(a, bad)
          PROVE  SharedInv'
      <3> DEFINE c == Charge(rconBucket, AddressLimit, Period, now)
      <3>1. /\ GuessesLimited => Covers(c, Period, guesses, now)
            /\ ~GuessesLimited => Covers(c, Period, guesses + Period, now)
        BY <2>1, <2>2, LimitsFit, ChargeCovers DEF SharedInv, GuessesLimited
      <3>2. \/ (verdict' = "address" \/ ~bad) /\ rconBucket' = rconBucket
            \/ verdict' = "guesses" /\ rconBucket' = c /\ GuessesLimited
            \/ verdict' = "served" /\ bad /\ rconBucket' = c /\ ~GuessesLimited
        BY <2>4 DEF RemoteCommand
      <3>3. now' = now /\ UNCHANGED <<outbound, replies>>
        BY <2>4 DEF RemoteCommand, WatchCommand
      <3>4. guesses' = IF bad /\ verdict' = "served" THEN guesses + Period ELSE guesses
        BY <2>4 DEF WatchCommand
      <3>5. guesses' \in Nat
        BY <2>1, <2>2, <3>4
      <3> HIDE DEF c
      <3>6. Covers(rconBucket', Period, guesses', now)
        BY <3>1, <3>2, <3>4 DEF SharedInv
      <3> QED
        BY <3>3, <3>5, <3>6 DEF SharedInv, Covers
    <2>5. CASE WTick
      <3>1. /\ now' = now + 1 /\ UNCHANGED <<outbound, rconBucket>>
            /\ replies' = AtLeast(replies - 1, 0) /\ guesses' = AtLeast(guesses - 1, 0)
        BY <2>5 DEF WTick, Tick
      <3>2. /\ AtLeast(replies - 1, 0) \in Nat
            /\ Covers(outbound, OutPeriod, AtLeast(replies - 1, 0), now + 1)
        BY <2>1, <2>2, TickCovers DEF SharedInv
      <3>3. /\ AtLeast(guesses - 1, 0) \in Nat
            /\ Covers(rconBucket, Period, AtLeast(guesses - 1, 0), now + 1)
        BY <2>1, <2>2, TickCovers DEF SharedInv
      <3> QED
        BY <3>1, <3>2, <3>3 DEF SharedInv, Covers
    <2>6. CASE WStepBack
      BY <2>6 DEF WStepBack, SharedInv, Covers
    <2>7. CASE UNCHANGED wvars
      BY <2>7 DEF wvars, vars, observers, SharedInv, Covers
    <2> QED
      BY <2>3, <2>4, <2>5, <2>6, <2>7, WSteps
  <1>3. IInv /\ SharedInv => SharedBound
    <2> SUFFICES ASSUME IInv, SharedInv
                 PROVE  SharedBound
      OBVIOUS
    <2>1. ASSUME NEW limit \in Nat \ {0}, NEW period \in Nat \ {0}, NEW b \in BucketsTo(limit),
                 NEW d \in Nat, Covers(b, period, d, now)
          PROVE  d <= limit * period + period - 1
      <3>1. b.burst \in Nat /\ b.burst <= limit /\ b.lastTime \in Int /\ now \in Int
        BY BucketTypes DEF BucketsTo
      <3>2. b.burst * period <= limit * period /\ b.burst * period \in Int
        BY <3>1, Multiples
      <3>3. 0 * period <= limit * period /\ limit * period \in Int
        BY Multiples
      <3>4. EmptyAt(b, period) = b.lastTime + b.burst * period
        BY DEF EmptyAt
      <3> QED
        BY <2>1, <3>1, <3>2, <3>3, <3>4 DEF Covers
    <2>2. replies <= OutLimit * OutPeriod + OutPeriod - 1
      BY <2>1, BucketTypes, LimitsFit DEF SharedInv
    <2>3. guesses <= AddressLimit * Period + Period - 1
      BY <2>1, BucketTypes, LimitsFit DEF SharedInv
    <2> QED
      BY <2>2, <2>3 DEF SharedBound
  <1> QED
    BY <1>1, <1>2, <1>3, Inductive, Observed, PTL DEF WSpec

----------------------------------------------------------------------------
(* A shared bucket holds no more than what was really let through: it is    *)
(* empty when that is paid for.                                             *)
PaidInv ==
    /\ repliesPaid \in Int /\ EmptyAt(outbound, OutPeriod) <= repliesPaid
    /\ guessesPaid \in Int /\ EmptyAt(rconBucket, Period) <= guessesPaid
    /\ OthersAreDue

LEMMA ChargePaid ==
    ASSUME TimelyClock, now \in 0 .. MaxNow,
           NEW limit \in Nat \ {0}, NEW period \in Nat \ {0}, (limit + 1) * period <= IntHalf,
           NEW b \in BucketsTo(limit), InReach(b.lastTime),
           NEW paid \in Int, EmptyAt(b, period) <= paid
    PROVE  LET c == Charge(b, limit, period, now)
           IN  /\ Limited(b, limit, period, now) =>
                     EmptyAt(c, period) <= paid /\ paid > now + (limit - 1) * period
               /\ ~Limited(b, limit, period, now) =>
                     EmptyAt(c, period) <= AtLeast(paid, now) + period
  <1> DEFINE c == Charge(b, limit, period, now)
  <1>1. /\ now \in Nat /\ b.lastTime \in Nat /\ limit \in 1 .. limit
        /\ Legible(b.lastTime) \/ Early(b.lastTime)
        /\ EmptyAt(b, period) \in Int
    BY ReachFacts, EmptyAtType DEF TimelyClock
  <1>2. (limit - 1) * period \in Int
    <2> DEFINE m == limit - 1
    <2>1. m \in Int
      OBVIOUS
    <2> HIDE DEF m
    <2>2. m * period \in Int
      BY <2>1, Multiples
    <2> QED
      BY <2>2 DEF m
  <1>3. CASE Legible(b.lastTime)
    <2>1. \/ /\ Limited(b, limit, period, now)
             /\ EmptyAt(c, period) = EmptyAt(b, period)
             /\ EmptyAt(b, period) - now > (limit - 1) * period
          \/ /\ ~Limited(b, limit, period, now)
             /\ EmptyAt(b, period) - now <= -period
             /\ EmptyAt(c, period) = now + period
          \/ /\ ~Limited(b, limit, period, now)
             /\ EmptyAt(c, period) = EmptyAt(b, period) + period
      BY <1>1, <1>3, ChargeLegible
    <2> HIDE DEF c
    <2>2. /\ Limited(b, limit, period, now) =>
                EmptyAt(c, period) <= paid /\ paid > now + (limit - 1) * period
          /\ ~Limited(b, limit, period, now) =>
                EmptyAt(c, period) <= AtLeast(paid, now) + period
      BY <1>1, <1>2, <2>1 DEF AtLeast
    <2> QED
      BY <2>2 DEF c
  <1>4. CASE Early(b.lastTime)
    <2>1. ~Limited(b, limit, period, now) /\ c = [lastTime |-> now, burst |-> 1]
      BY <1>1, <1>4, ChargeEarly
    <2>2. EmptyAt(c, period) = now + period
      BY <1>1, <2>1 DEF EmptyAt
    <2> HIDE DEF c
    <2>3. EmptyAt(c, period) <= AtLeast(paid, now) + period
      BY <1>1, <2>2 DEF AtLeast
    <2> QED
      BY <2>1, <2>3 DEF c
  <1> QED
    BY <1>1, <1>3, <1>4

(* An address within its own limit is refused for the others' sake only     *)
(* when what was let through has used the shared limit up.                  *)
THEOREM OthersRefusalsAreDue ==
    ASSUME TimelyClock
    PROVE  WSpec => []OthersAreDue
  <1>1. WInit => PaidInv
    <2> SUFFICES ASSUME WInit
                 PROVE  PaidInv
      OBVIOUS
    <2>1. EmptyAt(ZeroBucket, OutPeriod) = 0 /\ EmptyAt(ZeroBucket, Period) = 0
      BY LimitsFit DEF EmptyAt, ZeroBucket
    <2> QED
      BY <2>1 DEF WInit, Init, PaidInv, OthersAreDue
  <1>2. IInv /\ Dated /\ PaidInv /\ [WNext]_wvars => PaidInv'
    <2> SUFFICES ASSUME IInv, Dated, PaidInv, [WNext]_wvars
                 PROVE  PaidInv'
      OBVIOUS
    <2>1. /\ now \in 0 .. MaxNow /\ now \in Int /\ outbound \in BucketsTo(OutLimit)
          /\ rconBucket \in BucketsTo(AddressLimit)
          /\ InReach(outbound.lastTime) /\ InReach(rconBucket.lastTime)
      BY BucketTypes DEF Dated
    <2>2. /\ OutLimit \in Nat \ {0} /\ AddressLimit \in Nat \ {0}
          /\ Period \in Nat \ {0} /\ OutPeriod \in Nat \ {0}
      BY LimitsFit
    <2>3. ASSUME NEW a \in Address, NEW limit \in LimitSet, LimitReply(a, limit), WatchReply(a)
          PROVE  PaidInv'
      <3> DEFINE c == Charge(outbound, OutLimit, OutPeriod, now)
      <3>1. /\ RepliesLimited => /\ EmptyAt(c, OutPeriod) <= repliesPaid
                                 /\ repliesPaid > now + (OutLimit - 1) * OutPeriod
            /\ ~RepliesLimited => EmptyAt(c, OutPeriod) <= AtLeast(repliesPaid, now) + OutPeriod
        BY <2>1, <2>2, LimitsFit, ChargePaid DEF PaidInv, RepliesLimited
      <3>2. \/ verdict' = "address" /\ outbound' = outbound
            \/ verdict' = "replies" /\ outbound' = c /\ RepliesLimited
            \/ verdict' = "served" /\ outbound' = c /\ ~RepliesLimited
        BY <2>3 DEF LimitReply
      <3>3. now' = now /\ UNCHANGED <<rconBucket, guessesPaid>>
        BY <2>3 DEF LimitReply, WatchReply
      <3>4. repliesPaid' = IF verdict' = "served"
                           THEN AtLeast(repliesPaid, now) + OutPeriod ELSE repliesPaid
        BY <2>3 DEF WatchReply
      <3>5. repliesPaid' \in Int
        BY <2>1, <2>2, <3>4 DEF PaidInv, AtLeast
      <3> HIDE DEF c
      <3>6. EmptyAt(outbound', OutPeriod) <= repliesPaid'
        BY <3>1, <3>2, <3>4 DEF PaidInv
      <3>7. OthersAreDue'
        BY <3>1, <3>2, <3>3, <3>4 DEF OthersAreDue
      <3> QED
        BY <3>3, <3>5, <3>6, <3>7 DEF PaidInv, EmptyAt
    <2>4. ASSUME NEW a \in Address, NEW bad \in BOOLEAN,
                 RemoteCommand(a, bad), WatchCommand(a, bad)
          PROVE  PaidInv'
      <3> DEFINE c == Charge(rconBucket, AddressLimit, Period, now)
      <3>1. /\ GuessesLimited => /\ EmptyAt(c, Period) <= guessesPaid
                                 /\ guessesPaid > now + (AddressLimit - 1) * Period
            /\ ~GuessesLimited => EmptyAt(c, Period) <= AtLeast(guessesPaid, now) + Period
        BY <2>1, <2>2, LimitsFit, ChargePaid DEF PaidInv, GuessesLimited
      <3>2. \/ verdict' = "address" /\ rconBucket' = rconBucket
            \/ verdict' = "served" /\ ~bad /\ rconBucket' = rconBucket
            \/ verdict' = "guesses" /\ rconBucket' = c /\ GuessesLimited
            \/ verdict' = "served" /\ bad /\ rconBucket' = c /\ ~GuessesLimited
        BY <2>4 DEF RemoteCommand
      <3>3. now' = now /\ UNCHANGED <<outbound, repliesPaid>>
        BY <2>4 DEF RemoteCommand, WatchCommand
      <3>4. guessesPaid' = IF bad /\ verdict' = "served"
                           THEN AtLeast(guessesPaid, now) + Period ELSE guessesPaid
        BY <2>4 DEF WatchCommand
      <3>5. guessesPaid' \in Int
        BY <2>1, <2>2, <3>4 DEF PaidInv, AtLeast
      <3> HIDE DEF c
      <3>6. EmptyAt(rconBucket', Period) <= guessesPaid'
        BY <3>1, <3>2, <3>4 DEF PaidInv
      <3>7. OthersAreDue'
        BY <3>1, <3>2, <3>3, <3>4 DEF OthersAreDue
      <3> QED
        BY <3>3, <3>5, <3>6, <3>7 DEF PaidInv, EmptyAt
    <2>5. CASE WTick \/ WStepBack
      BY <2>5 DEF WTick, Tick, WStepBack, StepBack, PaidInv, OthersAreDue, EmptyAt
    <2>6. CASE UNCHANGED wvars
      BY <2>6 DEF wvars, vars, observers, PaidInv, OthersAreDue, EmptyAt
    <2> QED
      BY <2>3, <2>4, <2>5, <2>6, WSteps
  <1>3. PaidInv => OthersAreDue
    BY DEF PaidInv
  <1> QED
    BY <1>1, <1>2, <1>3, Inductive, DatedAlways, Observed, PTL DEF WSpec

----------------------------------------------------------------------------
(* The bucket of the watched address accounts for what the address used: a  *)
(* request it holds for what a request costs, the millisecond since its     *)
(* stamp for what is allowed in one.                                        *)
Cost == AddressLimit * Period

Accounts(b, u, t) ==
    b.lastTime <= t /\ u <= (b.lastTime - t + Period - 1) * AuthorizeLimit + b.burst * Cost

UsedInv ==
    /\ used \in Nat
    /\ used # 0 =>
          /\ \A i \in Slots : table.slots[i].adr = Watched =>
                Accounts(table.slots[i].bucket, used, now)
          /\ (\A i \in Slots : table.slots[i].adr # Watched) =>
                used <= (Period - 1) * AuthorizeLimit

LEMMA CostFacts ==
    /\ Cost \in Nat /\ Cost <= AuthorizeLimit * Period /\ AuthorizeLimit * Period \in Nat
    /\ Cost < IntHalf /\ AuthorizeLimit \in Nat \ {0} /\ Period \in Nat \ {0}
    /\ (Period - 1) * AuthorizeLimit \in Nat
    /\ \A n \in Int : n * Cost \in Int
  <1>1. /\ AddressLimit \in Nat \ {0} /\ AuthorizeLimit \in Nat \ {0} /\ Period \in Nat \ {0}
        /\ AddressLimit <= AuthorizeLimit /\ AddressLimit \in LimitSet
    BY ConstantFacts DEF LimitSet
  <1>2. Cost \in Nat /\ Cost < IntHalf
    BY <1>1, LimitFacts DEF Cost
  <1>3. Cost <= AuthorizeLimit * Period /\ AuthorizeLimit * Period \in Int
    BY <1>1, Multiples DEF Cost
  <1>4. (Period - 1) * AuthorizeLimit \in Nat
    <2> DEFINE p == Period - 1
    <2>1. p \in Int /\ 0 <= p
      BY <1>1
    <2> HIDE DEF p
    <2>2. 0 * AuthorizeLimit <= p * AuthorizeLimit /\ p * AuthorizeLimit \in Int
      BY <1>1, <2>1, Multiples
    <2> QED
      BY <1>1, <2>2 DEF p
  <1>5. \A n \in Int : n * Cost \in Int
    BY <1>2, Multiples
  <1> QED
    BY <1>1, <1>2, <1>3, <1>4, <1>5

(* A bucket that went unused for as long as its requests take to leak, and  *)
(* a period longer, accounts for nothing.                                   *)
LEMMA LongUnused ==
    ASSUME NEW b \in BucketsTo(AuthorizeLimit), NEW t \in Int, NEW u \in Nat \ {0},
           Accounts(b, u, t), t - b.lastTime >= (b.burst + 1) * Period
    PROVE  FALSE
  <1> DEFINE x == t - b.lastTime
             n == b.burst
             A == AuthorizeLimit
             m == n * Period
             y == b.lastTime - t + Period - 1
  <1>1. n \in Nat /\ x \in Int /\ A \in Nat \ {0} /\ Period \in Nat \ {0} /\ y = Period - 1 - x
    BY CostFacts DEF BucketsTo
  <1>2. u <= y * A + n * Cost /\ x >= (n + 1) * Period
    BY DEF Accounts
  <1> HIDE DEF x, n, A, y
  <1>3. m \in Int /\ (n + 1) * Period = m + Period
    BY <1>1, Multiples
  <1> HIDE DEF m
  <1>4. y \in Int /\ y <= 0 - m - 1
    BY <1>1, <1>2, <1>3
  <1>5. y * A <= (0 - m - 1) * A /\ y * A \in Int
    BY <1>1, <1>3, <1>4, Multiples
  <1>6. (0 - m - 1) * A = 0 - m * A - A /\ m * A \in Int
    BY <1>1, <1>3
  <1>7. n * Cost <= m * A
    <2>1. Cost * n <= (A * Period) * n
      BY <1>1, CostFacts, Multiples DEF A
    <2>2. (A * Period) * n = m * A
      BY <1>1 DEF m
    <2> QED
      BY <1>1, <2>1, <2>2, CostFacts
  <1>8. n * Cost \in Int
    BY <1>1, CostFacts
  <1> QED
    BY <1>1, <1>2, <1>5, <1>6, <1>7, <1>8

LEMMA SettleAccounts ==
    ASSUME NEW b \in BucketsTo(AuthorizeLimit), NEW t \in Int, NEW u \in Nat \ {0},
           Accounts(b, u, t)
    PROVE  Accounts(Settle(b, Period, t), u, t)
  <1> DEFINE A == AuthorizeLimit
             x == t - b.lastTime
             i == Interval(b, t)
             q == i \div Period
             r == i % Period
             n == b.burst
             s == Settle(b, Period, t)
  <1>1. /\ x \in Nat /\ n \in Nat /\ n <= A /\ A \in Nat \ {0} /\ Period \in Nat \ {0}
        /\ IntHalf \in Nat \ {0} /\ b.lastTime \in Int /\ (A + 1) * Period <= IntHalf
    BY CostFacts, ConstantFacts, IntHalfAssumption DEF BucketsTo, Accounts
  <1>2. i \in Int /\ i = ToInt(x)
    BY <1>1, ToIntRange DEF Interval
  <1>3. x < (n + 1) * Period
    <2>1. (n + 1) * Period \in Int
      <3> DEFINE k == n + 1
      <3>1. k \in Int
        BY <1>1
      <3> HIDE DEF k
      <3>2. k * Period \in Int
        BY <1>1, <3>1, Multiples
      <3> QED
        BY <3>2 DEF k
    <2> QED
      BY <1>1, <2>1, LongUnused
  <1>4. (n + 1) * Period <= IntHalf
    <2> DEFINE k == n + 1
               l == A + 1
    <2>1. k \in Int /\ l \in Int /\ k <= l
      BY <1>1
    <2> HIDE DEF k, l
    <2>2. k * Period <= l * Period /\ k * Period \in Int /\ l * Period \in Int
      BY <1>1, <2>1, Multiples
    <2>3. l * Period <= IntHalf
      BY <1>1 DEF l
    <2>4. k * Period <= IntHalf
      BY <1>1, <2>2, <2>3
    <2> QED
      BY <2>4 DEF k
  <1> HIDE DEF A, x, n
  <1>5. i = x
    <2> DEFINE k == (n + 1) * Period
    <2>1. k \in Int
      <3> DEFINE j == n + 1
      <3>1. j \in Int
        BY <1>1
      <3> HIDE DEF j
      <3>2. j * Period \in Int
        BY <1>1, <3>1, Multiples
      <3> QED
        BY <3>2 DEF j
    <2>2. x < k /\ k <= IntHalf
      BY <1>3, <1>4
    <2> HIDE DEF k
    <2>3. x \in 0 .. (IntHalf - 1)
      BY <1>1, <2>1, <2>2
    <2> QED
      BY <1>1, <1>2, <2>3, ToIntRange
  <1> HIDE DEF i
  <1>6. q \in Nat /\ r \in 0 .. (Period - 1) /\ i = q * Period + r
    <2>1. i \in Int /\ i >= 0 /\ Period \in Nat \ {0}
      BY <1>1, <1>2, <1>5
    <2>2. /\ i % Period \in 0 .. (Period - 1) /\ i \div Period \in Nat
          /\ i = (i \div Period) * Period + (i % Period)
      BY <2>1, Division
    <2> QED
      BY <2>2
  <1> HIDE DEF q, r
  <1>7. ~Drained(b, Period, t)
    <2>1. ~(i < 0)
      BY <1>1, <1>5
    <2>2. ~(q > n)
      <3>1. q > n => (n + 1) * Period <= q * Period
        <4> DEFINE k == n + 1
        <4>1. k \in Int
          BY <1>1
        <4>2. q > n => k <= q
          BY <1>1, <1>6
        <4> HIDE DEF k
        <4>3. q > n => k * Period <= q * Period
          BY <1>1, <1>6, <4>1, <4>2, Multiples
        <4> QED
          BY <4>3 DEF k
      <3> DEFINE k == (n + 1) * Period
                 w == q * Period
      <3>2. x < k /\ (q > n => k <= w) /\ x = w + r
        BY <1>3, <1>5, <1>6, <3>1
      <3>3. k \in Int /\ w \in Int
        <4> DEFINE j == n + 1
        <4>1. j \in Int
          BY <1>1
        <4> HIDE DEF j
        <4>2. j * Period \in Int /\ q * Period \in Int
          BY <1>1, <1>6, <4>1, Multiples
        <4> QED
          BY <4>2 DEF j
      <3> HIDE DEF k, w
      <3> QED
        BY <1>1, <1>6, <3>2, <3>3
    <2> QED
      BY <2>1, <2>2 DEF Drained, n, i, q
  <1>8. s = [lastTime |-> t - r, burst |-> n - q]
    BY <1>7 DEF Settle, n, i, q, r
  <1>9. s.lastTime = t - r /\ s.burst = n - q
    BY <1>8
  <1>10. u <= (Period - 1 - x) * A + n * Cost
    <2>1. b.lastTime - t + Period - 1 = Period - 1 - x
      BY <1>1 DEF x
    <2> QED
      BY <2>1 DEF Accounts, A, n
  <1> HIDE DEF s
  <1>11. (Period - 1 - x) * A + n * Cost <= (Period - 1 - r) * A + (n - q) * Cost
    <2> DEFINE w == q * Period
               k == Period - 1 - r
    <2>1. w \in Int /\ k \in Int /\ Period - 1 - x = k - w
      BY <1>1, <1>5, <1>6, Multiples
    <2> HIDE DEF w, k
    <2>2. (k - w) * A = k * A - w * A /\ k * A \in Int /\ w * A \in Int
      BY <1>1, <2>1, Multiples
    <2>3. (n - q) * Cost = n * Cost - q * Cost /\ n * Cost \in Int /\ q * Cost \in Int
      BY <1>1, <1>6, CostFacts, Multiples
    <2>4. q * Cost <= w * A
      <3>1. Cost * q <= (A * Period) * q
        BY <1>6, CostFacts, Multiples DEF A
      <3>2. (A * Period) * q = w * A
        BY <1>1, <1>6 DEF w
      <3> QED
        BY <1>6, <3>1, <3>2, CostFacts
    <2>5. (k - w) * A + n * Cost <= k * A + (n - q) * Cost
      BY <2>2, <2>3, <2>4
    <2> QED
      BY <2>1, <2>5 DEF k
  <1>12. /\ (Period - 1 - x) * A + n * Cost \in Int
         /\ (Period - 1 - r) * A + (n - q) * Cost \in Int
    <2> DEFINE y == Period - 1 - x
               z == Period - 1 - r
               m == n - q
    <2>1. y \in Int /\ z \in Int /\ m \in Int
      BY <1>1, <1>6
    <2> HIDE DEF y, z, m
    <2>2. y * A \in Int /\ z * A \in Int /\ m * Cost \in Int /\ n * Cost \in Int
      BY <1>1, <2>1, CostFacts, Multiples
    <2>3. y * A + n * Cost \in Int /\ z * A + m * Cost \in Int
      BY <2>2
    <2> QED
      BY <2>3 DEF y, z, m
  <1>13. u <= (Period - 1 - r) * A + (n - q) * Cost
    <2> HIDE DEF Cost
    <2> DEFINE y == (Period - 1 - x) * A + n * Cost
               z == (Period - 1 - r) * A + (n - q) * Cost
    <2>1. u <= y /\ y <= z /\ y \in Int /\ z \in Int
      BY <1>10, <1>11, <1>12
    <2> HIDE DEF y, z
    <2>2. u <= z
      BY <2>1
    <2> QED
      BY <2>2 DEF z
  <1>14. s.lastTime <= t /\ s.lastTime - t + Period - 1 = Period - 1 - r
    BY <1>1, <1>6, <1>9
  <1> QED
    BY <1>9, <1>13, <1>14 DEF Accounts, A, s

(* A request of the address, let through or not.                            *)
LEMMA ChargeAccounts ==
    ASSUME NEW limit \in LimitSet, NEW b \in BucketsTo(AuthorizeLimit), NEW t \in Int,
           NEW u \in Nat, u # 0 => Accounts(b, u, t)
    PROVE  LET c == Charge(b, limit, Period, t)
           IN  /\ Limited(b, limit, Period, t) /\ u # 0 => Accounts(c, u, t)
               /\ ~Limited(b, limit, Period, t) => Accounts(c, u + Cost, t)
  <1> DEFINE c == Charge(b, limit, Period, t)
             s == Settle(b, Period, t)
             z == s.lastTime - t + Period - 1
  <1>1. /\ limit \in 0 .. AuthorizeLimit /\ AuthorizeLimit \in Nat \ {0} /\ Period \in Nat \ {0}
        /\ (AuthorizeLimit + 1) * Period <= IntHalf
        /\ Cost \in Nat
    BY LimitFacts, LimitsFit, CostFacts
  <1>2. /\ s \in BucketsTo(AuthorizeLimit) /\ s.lastTime \in (t - (Period - 1)) .. t
    BY <1>1, Settling
  <1>3. u # 0 => Accounts(s, u, t)
    BY SettleAccounts
  <1>4. CASE Limited(b, limit, Period, t)
    <2>1. c = s
      BY <1>4 DEF Charge
    <2> QED
      BY <1>3, <1>4, <2>1
  <1>5. CASE ~Limited(b, limit, Period, t)
    <2>1. c.lastTime = s.lastTime /\ c.burst = s.burst + 1
      BY <1>2, <1>5 DEF Charge, BucketsTo
    <2>2. s.burst \in Nat /\ z \in Int /\ 0 <= z /\ s.lastTime <= t
      BY <1>1, <1>2 DEF BucketsTo
    <2> HIDE DEF c, s
    <2>3. c.lastTime - t + Period - 1 = z
      BY <2>1
    <2> HIDE DEF z
    <2>4. 0 * AuthorizeLimit <= z * AuthorizeLimit /\ z * AuthorizeLimit \in Int
      BY <1>1, <2>2, Multiples
    <2>5. /\ (s.burst + 1) * Cost = s.burst * Cost + Cost
          /\ 0 * Cost <= s.burst * Cost /\ s.burst * Cost \in Int
      BY <1>1, <2>2, Multiples
    <2>6. u <= z * AuthorizeLimit + s.burst * Cost
      <3>1. CASE u = 0
        BY <1>1, <2>4, <2>5, <3>1
      <3>2. CASE u # 0
        BY <1>3, <3>2 DEF Accounts, z
      <3> QED
        BY <3>1, <3>2
    <2>7. u + Cost <= z * AuthorizeLimit + (s.burst + 1) * Cost
      BY <1>1, <2>4, <2>5, <2>6
    <2>8. Accounts(c, u + Cost, t)
      BY <2>1, <2>2, <2>3, <2>7 DEF Accounts
    <2> QED
      BY <1>5, <2>8 DEF c
  <1> QED
    BY <1>4, <1>5

(* A slot that another address takes had been unused for AddressLimit       *)
(* periods at least.                                                        *)
LEMMA ReclaimAccounts ==
    ASSUME IInv, NEW limit \in LimitSet, NEW i \in Slots, Reclaimable(table, i, limit),
           NEW u \in Nat, Accounts(table.slots[i].bucket, u, now)
    PROVE  u <= (Period - 1) * AuthorizeLimit
  <1> DEFINE b == table.slots[i].bucket
             x == now - b.lastTime
             y == b.lastTime - now + Period - 1
             A == AuthorizeLimit
  <1>1. /\ b \in BucketsTo(A) /\ now \in Nat /\ b.lastTime \in Int /\ b.burst \in Nat
        /\ b.burst <= A /\ b.lastTime <= now
        /\ IntHalf \in Nat \ {0} /\ A \in Nat /\ Period \in Nat \ {0}
    BY BucketTypes, IntHalfAssumption, CostFacts DEF BucketsTo, Accounts
  <1>2. Interval(b, now) > limit * Period \/ Interval(b, now) < 0
    BY DEF Reclaimable
  <1>3. limit * Period \in Int /\ Cost <= limit * Period
    <2>1. AddressLimit <= limit /\ AddressLimit \in Int /\ limit \in Int
      BY ConstantFacts, LimitFacts DEF LimitSet
    <2> QED
      BY <1>1, <2>1, Multiples DEF Cost
  <1>4. u <= y * A + b.burst * Cost
    BY DEF Accounts
  <1>5. x \in Nat /\ Interval(b, now) = ToInt(x) /\ y = Period - 1 - x
    BY <1>1 DEF Interval
  <1> HIDE DEF b, x, y, A
  <1>6. x > Cost
    <2>1. ToInt(x) \in Int /\ (x <= IntHalf - 1 => ToInt(x) = x) /\ ToInt(x) < IntHalf
      BY <1>1, <1>5, ToIntRange
    <2> QED
      BY <1>1, <1>2, <1>3, <1>5, <2>1, CostFacts
  <1>7. y \in Int /\ y <= Period - 1 - Cost
    BY <1>1, <1>5, <1>6, CostFacts
  <1>8. y * A <= (Period - 1 - Cost) * A /\ y * A \in Int
    <2> DEFINE w == Period - 1 - Cost
    <2>1. w \in Int /\ y <= w
      BY <1>1, <1>7, CostFacts
    <2> HIDE DEF w
    <2>2. y * A <= w * A /\ y * A \in Int
      BY <1>1, <1>7, <2>1, Multiples
    <2> QED
      BY <2>2 DEF w
  <1>9. /\ (Period - 1 - Cost) * A = (Period - 1) * A - Cost * A
        /\ (Period - 1) * A \in Int /\ Cost * A \in Int
    <2> DEFINE w == Period - 1
    <2>1. w \in Int /\ Cost \in Int
      BY <1>1, CostFacts
    <2> HIDE DEF w
    <2>2. (w - Cost) * A = w * A - Cost * A /\ w * A \in Int /\ Cost * A \in Int
      BY <1>1, <2>1, Multiples
    <2> QED
      BY <2>2 DEF w
  <1>10. b.burst * Cost <= A * Cost /\ A * Cost = Cost * A /\ b.burst * Cost \in Int
    BY <1>1, CostFacts, Multiples
  <1>11. u <= (Period - 1) * A
    BY <1>4, <1>8, <1>9, <1>10
  <1> QED
    BY <1>11 DEF A

(* What SVC_RateLimitAddress lets the watched address use.                  *)
LEMMA UsedRequest ==
    ASSUME IInv, UsedInv, NEW a \in Address, NEW limit \in LimitSet,
           table' = RateLimitAddress(a, limit).table, now' = now, Watch(a),
           verdict' = "address" <=> RateLimitAddress(a, limit).limited
    PROVE  UsedInv'
  <1> DEFINE r == RateLimitAddress(a, limit)
  <1>0. /\ Good(table) /\ now \in Nat /\ now \in Int /\ Watched \in Address /\ used \in Nat
        /\ Cost \in Nat /\ NoAddress \notin Address /\ a # NoAddress
        /\ (Period - 1) * AuthorizeLimit \in Nat
    BY CostFacts, ConstantFacts, WatchedAssumption DEF IInv, UsedInv
  <1>1. \/ RefusedFull(a, limit, r)
        \/ \E i \in Slots : ChargedOld(a, limit, r, i) \/ ChargedFresh(a, limit, r, i)
    BY <1>0, RateLimitFacts
  <1>2. used' = IF a = Watched /\ ~r.limited THEN used + Cost ELSE used
    BY DEF Watch, Cost
  <1>3. table' = r.table
    OBVIOUS
  <1> HIDE DEF r
  <1>4. used' \in Nat
    BY <1>0, <1>2
  <1>5. CASE RefusedFull(a, limit, r)
    BY <1>2, <1>3, <1>5 DEF RefusedFull, UsedInv
  <1>6. ASSUME NEW i \in Slots, ChargedOld(a, limit, r, i)
        PROVE  UsedInv'
    <2> DEFINE b == table.slots[i].bucket
    <2>1. /\ table.slots[i].adr = a /\ table'.slots[i].adr = a
          /\ r.limited = Limited(b, limit, Period, now)
          /\ table'.slots[i].bucket = Charge(b, limit, Period, now)
          /\ \A j \in Slots \ {i} : SameSlot(table, table', j)
      BY <1>3, <1>6 DEF ChargedOld
    <2>2. CASE a # Watched
      <3>1. used' = used
        BY <1>2, <2>2
      <3>2. \A j \in Slots : \/ SameSlot(table, table', j)
                             \/ table.slots[j].adr # Watched /\ table'.slots[j].adr # Watched
        BY <2>1, <2>2
      <3> QED
        BY <3>1, <3>2 DEF UsedInv, SameSlot
    <2>3. CASE a = Watched
      <3>1. b \in BucketsTo(AuthorizeLimit)
        BY BucketTypes
      <3>2. used # 0 => Accounts(b, used, now)
        BY <2>1, <2>3 DEF UsedInv
      <3> HIDE DEF b
      <3>3. /\ Limited(b, limit, Period, now) /\ used # 0 =>
                  Accounts(Charge(b, limit, Period, now), used, now)
            /\ ~Limited(b, limit, Period, now) =>
                  Accounts(Charge(b, limit, Period, now), used + Cost, now)
        BY <1>0, <3>1, <3>2, ChargeAccounts
      <3>4. used' # 0 => Accounts(table'.slots[i].bucket, used', now)
        BY <1>2, <2>1, <2>3, <3>3
      <3>5. \A j \in Slots : table'.slots[j].adr = Watched => j = i
        BY <1>0, <2>1, <2>3 DEF Good, Unshared, IsFree, SameSlot
      <3>6. ASSUME used' # 0
            PROVE  \A j \in Slots : table'.slots[j].adr = Watched =>
                        Accounts(table'.slots[j].bucket, used', now')
        BY <3>4, <3>5, <3>6
      <3>7. ~(\A j \in Slots : table'.slots[j].adr # Watched)
        BY <2>1, <2>3
      <3> QED
        BY <1>4, <3>6, <3>7 DEF UsedInv
    <2> QED
      BY <2>2, <2>3
  <1>7. ASSUME NEW i \in Slots, ChargedFresh(a, limit, r, i)
        PROVE  UsedInv'
    <2>1. /\ i \in Candidates(table, limit)
          /\ \A j \in Slots : table.slots[j].adr # a
          /\ ~r.limited /\ table'.slots[i].adr = a
          /\ table'.slots[i].bucket = [lastTime |-> now, burst |-> 1]
          /\ \A j \in Slots \ {i} : SameSlot(table, table', j)
      BY <1>3, <1>7 DEF ChargedFresh
    <2>2. CASE a = Watched
      <3>1. used' = used + Cost /\ used <= (Period - 1) * AuthorizeLimit
        BY <1>0, <1>2, <2>1, <2>2 DEF UsedInv
      <3> DEFINE c == [lastTime |-> now, burst |-> 1]
      <3>2. c.lastTime <= now /\ c.lastTime - now + Period - 1 = Period - 1 /\ c.burst * Cost = Cost
        BY <1>0, CostFacts
      <3>3. Accounts(c, used', now)
        <4> DEFINE w == (Period - 1) * AuthorizeLimit
        <4>1. w \in Nat /\ used <= w
          BY <1>0, <3>1
        <4> HIDE DEF w
        <4>2. used' <= w + Cost
          BY <1>0, <3>1, <4>1
        <4> HIDE DEF c
        <4> QED
          BY <3>2, <4>2 DEF Accounts, w
      <3> HIDE DEF c
      <3>4. table'.slots[i].bucket = c
        BY <2>1 DEF c
      <3>5. \A j \in Slots : table'.slots[j].adr = Watched => j = i
        BY <2>1, <2>2 DEF SameSlot
      <3> QED
        BY <1>4, <2>1, <2>2, <3>3, <3>4, <3>5 DEF UsedInv
    <2>3. CASE a # Watched /\ table.slots[i].adr # Watched
      <3>1. used' = used
        BY <1>2, <2>3
      <3>2. \A j \in Slots : \/ SameSlot(table, table', j)
                             \/ table.slots[j].adr # Watched /\ table'.slots[j].adr # Watched
        BY <2>1, <2>3
      <3> QED
        BY <3>1, <3>2 DEF UsedInv, SameSlot
    <2>4. CASE a # Watched /\ table.slots[i].adr = Watched
      <3>1. used' = used
        BY <1>2, <2>4
      <3>2. Reclaimable(table, i, limit) /\ ~IsFree(table, i)
        BY <1>0, <2>1, <2>4 DEF Candidates, IsFree
      <3>3. used # 0 => used <= (Period - 1) * AuthorizeLimit
        BY <1>0, <2>4, <3>2, ReclaimAccounts DEF UsedInv
      <3>4. \A j \in Slots : table'.slots[j].adr # Watched
        BY <1>0, <2>1, <2>4, <3>2 DEF Good, Unshared, SameSlot
      <3> QED
        BY <1>4, <3>1, <3>3, <3>4 DEF UsedInv
    <2> QED
      BY <2>2, <2>3, <2>4
  <1> QED
    BY <1>1, <1>5, <1>6, <1>7

(* One address, however its packets of the two limits and the slots it is   *)
(* given and loses alternate, gets at most AuthorizeLimit requests per      *)
(* AddressLimit periods and one burst past its limit, whatever the clock    *)
(* does and however wide an int is.                                         *)
THEOREM AddressLimitHolds == WSpec => []AddressBound
  <1>1. WInit => UsedInv
    BY DEF WInit, UsedInv
  <1>2. IInv /\ UsedInv /\ [WNext]_wvars => UsedInv'
    <2> SUFFICES ASSUME IInv, UsedInv, [WNext]_wvars
                 PROVE  UsedInv'
      OBVIOUS
    <2>1. ASSUME NEW a \in Address, NEW limit \in LimitSet, LimitReply(a, limit), WatchReply(a)
          PROVE  UsedInv'
      BY <2>1, UsedRequest DEF LimitReply, WatchReply
    <2>2. ASSUME NEW a \in Address, NEW bad \in BOOLEAN,
                 RemoteCommand(a, bad), WatchCommand(a, bad)
          PROVE  UsedInv'
      <3>1. AddressLimit \in LimitSet
        BY DEF LimitSet
      <3> QED
        BY <2>2, <3>1, UsedRequest DEF RemoteCommand, WatchCommand
    <2>3. CASE WTick
      <3>1. /\ now' = now + 1 /\ table' = table /\ used' = AtLeast(used - AuthorizeLimit, 0)
            /\ used \in Nat /\ now \in Int /\ AuthorizeLimit \in Nat \ {0}
            /\ Period \in Nat \ {0}
        BY <2>3, BucketTypes, CostFacts DEF WTick, Tick, UsedInv
      <3>2. used' \in Nat /\ (used' # 0 => used # 0 /\ used' = used - AuthorizeLimit)
        BY <3>1 DEF AtLeast
      <3>3. ASSUME NEW b \in BucketsTo(AuthorizeLimit), Accounts(b, used, now), used' # 0
            PROVE  Accounts(b, used', now + 1)
        <4> DEFINE y == b.lastTime - now + Period - 1
        <4>1. /\ b.lastTime \in Int /\ b.burst \in Int /\ y \in Int
              /\ b.lastTime - (now + 1) + Period - 1 = y - 1
          BY <3>1 DEF BucketsTo
        <4>2. b.lastTime <= now /\ used <= y * AuthorizeLimit + b.burst * Cost
          BY <3>3 DEF Accounts
        <4> HIDE DEF y
        <4>3. /\ (y - 1) * AuthorizeLimit = y * AuthorizeLimit - 1 * AuthorizeLimit
              /\ y * AuthorizeLimit \in Int /\ b.burst * Cost \in Int
          BY <3>1, <4>1, CostFacts, Multiples
        <4>4. used' <= (y - 1) * AuthorizeLimit + b.burst * Cost
          BY <3>1, <3>2, <3>3, <4>2, <4>3
        <4>5. b.lastTime <= now + 1
          BY <3>1, <4>1, <4>2
        <4> QED
          BY <4>1, <4>4, <4>5 DEF Accounts
      <3>4. (Period - 1) * AuthorizeLimit \in Nat
        BY CostFacts
      <3> DEFINE w == (Period - 1) * AuthorizeLimit
      <3>5. used <= w /\ used' # 0 => used' <= w
        <4> HIDE DEF w
        <4> QED
          BY <3>1, <3>2, <3>4 DEF w
      <3> QED
        BY <3>1, <3>2, <3>3, <3>5, BucketTypes DEF UsedInv
    <2>4. CASE WStepBack
      BY <2>4 DEF WStepBack, UsedInv
    <2>5. CASE UNCHANGED wvars
      BY <2>5 DEF wvars, vars, observers, UsedInv
    <2> QED
      BY <2>1, <2>2, <2>3, <2>4, <2>5, WSteps
  <1>3. IInv /\ UsedInv => AddressBound
    <2> SUFFICES ASSUME IInv, UsedInv
                 PROVE  used <= AuthorizeLimit * (AddressLimit * Period + Period - 1)
      BY DEF AddressBound
    <2> DEFINE A == AuthorizeLimit
               p == Period - 1
    <2>1. /\ used \in Nat /\ A \in Nat /\ Cost \in Nat /\ p \in Nat /\ p * A \in Nat
          /\ now \in Int
      BY CostFacts, BucketTypes DEF UsedInv
    <2>2. /\ A * (Cost + p) = A * Cost + p * A /\ A * Cost \in Int /\ 0 * Cost <= A * Cost
      BY <2>1, Multiples
    <2>3. AddressLimit * Period + Period - 1 = Cost + p
      BY CostFacts, ConstantFacts DEF Cost
    <2> HIDE DEF A, p
    <2>4. used <= A * Cost + p * A
      <3>1. CASE used = 0 \/ used <= p * A
        BY <2>1, <2>2, <3>1
      <3>2. CASE ~(used = 0 \/ used <= p * A)
        <4>1. PICK i \in Slots : Accounts(table.slots[i].bucket, used, now)
          BY <3>2 DEF UsedInv, A, p
        <4> DEFINE b == table.slots[i].bucket
                   y == b.lastTime - now + Period - 1
        <4>2. b.burst \in Int /\ b.burst <= A /\ b.lastTime \in Int /\ b.lastTime <= now
          BY <4>1, BucketTypes, CostFacts DEF BucketsTo, Accounts, A
        <4>3. used <= y * A + b.burst * Cost
          BY <4>1 DEF Accounts, A
        <4>4. y \in Int /\ y <= p
          BY <2>1, <4>2, CostFacts DEF p
        <4> HIDE DEF b, y
        <4>5. y * A <= p * A /\ b.burst * Cost <= A * Cost /\ y * A \in Int /\ b.burst * Cost \in Int
          BY <2>1, <4>2, <4>4, Multiples
        <4> QED
          BY <2>1, <2>2, <4>3, <4>5
      <3> QED
        BY <3>1, <3>2
    <2> QED
      BY <2>2, <2>3, <2>4 DEF A
  <1> QED
    BY <1>1, <1>2, <1>3, Inductive, Observed, PTL DEF WSpec
=============================================================================
