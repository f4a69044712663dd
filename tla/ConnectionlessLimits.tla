------------------------ MODULE ConnectionlessLimits ------------------------
(***************************************************************************)
(* The rate limits of the connectionless packets (libcod.cpp): a table of  *)
(* leaky buckets, one per IP address, found through hash chains threaded   *)
(* through the table with prev and next pointers; the outbound bucket that *)
(* the replies of five handlers share; and the bucket bad rcon passwords   *)
(* are charged to.  The server handles one packet at a time, so a handler  *)
(* is one action; every clock reading of a packet returns the same         *)
(* millisecond.  What a packet does once it is let through (a reply, a     *)
(* challenge, a connection) is in the game binary.                         *)
(***************************************************************************)
EXTENDS RateLimit, FiniteSets

CONSTANTS Address,        \* IP addresses packets come from
          NoAddress,      \* address of a slot that is free
          NumSlots,       \* MAX_BUCKETS
          NumHashes,      \* MAX_HASHES
          Hash,           \* SVC_HashForAddress
          AddressLimit,   \* per address: 10, the argument of every handler but one
          AuthorizeLimit, \* 20, that of ipAuthorize
          Period,         \* 1000, of the buckets of the table
          OutLimit,       \* 10, of the outbound bucket
          OutPeriod,      \* 100
          Handlers,       \* the packets that arrive
          StartTimes, StepSizes, MaxNow

ASSUME LimitsAssumption ==
    /\ NoAddress \notin Address
    /\ {NumSlots, NumHashes, AddressLimit, AuthorizeLimit, Period, OutLimit,
        OutPeriod} \subseteq Nat \ {0}
    /\ Hash \in [Address -> 0 .. NumHashes - 1]
    /\ AddressLimit <= AuthorizeLimit
    /\ (AuthorizeLimit + 1) * Period <= IntHalf
    /\ (OutLimit + 1) * OutPeriod <= IntHalf
    /\ Handlers \subseteq {"getchallenge", "connect", "ipAuthorize", "getinfo",
                           "getstatus", "rcon"}
    /\ StartTimes \subseteq Nat
    /\ StepSizes \subseteq Nat

VARIABLES now,
          table,      \* buckets[] and bucketHashes[]
          outbound,   \* outboundLeakyBucket
          rconBucket, \* the static bucket of SVC_ApplyRconLimit
          verdict     \* what became of the packet of this millisecond handled last

vars == <<now, table, outbound, rconBucket, verdict>>

(* No packet; one let through; one dropped for the sake of its address,    *)
(* of the replies of all handlers, or of the bad passwords of all          *)
(* addresses (the three rate limits a handler reports).                    *)
Verdicts == {"none", "served", "address", "replies", "guesses"}

Slots == 1 .. NumSlots
Null == 0
Hashes == 0 .. NumHashes - 1

(* type, adr, hash, prev, next and, under bucket, lastTime and burst.      *)
(* A slot whose type is zero is one whose adr is NoAddress.                *)
EmptySlot == [adr |-> NoAddress, hash |-> 0, prev |-> Null, next |-> Null,
              bucket |-> ZeroBucket]

IsFree(t, i) == t.slots[i].adr = NoAddress

----------------------------------------------------------------------------
(* Hash chains. *)

(* The slot reached from the head of chain h after k steps. *)
Walk(t, h) ==
    LET at[k \in 0 .. NumSlots] ==
            IF k = 0 THEN t.heads[h]
            ELSE IF at[k - 1] = Null THEN Null
            ELSE t.slots[at[k - 1]].next
    IN at

(* The first slot of the address's chain that holds the address, or Null. *)
Lookup(t, a) ==
    LET walk == Walk(t, Hash[a])
        hits == {k \in DOMAIN walk :
                   walk[k] # Null /\ t.slots[walk[k]].adr = a}
    IN  IF hits = {} THEN Null
        ELSE walk[CHOOSE k \in hits : \A j \in hits : k <= j]

SetNext(t, p, h, n) == IF p = Null THEN [t EXCEPT !.heads[h] = n]
                                   ELSE [t EXCEPT !.slots[p].next = n]

SetPrev(t, n, p) == IF n = Null THEN t ELSE [t EXCEPT !.slots[n].prev = p]

(* Mutant: the slot is cleared but stays on its chain. *)
UnlinkForgetsChain(t, i) == [t EXCEPT !.slots[i] = EmptySlot]

(* Take slot i off its chain and clear it. *)
Unlink(t, i) ==
    LET s == t.slots[i]
    IN  [SetPrev(SetNext(t, s.prev, s.hash, s.next), s.next, s.prev)
           EXCEPT !.slots[i] = EmptySlot]

(* Give slot i to address a, at the head of its chain. *)
Push(t, i, a) ==
    LET h == Hash[a]
    IN  [SetPrev(t, t.heads[h], i)
           EXCEPT !.slots[i] = [adr |-> a, hash |-> h, prev |-> Null,
                                next |-> t.heads[h],
                                bucket |-> [lastTime |-> now, burst |-> 0]],
                  !.heads[h] = i]

----------------------------------------------------------------------------
(* SVC_BucketForAddress *)

(* Mutant: a slot is taken over once it has not been used in this          *)
(* millisecond.                                                            *)
ReclaimableEarly(t, i, limit) ==
    /\ t.slots[i].bucket.lastTime # 0
    /\ \/ Interval(t.slots[i].bucket, now) > 0
       \/ Interval(t.slots[i].bucket, now) < 0

(* Mutant: slots stamped before the clock was set back are kept. *)
ReclaimableOnlyForward(t, i, limit) ==
    /\ t.slots[i].bucket.lastTime # 0
    /\ Interval(t.slots[i].bucket, now) > limit * Period

(* A slot the scan takes over: unused for longer than limit periods, as    *)
(* an int sees it, or stamped later than now.  A slot stamped at           *)
(* millisecond zero never is.                                              *)
Reclaimable(t, i, limit) ==
    /\ t.slots[i].bucket.lastTime # 0
    /\ \/ Interval(t.slots[i].bucket, now) > limit * Period
       \/ Interval(t.slots[i].bucket, now) < 0

Candidates(t, limit) == {i \in Slots : IsFree(t, i) \/ Reclaimable(t, i, limit)}

(* The table and the slot of the address (Null when no slot could be had). *)
BucketForAddress(t, a, limit) ==
    LET found == Lookup(t, a)
        cands == Candidates(t, limit)
        i == CHOOSE j \in cands : \A k \in cands : j <= k
        cleared == IF IsFree(t, i) THEN t ELSE Unlink(t, i)
    IN  IF found # Null THEN [table |-> t, slot |-> found]
        ELSE IF cands = {} THEN [table |-> t, slot |-> Null]
        ELSE [table |-> Push(cleared, i, a), slot |-> i]

(* SVC_RateLimitAddress: the table after the request, and the verdict. *)
RateLimitAddress(a, limit) ==
    LET r == BucketForAddress(table, a, limit)
    IN  IF r.slot = Null THEN [table |-> r.table, limited |-> TRUE]
        ELSE LET b == r.table.slots[r.slot].bucket
             IN [table |-> [r.table EXCEPT !.slots[r.slot].bucket =
                                Charge(b, limit, Period, now)],
                 limited |-> Limited(b, limit, Period, now)]

----------------------------------------------------------------------------
Init == /\ now \in StartTimes
        /\ table = [slots |-> [i \in Slots |-> EmptySlot],
                    heads |-> [h \in Hashes |-> Null]]
        /\ outbound = ZeroBucket
        /\ rconBucket = ZeroBucket
        /\ verdict = "none"

RepliesLimited == Limited(outbound, OutLimit, OutPeriod, now)

(* Mutant: the bandwidth of the replies is charged before the address is   *)
(* looked at.                                                              *)
LimitReplyChargesFirst(a, limit) ==
    LET r == RateLimitAddress(a, limit)
    IN  /\ table' = IF RepliesLimited THEN table ELSE r.table
        /\ outbound' = Charge(outbound, OutLimit, OutPeriod, now)
        /\ verdict' = IF RepliesLimited THEN "replies"
                      ELSE IF r.limited THEN "address" ELSE "served"
        /\ UNCHANGED <<now, rconBucket>>

(* Mutant: the outbound bucket is held to the limit of the address. *)
LimitReplyByAddress(a, limit) ==
    LET r == RateLimitAddress(a, limit)
    IN  /\ table' = r.table
        /\ outbound' = IF r.limited THEN outbound
                       ELSE Charge(outbound, limit, OutPeriod, now)
        /\ verdict' = IF r.limited THEN "address"
                      ELSE IF Limited(outbound, limit, OutPeriod, now)
                      THEN "replies" ELSE "served"
        /\ UNCHANGED <<now, rconBucket>>

(* The limits of getchallenge, connect, ipAuthorize, getinfo and           *)
(* getstatus: first the address, then the bandwidth all replies share.     *)
LimitReply(a, limit) ==
    LET r == RateLimitAddress(a, limit)
    IN  /\ table' = r.table
        /\ outbound' = IF r.limited THEN outbound
                       ELSE Charge(outbound, OutLimit, OutPeriod, now)
        /\ verdict' = IF r.limited THEN "address"
                      ELSE IF RepliesLimited THEN "replies" ELSE "served"
        /\ UNCHANGED <<now, rconBucket>>

GetChallenge(a) == "getchallenge" \in Handlers /\ LimitReply(a, AddressLimit)
DirectConnect(a) == "connect" \in Handlers /\ LimitReply(a, AddressLimit)
AuthorizeIpPacket(a) == "ipAuthorize" \in Handlers /\ LimitReply(a, AuthorizeLimit)
Info(a) == "getinfo" \in Handlers /\ LimitReply(a, AddressLimit)
Status(a) == "getstatus" \in Handlers /\ LimitReply(a, AddressLimit)

GuessesLimited == Limited(rconBucket, AddressLimit, Period, now)

(* SVC_ApplyRconLimit: a bad password is also charged to a bucket that all *)
(* addresses share, a good one is not.                                     *)
RemoteCommand(a, badRconPassword) ==
    LET r == RateLimitAddress(a, AddressLimit)
    IN  /\ "rcon" \in Handlers
        /\ table' = r.table
        /\ rconBucket' = IF r.limited \/ ~badRconPassword THEN rconBucket
                         ELSE Charge(rconBucket, AddressLimit, Period, now)
        /\ verdict' = IF r.limited THEN "address"
                      ELSE IF badRconPassword /\ GuessesLimited
                      THEN "guesses" ELSE "served"
        /\ UNCHANGED <<now, outbound>>

Tick == /\ now < MaxNow
        /\ now' = now + 1
        /\ verdict' = "none"
        /\ UNCHANGED <<table, outbound, rconBucket>>

StepBack == /\ \E d \in StepSizes : d <= now /\ now' = now - d
            /\ verdict' = "none"
            /\ UNCHANGED <<table, outbound, rconBucket>>

Next == \/ \E a \in Address : \/ GetChallenge(a) \/ DirectConnect(a)
                              \/ AuthorizeIpPacket(a)
                              \/ Info(a) \/ Status(a)
                              \/ \E bad \in BOOLEAN : RemoteCommand(a, bad)
        \/ Tick
        \/ StepBack

Spec == Init /\ [][Next]_vars

----------------------------------------------------------------------------
Pointer == Slots \cup {Null}

AnyBucket(limit) == [lastTime : Int, burst : 0 .. limit]

TypeOK ==
    /\ now \in Nat
    /\ table.slots \in [Slots -> [adr : Address \cup {NoAddress}, hash : Hashes,
                                  prev : Pointer, next : Pointer,
                                  bucket : AnyBucket(AuthorizeLimit)]]
    /\ table.heads \in [Hashes -> Pointer]
    /\ outbound \in AnyBucket(OutLimit)
    /\ rconBucket \in AnyBucket(AddressLimit)
    /\ verdict \in Verdicts

(* The chains thread the table: a walk from a head ends, meets only slots  *)
(* in use whose address hashes to that chain, and finds each prev pointer  *)
(* where it came from; every slot in use is met, and no address holds two. *)
(* A slot left on a chain it was reclaimed from would let two addresses    *)
(* share a bucket, or make the lookup run for ever.                        *)
TableConsistent ==
    /\ \A h \in Hashes :
         LET walk == Walk(table, h)
         IN  /\ walk[NumSlots] = Null
             /\ \A k \in 0 .. NumSlots - 1 :
                  walk[k] # Null =>
                     /\ ~IsFree(table, walk[k])
                     /\ Hash[table.slots[walk[k]].adr] = h
                     /\ table.slots[walk[k]].prev = IF k = 0 THEN Null ELSE walk[k - 1]
    /\ \A i \in Slots :
         ~IsFree(table, i) =>
            /\ table.slots[i].hash = Hash[table.slots[i].adr]
            /\ \E k \in 0 .. NumSlots : Walk(table, table.slots[i].hash)[k] = i
            /\ \A j \in Slots \ {i} : table.slots[j].adr # table.slots[i].adr

SlotsOf(a) == {i \in Slots : table.slots[i].adr = a}

(* What an address owes: how far its bucket is from empty. *)
Debt(a) ==
    IF SlotsOf(a) = {} THEN -Period
    ELSE LET b == table.slots[CHOOSE i \in SlotsOf(a) : TRUE].bucket
             owed == EmptyAt(b, Period) - now
         IN IF owed < -Period THEN -Period ELSE owed

(* A packet is refused for its address's sake only if the address is at    *)
(* its limit, or if every slot is in use by an address heard from within   *)
(* limit periods: the table being full is temporary, but for slots stamped *)
(* at millisecond zero, which are never reclaimed.                         *)
NoFalseRefusal ==
    \A a \in Address, limit \in {AddressLimit, AuthorizeLimit} :
       RateLimitAddress(a, limit).limited =>
          IF SlotsOf(a) # {}
          THEN Debt(a) > (limit - 1) * Period
          ELSE \A i \in Slots :
                 LET stamp == table.slots[i].bucket.lastTime
                 IN  /\ ~IsFree(table, i)
                     /\ stamp = 0 \/ now - stamp \in 0 .. limit * Period
=============================================================================
