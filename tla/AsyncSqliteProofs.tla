------------------------- MODULE AsyncSqliteProofs -------------------------
(***************************************************************************)
(* The list of queries under two threads and one lock, for any number of   *)
(* tasks and connections: the list stays whole though tasks are appended   *)
(* without the lock, queries are done in the order in which scripts asked  *)
(* for them, and a query calls its script back once.                       *)
(***************************************************************************)
EXTENDS AsyncSqlite, SharedLemmas

Heaps == [Tasks -> Task \cup {Nothing}]
Threads == [at : {"none", "sleep", "walk", "prepare", "step", "finish"},
            cur : Pointer, task : Pointer]
Games == [at : {"script", "check", "callback", "free"}, cur : Pointer, task : Pointer]

IsListed == \E n, order : Listing(Tasks, Nothing, heap, first, n, order)

(* The task before t, if there is one, is done. *)
AfterDone(h, t) == h[t].prev # Nothing => h[h[t].prev].done

(* Where the query thread is: behind what is done, at a task that is not    *)
(* done, with a pointer to the one after it.                                *)
ThreadWalks ==
    /\ thread.at \in {"none", "sleep"} => thread.cur = Nothing
    /\ thread.at \in {"none", "sleep", "walk"} => thread.task = Nothing
    /\ thread.cur # Nothing => heap[thread.cur] # Nothing
    /\ thread.at = "walk" /\ thread.cur # Nothing => AfterDone(heap, thread.cur)
    /\ thread.at \in {"prepare", "step", "finish"} =>
          /\ thread.task \in Tasks /\ heap[thread.task] # Nothing
          /\ ~heap[thread.task].done /\ AfterDone(heap, thread.task)
          /\ thread.cur # Nothing => heap[thread.task].next = thread.cur
    /\ thread.at = "finish" =>
          heap[thread.task].error \/ heap[thread.task].statement = "finalized"

(* Where the game thread is. *)
GameWalks ==
    /\ game.cur # Nothing => heap[game.cur] # Nothing
    /\ game.at \in {"script", "free"} => game.cur = Nothing
    /\ game.at # "callback" => game.task = Nothing
    /\ game.at = "callback" => /\ game.task \in Tasks /\ heap[game.task] # Nothing
                               /\ heap[game.task].done

(* What is done was run, or has failed. *)
Results == \A t \in Tasks : heap[t] # Nothing /\ heap[t].done =>
              heap[t].error \/ heap[t].statement = "finalized"

(* What was called back is marked, unless the callback is still running. *)
Calls == \A t \in Tasks : called[t] > 0 =>
            /\ called[t] = 1
            /\ heap[t] # Nothing /\ heap[t].done /\ ~heap[t].error
            /\ heap[t].remove \/ game.task = t

Types == /\ heap \in Heaps /\ handles \subseteq Dbs /\ called \in [Tasks -> Nat]
         /\ thread \in Threads /\ game \in Games

(* The order of the list, said of the task before instead of that after.   *)
InOrder == \A t \in Tasks : heap[t] # Nothing /\ heap[t].done => AfterDone(heap, t)

SqliteInv == /\ Types /\ IsListed /\ InOrder
             /\ ThreadWalks /\ GameWalks /\ Results /\ Calls

----------------------------------------------------------------------------
(* What a task is, apart from its place in the list. *)
Same(r, k) == /\ r.done = k.done /\ r.error = k.error
              /\ r.remove = k.remove /\ r.statement = k.statement

(* Setting fields of a task leaves a task with its other fields. *)
LEMMA SetNext ==
    ASSUME NEW k \in Task, NEW p \in Pointer
    PROVE  /\ [k EXCEPT !.next = p] \in Task
           /\ [k EXCEPT !.next = p].next = p
           /\ [k EXCEPT !.next = p].prev = k.prev
           /\ Same([k EXCEPT !.next = p], k)
  BY Zenon DEF Task, Same

LEMMA SetPrev ==
    ASSUME NEW k \in Task, NEW p \in Pointer
    PROVE  /\ [k EXCEPT !.prev = p] \in Task
           /\ [k EXCEPT !.prev = p].prev = p
           /\ [k EXCEPT !.prev = p].next = k.next
           /\ Same([k EXCEPT !.prev = p], k)
  BY Zenon DEF Task, Same

LEMMA SetRemove ==
    ASSUME NEW k \in Task
    PROVE  LET r == [k EXCEPT !.remove = TRUE]
           IN  /\ r \in Task /\ r.prev = k.prev /\ r.next = k.next
               /\ r.done = k.done /\ r.error = k.error /\ r.statement = k.statement
               /\ r.remove = TRUE
  BY Zenon DEF Task

LEMMA SetDone ==
    ASSUME NEW k \in Task
    PROVE  LET r == [k EXCEPT !.done = TRUE]
           IN  /\ r \in Task /\ r.prev = k.prev /\ r.next = k.next
               /\ r.done = TRUE /\ r.error = k.error /\ r.statement = k.statement
               /\ r.remove = k.remove
  BY Zenon DEF Task

LEMMA SetStatement ==
    ASSUME NEW k \in Task, NEW s \in {"unset", "null", "open", "finalized"}
    PROVE  LET r == [k EXCEPT !.statement = s]
           IN  /\ r \in Task /\ r.prev = k.prev /\ r.next = k.next
               /\ r.done = k.done /\ r.error = k.error /\ r.statement = s
               /\ r.remove = k.remove
  BY Zenon DEF Task

LEMMA SetResult ==
    ASSUME NEW k \in Task, NEW e \in BOOLEAN, NEW s \in {"unset", "null", "open", "finalized"}
    PROVE  LET r == [k EXCEPT !.error = e, !.statement = s]
           IN  /\ r \in Task /\ r.prev = k.prev /\ r.next = k.next
               /\ r.done = k.done /\ r.error = e /\ r.statement = s
               /\ r.remove = k.remove
  BY Zenon DEF Task

----------------------------------------------------------------------------
(* The neighbours of a listed task. *)
LEMMA Around ==
    ASSUME Types, IsListed
    PROVE  /\ first # Nothing => first \in Tasks /\ heap[first] # Nothing
           /\ \A t \in Tasks : heap[t] # Nothing =>
                 /\ heap[t] \in Task
                 /\ heap[t].prev = Nothing <=> first = t
                 /\ heap[t].prev # Nothing =>
                       /\ heap[t].prev \in Tasks /\ heap[heap[t].prev] # Nothing
                       /\ heap[heap[t].prev].next = t /\ heap[t].prev # t
                 /\ heap[t].next # Nothing =>
                       /\ heap[t].next \in Tasks /\ heap[heap[t].next] # Nothing
                       /\ heap[heap[t].next].prev = t /\ heap[t].next # t
                       /\ heap[t].next # heap[t].prev
  <1>1. PICK n, order : Listing(Tasks, Nothing, heap, first, n, order)
    BY DEF IsListed
  <1>2. Nothing \notin Tasks
    BY SqliteAssumption
  <1>3. \A t \in Tasks : heap[t] # Nothing => heap[t] \in Task
    BY DEF Types, Heaps
  <1> QED
    BY <1>1, <1>2, <1>3, Neighbours

----------------------------------------------------------------------------
(* A step that takes no task out: tasks stay where they are and are done    *)
(* for good.                                                                *)
Keeps(h, g) == \A t \in Tasks : h[t] # Nothing =>
                  /\ g[t] # Nothing
                  /\ g[t].prev = h[t].prev
                  /\ h[t].next # Nothing => g[t].next = h[t].next
                  /\ h[t].done => /\ g[t].done /\ g[t].error = h[t].error
                                  /\ g[t].statement = h[t].statement
                                  /\ h[t].remove => g[t].remove

LEMMA AfterDoneKept ==
    ASSUME Types, IsListed, NEW g, Keeps(heap, g), NEW t \in Tasks, heap[t] # Nothing,
           AfterDone(heap, t)
    PROVE  AfterDone(g, t)
  BY Around DEF AfterDone, Keeps

(* One task is written to, but for its place in the list. *)
LEMMA FieldStep ==
    ASSUME SqliteInv, first' = first, NEW t \in Tasks, heap[t] # Nothing,
           NEW k \in Task, heap' = [heap EXCEPT ![t] = k],
           k.prev = heap[t].prev, k.next = heap[t].next,
           heap[t].done => /\ k.done /\ k.error = heap[t].error
                           /\ k.statement = heap[t].statement
                           /\ heap[t].remove => k.remove,
           k.done => /\ heap[t].done \/ AfterDone(heap, t)
                     /\ k.error \/ k.statement = "finalized"
    PROVE  /\ heap' \in Heaps /\ heap'[t] = k
           /\ \A x \in Tasks : x # t => heap'[x] = heap[x]
           /\ IsListed' /\ InOrder' /\ Results' /\ Keeps(heap, heap')
  <1>1. Types /\ IsListed /\ InOrder /\ Results /\ heap \in Heaps /\ Nothing \notin Task
    BY SqliteAssumption DEF SqliteInv, Types
  <1>2. /\ heap' \in Heaps /\ heap'[t] = k
        /\ \A x \in Tasks : x # t => heap'[x] = heap[x]
    BY <1>1 DEF Heaps
  <1>3. \A x \in Tasks : /\ heap'[x] = Nothing <=> heap[x] = Nothing
                         /\ heap[x] # Nothing => /\ heap'[x].prev = heap[x].prev
                                                 /\ heap'[x].next = heap[x].next
    BY <1>1, <1>2
  <1>4. IsListed'
    <2>1. PICK n, order : Listing(Tasks, Nothing, heap, first, n, order)
      BY <1>1 DEF IsListed
    <2>2. Listing(Tasks, Nothing, heap', first', n, order)
      BY <1>3, <2>1, SameListing
    <2> QED
      BY <2>2 DEF IsListed
  <1>5. Keeps(heap, heap')
    BY <1>1, <1>2, <1>3 DEF Keeps
  <1>6. ASSUME NEW x \in Tasks, heap'[x] # Nothing, heap'[x].done
        PROVE  AfterDone(heap', x)
    <2>1. heap[x] # Nothing /\ AfterDone(heap, x)
      BY <1>1, <1>2, <1>3, <1>6 DEF InOrder
    <2> QED
      BY <1>1, <1>5, <2>1, AfterDoneKept
  <1>7. InOrder'
    BY <1>6 DEF InOrder
  <1>8. Results'
    BY <1>1, <1>2, <1>3 DEF Results
  <1> QED
    BY <1>2, <1>4, <1>5, <1>7, <1>8

(* What a step that takes no task out leaves of the walks and the calls. *)
LEMMA ThreadKept ==
    ASSUME SqliteInv, Keeps(heap, heap'), thread' = thread,
           thread.task # Nothing => Same(heap'[thread.task], heap[thread.task])
    PROVE  ThreadWalks'
  <1>1. Types /\ IsListed /\ ThreadWalks /\ thread \in Threads /\ Nothing \notin Tasks
    BY SqliteAssumption DEF SqliteInv, Types
  <1>2. thread.cur \in Pointer /\ thread.task \in Pointer
    BY <1>1 DEF Threads
  <1>3. thread.cur # Nothing =>
           /\ thread.cur \in Tasks /\ heap'[thread.cur] # Nothing
           /\ AfterDone(heap, thread.cur) => AfterDone(heap', thread.cur)
    BY <1>1, <1>2, AfterDoneKept DEF ThreadWalks, Keeps, Pointer
  <1>4. ASSUME thread.at \in {"prepare", "step", "finish"}
        PROVE  /\ thread.task \in Tasks /\ heap'[thread.task] # Nothing
               /\ ~heap'[thread.task].done /\ AfterDone(heap', thread.task)
               /\ thread.cur # Nothing => heap'[thread.task].next = thread.cur
    <2>1. /\ thread.task \in Tasks /\ heap[thread.task] # Nothing
          /\ ~heap[thread.task].done /\ AfterDone(heap, thread.task)
          /\ thread.cur # Nothing => heap[thread.task].next = thread.cur
      BY <1>1, <1>4 DEF ThreadWalks
    <2>2. AfterDone(heap', thread.task)
      BY <1>1, <2>1, AfterDoneKept
    <2> QED
      BY <1>1, <2>1, <2>2 DEF Keeps, Same
  <1>5. thread.at = "finish" =>
           heap'[thread.task].error \/ heap'[thread.task].statement = "finalized"
    BY <1>1 DEF ThreadWalks, Same
  <1> QED
    BY <1>1, <1>3, <1>4, <1>5 DEF ThreadWalks

LEMMA GameKept ==
    ASSUME SqliteInv, Keeps(heap, heap'), game' = game
    PROVE  GameWalks'
  <1>1. GameWalks /\ game \in Games
    BY DEF SqliteInv, Types
  <1>2. game.cur \in Pointer
    BY <1>1 DEF Games
  <1>3. game.cur # Nothing => heap'[game.cur] # Nothing
    BY <1>1, <1>2 DEF GameWalks, Keeps, Pointer
  <1> QED
    BY <1>1, <1>3 DEF GameWalks, Keeps

LEMMA CallsKept ==
    ASSUME SqliteInv, Keeps(heap, heap'), called' = called, game'.task = game.task
    PROVE  Calls'
  BY DEF SqliteInv, Calls, Keeps

(* A step that writes to no task. *)
LEMMA QuietStep ==
    ASSUME SqliteInv, heap' = heap, first' = first, called' = called,
           handles' \subseteq Dbs, thread' \in Threads, game' \in Games,
           ThreadWalks', GameWalks', game'.task = game.task
    PROVE  SqliteInv'
  <1>1. Keeps(heap, heap')
    BY DEF Keeps
  <1>2. Types' /\ IsListed' /\ InOrder' /\ Results'
    BY DEF SqliteInv, Types, IsListed, InOrder, Results
  <1>3. Calls'
    BY <1>1, CallsKept
  <1> QED
    BY <1>2, <1>3 DEF SqliteInv

----------------------------------------------------------------------------
(* A new task is listed, behind the last. *)
LEMMA LinkedLast ==
    ASSUME Types, IsListed,
           NEW k \in Task, k.prev = Nothing, k.next = Nothing,
           NEW t \in Tasks, heap[t] = Nothing, LinkLast(k, t)
    PROVE  /\ heap' \in Heaps /\ IsListed'
           /\ heap'[t] # Nothing /\ Same(heap'[t], k)
           /\ \A x \in Tasks : x # t =>
                 /\ heap'[x] = Nothing <=> heap[x] = Nothing
                 /\ heap[x] # Nothing =>
                       /\ Same(heap'[x], heap[x])
                       /\ heap'[x].prev = heap[x].prev
                       /\ heap[x].next # Nothing => heap'[x].next = heap[x].next
  <1>0. Nothing \notin Tasks /\ Nothing \notin Task /\ heap \in Heaps
    BY SqliteAssumption DEF Types
  <1>1. PICK n, order : Listing(Tasks, Nothing, heap, first, n, order)
    BY DEF IsListed
  <1>2. n \in Nat /\ (first = Nothing <=> n = 0)
    <2>1. n # 0 => 1 \in 1 .. n /\ order[1] \in Tasks
      BY <1>1 DEF Listing
    <2> QED
      BY <1>0, <1>1, <2>1 DEF Listing
  <1>3. CASE first = Nothing
    <2>1. heap' = [heap EXCEPT ![t] = k] /\ first' = t
      BY <1>3 DEF LinkLast
    <2>2. heap' \in Heaps /\ heap'[t] = k /\ \A x \in Tasks : x # t => heap'[x] = heap[x]
      BY <1>0, <2>1 DEF Heaps
    <2>3. \A x \in Tasks : heap[x] = Nothing
      BY <1>1, <1>2, <1>3 DEF Listing
    <2>4. \E l : Listing(Tasks, Nothing, heap', IF n = 0 THEN t ELSE first, n + 1, l)
      BY <1>0, <1>1, <1>2, <1>3, <2>2, <2>3, Appending
    <2>5. IsListed'
      BY <1>2, <1>3, <2>1, <2>4 DEF IsListed
    <2> QED
      BY <1>0, <2>2, <2>3, <2>5 DEF Same
  <1>4. CASE first # Nothing
    <2> DEFINE last == order[n]
               a == [k EXCEPT !.prev = last]
               b == [heap[last] EXCEPT !.next = t]
    <2>1. /\ last \in Tasks /\ heap[last] # Nothing /\ heap[last].next = Nothing
          /\ \A x \in Tasks : heap[x] # Nothing /\ heap[x].next = Nothing => x = last
      BY <1>0, <1>1, <1>4, LastListed
    <2> HIDE DEF last
    <2>2. LastTask = last
      BY <2>1 DEF LastTask, Listed
    <2>3. heap[last] \in Task /\ last # t /\ t \in Pointer /\ last \in Pointer
      BY <1>0, <2>1 DEF Heaps, Pointer
    <2>4. heap' = [heap EXCEPT ![t] = a, ![last] = b] /\ first' = first
      BY <1>0, <1>4, <2>2, <2>3 DEF LinkLast, Heaps
    <2>5. a \in Task /\ a.prev = last /\ a.next = Nothing /\ Same(a, k)
      BY <2>3, SetPrev
    <2>6. b \in Task /\ b.next = t /\ b.prev = heap[last].prev /\ Same(b, heap[last])
      BY <2>3, SetNext
    <2> HIDE DEF a, b
    <2>7. /\ heap' \in Heaps /\ heap'[t] = a /\ heap'[last] = b
          /\ \A x \in Tasks : x # t /\ x # last => heap'[x] = heap[x]
      BY <1>0, <2>1, <2>3, <2>4, <2>5, <2>6 DEF Heaps
    <2>8. \A x \in Tasks : x # t =>
             /\ heap'[x] = Nothing <=> heap[x] = Nothing
             /\ heap[x] # Nothing =>
                   /\ Same(heap'[x], heap[x])
                   /\ heap'[x].prev = heap[x].prev
                   /\ heap'[x].next = IF heap[x].next = Nothing THEN t ELSE heap[x].next
      BY <1>0, <2>1, <2>6, <2>7 DEF Same
    <2>9. heap'[t] # Nothing /\ heap'[t].next = Nothing /\ Same(heap'[t], k)
          /\ heap'[t].prev = IF n = 0 THEN Nothing ELSE order[n]
      BY <1>0, <1>2, <1>4, <2>5, <2>7 DEF last
    <2>10. \E l : Listing(Tasks, Nothing, heap', IF n = 0 THEN t ELSE first, n + 1, l)
      BY <1>0, <1>1, <2>8, <2>9, Appending
    <2>11. IsListed'
      BY <1>2, <1>4, <2>4, <2>10 DEF IsListed
    <2> QED
      BY <2>7, <2>8, <2>9, <2>11
  <1> QED
    BY <1>3, <1>4

(* The four functions that create a query, whoever walks meanwhile. *)
LEMMA CreateStep ==
    ASSUME SqliteInv, NEW t \in Tasks, NEW db \in Dbs, NEW calls \in BOOLEAN,
           Create(t, db, calls)
    PROVE  SqliteInv'
  <1> DEFINE k == [prev |-> Nothing, next |-> Nothing, db |-> db, calls |-> calls,
                   done |-> FALSE, error |-> FALSE, remove |-> FALSE,
                   statement |-> "unset"]
  <1>0. /\ Types /\ IsListed /\ InOrder /\ ThreadWalks /\ Results
        /\ thread \in Threads
    BY DEF SqliteInv, Types
  <1>1. k \in Task
    BY Zenon DEF Task, Pointer
  <1>2. k.prev = Nothing /\ k.next = Nothing /\ k.done = FALSE
    OBVIOUS
  <1>3. /\ heap[t] = Nothing /\ LinkLast(k, t) /\ called' = called /\ handles' = handles
        /\ thread' = thread /\ game' = game
    BY DEF Create, connections
  <1> HIDE DEF k
  <1>4. /\ heap' \in Heaps /\ IsListed'
        /\ heap'[t] # Nothing /\ Same(heap'[t], k)
        /\ \A x \in Tasks : x # t =>
              /\ heap'[x] = Nothing <=> heap[x] = Nothing
              /\ heap[x] # Nothing =>
                    /\ Same(heap'[x], heap[x])
                    /\ heap'[x].prev = heap[x].prev
                    /\ heap[x].next # Nothing => heap'[x].next = heap[x].next
    BY <1>0, <1>1, <1>2, <1>3, LinkedLast
  <1>5. Keeps(heap, heap')
    BY <1>3, <1>4 DEF Keeps, Same
  <1>6. Types'
    BY <1>0, <1>3, <1>4 DEF Types
  <1>7. ASSUME NEW x \in Tasks, heap'[x] # Nothing, heap'[x].done
        PROVE  heap[x] # Nothing /\ heap[x].done /\ Same(heap'[x], heap[x])
    BY <1>2, <1>4, <1>7 DEF Same
  <1>8. InOrder'
    BY <1>0, <1>5, <1>7, AfterDoneKept DEF InOrder
  <1>9. Results'
    BY <1>0, <1>7 DEF Results, Same
  <1>10. ThreadWalks'
    <2>1. thread.task # Nothing => thread.task \in Tasks /\ heap[thread.task] # Nothing
      BY <1>0 DEF ThreadWalks, Threads
    <2>2. thread.task # Nothing => Same(heap'[thread.task], heap[thread.task])
      BY <1>3, <1>4, <2>1
    <2> QED
      BY <1>3, <1>5, <2>2, ThreadKept
  <1>11. GameWalks' /\ Calls'
    BY <1>3, <1>5, GameKept, CallsKept
  <1> QED
    BY <1>4, <1>6, <1>8, <1>9, <1>10, <1>11 DEF SqliteInv

----------------------------------------------------------------------------
(* A task is removed while nobody holds the lock. *)
LEMMA RemoveStep ==
    ASSUME SqliteInv, NEW t \in Tasks, VisitRemoved(t), MayRemove
    PROVE  SqliteInv'
  <1> DEFINE pr == heap[t].prev
             ne == heap[t].next
  <1>0. /\ Types /\ IsListed /\ InOrder /\ ThreadWalks /\ GameWalks /\ Results /\ Calls
        /\ heap \in Heaps /\ Nothing \notin Tasks /\ Nothing \notin Task
        /\ thread \in Threads /\ game \in Games /\ called \in [Tasks -> Nat]
    BY SqliteAssumption DEF SqliteInv, Types
  <1>1. /\ game.at = "check" /\ game.cur = t /\ heap[t] # Nothing
        /\ heap' = Unlinked(t) /\ first' = (IF first = t THEN heap[t].next ELSE first)
        /\ called' = [called EXCEPT ![t] = 0]
        /\ game' = [game EXCEPT !.cur = heap[game.cur].next]
        /\ thread' = thread /\ handles' = handles
    BY DEF VisitRemoved, Visit, Advance, connections
  <1>2. thread.at \in {"none", "sleep"}
    BY <1>0 DEF MayRemove, Locked, Threads
  <1>3. PICK n, order : Listing(Tasks, Nothing, heap, first, n, order)
    BY <1>0 DEF IsListed
  <1>4. /\ pr # Nothing => pr \in Tasks /\ heap[pr] # Nothing /\ heap[pr].next = t /\ pr # t
        /\ ne # Nothing => ne \in Tasks /\ heap[ne] # Nothing /\ heap[ne].prev = t
                           /\ ne # pr
        /\ ne # t
    BY <1>0, <1>1, Around
  <1>5. heap[t] \in Task /\ pr \in Pointer /\ ne \in Pointer
    BY <1>0, <1>1 DEF Heaps, Task
  <1>6. \A x \in Tasks : heap[x] # Nothing /\ heap[x].prev = t => x = ne
    BY <1>0, <1>1, Around
  <1> HIDE DEF pr, ne
  <1>7. heap' = [x \in Tasks |->
                    IF x = t THEN Nothing
                    ELSE IF ne = x THEN [heap[x] EXCEPT !.prev = pr]
                    ELSE IF pr = x THEN [heap[x] EXCEPT !.next = ne]
                    ELSE heap[x]]
    BY <1>1 DEF Unlinked, pr, ne
  <1>8. ASSUME NEW x \in Tasks, x # t
        PROVE  /\ heap'[x] \in Task \cup {Nothing}
               /\ heap'[x] = Nothing <=> heap[x] = Nothing
               /\ heap[x] # Nothing =>
                     /\ Same(heap'[x], heap[x])
                     /\ heap'[x].prev = IF x = ne THEN pr ELSE heap[x].prev
                     /\ heap'[x].next = IF x = pr THEN ne ELSE heap[x].next
    <2>1. CASE x = ne
      <3>1. heap[x] \in Task /\ x # pr
        BY <1>0, <1>4, <1>8, <2>1 DEF Heaps
      <3>2. heap'[x] = [heap[x] EXCEPT !.prev = pr]
        BY <1>7, <1>8, <2>1
      <3> QED
        BY <1>0, <1>5, <2>1, <3>1, <3>2, SetPrev
    <2>2. CASE x # ne /\ x = pr
      <3>1. heap[x] \in Task
        BY <1>0, <1>4, <1>8, <2>2 DEF Heaps
      <3>2. heap'[x] = [heap[x] EXCEPT !.next = ne]
        BY <1>7, <1>8, <2>2
      <3> QED
        BY <1>0, <1>5, <2>2, <3>1, <3>2, SetNext
    <2>3. CASE x # ne /\ x # pr
      <3>1. heap'[x] = heap[x]
        BY <1>7, <1>8, <2>3
      <3> QED
        BY <1>0, <2>3, <3>1 DEF Heaps, Same
    <2> QED
      BY <2>1, <2>2, <2>3
  <1>9. heap'[t] = Nothing
    BY <1>7
  <1>10. heap' \in Heaps
    BY <1>7, <1>8, <1>9 DEF Heaps
  <1>11. IsListed'
    <2>1. \E l : Listing(Tasks, Nothing, heap', IF first = t THEN ne ELSE first, n - 1, l)
      BY <1>0, <1>1, <1>3, <1>8, <1>9, Removing DEF pr, ne, Same
    <2> QED
      BY <1>1, <2>1 DEF IsListed, ne
  <1>12. /\ game' \in Games /\ game'.at = "check" /\ game'.task = game.task /\ game'.cur = ne
    <2>1. game' = [game EXCEPT !.cur = ne]
      BY <1>1 DEF ne
    <2> QED
      BY <1>0, <1>1, <1>5, <2>1, Zenon DEF Games
  <1>13. called' \in [Tasks -> Nat] /\ called'[t] = 0
         /\ \A x \in Tasks : x # t => called'[x] = called[x]
    BY <1>0, <1>1
  <1>14. Types'
    BY <1>0, <1>1, <1>10, <1>12, <1>13 DEF Types
  <1>15. ASSUME NEW x \in Tasks, heap'[x] # Nothing, heap'[x].done, heap'[x].prev # Nothing
         PROVE  heap'[heap'[x].prev].done
    <2>1. x # t /\ heap[x] # Nothing /\ heap[x].done
      BY <1>8, <1>9, <1>15 DEF Same
    <2>2. AfterDone(heap, x)
      BY <1>0, <2>1 DEF InOrder
    <2>3. CASE x = ne
      <3>1. heap'[x].prev = pr /\ pr # Nothing
        BY <1>8, <1>15, <2>1, <2>3
      <3>2. heap[t].done
        BY <1>0, <1>1, <1>4, <2>2, <2>3 DEF AfterDone
      <3>3. heap[pr].done
        BY <1>0, <1>1, <3>1, <3>2 DEF InOrder, AfterDone, pr
      <3> QED
        BY <1>4, <1>8, <3>1, <3>3 DEF Same
    <2>4. CASE x # ne
      <3>1. heap'[x].prev = heap[x].prev /\ heap[x].prev # Nothing
        BY <1>8, <1>15, <2>1, <2>4
      <3>2. heap[x].prev \in Tasks /\ heap[heap[x].prev] # Nothing /\ heap[x].prev # t
        BY <1>0, <1>6, <2>1, <2>4, <3>1, Around
      <3>3. heap[heap[x].prev].done
        BY <2>2, <3>1 DEF AfterDone
      <3> QED
        BY <1>8, <3>1, <3>2, <3>3 DEF Same
    <2> QED
      BY <2>3, <2>4
  <1>16. InOrder'
    BY <1>15 DEF InOrder, AfterDone
  <1>17. ThreadWalks'
    BY <1>0, <1>1, <1>2 DEF ThreadWalks
  <1>18. GameWalks'
    BY <1>0, <1>1, <1>4, <1>8, <1>12 DEF GameWalks
  <1>19. Results'
    BY <1>0, <1>8, <1>9 DEF Results, Same
  <1>20. Calls'
    BY <1>0, <1>8, <1>9, <1>12, <1>13 DEF Calls, Same
  <1> QED
    BY <1>11, <1>14, <1>16, <1>17, <1>18, <1>19, <1>20 DEF SqliteInv

----------------------------------------------------------------------------
(* Nothing is left in memory: at the start, after a map change, and when    *)
(* the process has ended.                                                   *)
LEMMA Cleared ==
    ASSUME heap = [t \in Tasks |-> Nothing], first = Nothing,
           called = [t \in Tasks |-> 0], handles \subseteq Dbs,
           thread \in Threads, thread.at \in {"none", "sleep"},
           thread.cur = Nothing, thread.task = Nothing,
           game \in Games, game.at = "script", game.cur = Nothing, game.task = Nothing
    PROVE  SqliteInv
  <1>1. Types
    BY DEF Types, Heaps
  <1>2. Listing(Tasks, Nothing, heap, first, 0, <<>>)
    BY DEF Listing
  <1>3. IsListed
    BY <1>2 DEF IsListed
  <1>4. InOrder /\ Results /\ Calls
    BY DEF InOrder, Results, Calls
  <1>5. ThreadWalks /\ GameWalks
    BY DEF ThreadWalks, GameWalks
  <1> QED
    BY <1>1, <1>3, <1>4, <1>5 DEF SqliteInv

LEMMA StartsAsleep ==
    /\ [at |-> "none", cur |-> Nothing, task |-> Nothing] \in Threads
    /\ [at |-> "script", cur |-> Nothing, task |-> Nothing] \in Games
  <1>1. Nothing \in Pointer
    BY DEF Pointer
  <1> QED
    BY <1>1 DEF Threads, Games

LEMMA InitInv == Init => SqliteInv
  BY Cleared, StartsAsleep DEF Init

LEMMA ClearedNext ==
    ASSUME heap' = [t \in Tasks |-> Nothing], first' = Nothing,
           called' = [t \in Tasks |-> 0], handles' \subseteq Dbs,
           thread' \in Threads, thread'.at \in {"none", "sleep"},
           thread'.cur = Nothing, thread'.task = Nothing,
           game' \in Games, game'.at = "script", game'.cur = Nothing, game'.task = Nothing
    PROVE  SqliteInv'
  <1>1. Types'
    BY DEF Types, Heaps
  <1>2. Listing(Tasks, Nothing, heap', first', 0, <<>>)
    BY DEF Listing
  <1>3. IsListed'
    BY <1>2 DEF IsListed
  <1>4. InOrder' /\ Results' /\ Calls'
    BY DEF InOrder, Results, Calls
  <1>5. ThreadWalks' /\ GameWalks'
    BY DEF ThreadWalks, GameWalks
  <1> QED
    BY <1>1, <1>3, <1>4, <1>5 DEF SqliteInv

LEMMA CrashStep == Crash => SqliteInv'
  BY ClearedNext, StartsAsleep DEF Crash

LEMMA FreeAllStep ==
    ASSUME SqliteInv, FreeAll
    PROVE  SqliteInv'
  <1>1. /\ ThreadWalks /\ GameWalks /\ thread \in Threads /\ game \in Games
        /\ handles \subseteq Dbs
    BY DEF SqliteInv, Types
  <1>2. game' = [game EXCEPT !.at = "script"] /\ thread' = thread /\ handles' = handles
        /\ game.at = "free" /\ thread.at \in {"none", "sleep"}
    BY <1>1 DEF FreeAll, Locked, Threads
  <1>3. game' \in Games /\ game'.at = "script" /\ game'.cur = game.cur /\ game'.task = game.task
    BY <1>1, <1>2, Zenon DEF Games
  <1>4. game.cur = Nothing /\ game.task = Nothing /\ thread.cur = Nothing /\ thread.task = Nothing
    BY <1>1, <1>2 DEF ThreadWalks, GameWalks
  <1> QED
    BY <1>1, <1>2, <1>3, <1>4, ClearedNext DEF FreeAll

----------------------------------------------------------------------------
(* The query thread. *)
LEMMA ThreadFields ==
    ASSUME thread \in Threads, NEW p \in Pointer,
           NEW at \in {"none", "sleep", "walk", "prepare", "step", "finish"}
    PROVE  /\ thread' = [thread EXCEPT !.at = at]
              => /\ thread' \in Threads /\ thread'.at = at
                 /\ thread'.cur = thread.cur /\ thread'.task = thread.task
           /\ thread' = [thread EXCEPT !.cur = p]
              => /\ thread' \in Threads /\ thread'.at = thread.at
                 /\ thread'.cur = p /\ thread'.task = thread.task
           /\ thread' = [thread EXCEPT !.at = at, !.cur = p]
              => /\ thread' \in Threads /\ thread'.at = at
                 /\ thread'.cur = p /\ thread'.task = thread.task
           /\ thread' = [thread EXCEPT !.at = at, !.task = p]
              => /\ thread' \in Threads /\ thread'.at = at
                 /\ thread'.cur = thread.cur /\ thread'.task = p
  BY Zenon DEF Threads

(* The thread moves and writes to no task. *)
LEMMA ThreadQuiet ==
    ASSUME SqliteInv, UNCHANGED <<up, list, connections, game, spawning>>,
           thread' \in Threads, ThreadWalks'
    PROVE  SqliteInv'
  <1>1. /\ heap' = heap /\ first' = first /\ called' = called /\ handles' = handles
        /\ game' = game
    BY DEF list, connections
  <1>2. Types /\ GameWalks
    BY DEF SqliteInv
  <1>3. GameWalks'
    BY <1>1, <1>2 DEF GameWalks
  <1> QED
    BY <1>1, <1>2, <1>3, QuietStep DEF Types

(* The thread writes to its task, which is not done before. *)
LEMMA ThreadWrites ==
    ASSUME SqliteInv, thread.at \in {"prepare", "step", "finish"},
           UNCHANGED <<up, first, called, connections, game, spawning>>,
           NEW k \in Task, heap' = [heap EXCEPT ![thread.task] = k],
           k.prev = heap[thread.task].prev, k.next = heap[thread.task].next,
           k.done => k.error \/ k.statement = "finalized",
           thread' \in Threads, thread'.cur = thread.cur,
           \/ /\ thread'.at \in {"step", "finish"} /\ thread'.task = thread.task /\ ~k.done
              /\ thread'.at = "finish" => k.error \/ k.statement = "finalized"
           \/ thread'.at = "walk" /\ thread'.task = Nothing /\ k.done
    PROVE  SqliteInv'
  <1> DEFINE t == thread.task
  <1>0. /\ Types /\ IsListed /\ InOrder /\ ThreadWalks /\ GameWalks /\ thread \in Threads
    BY DEF SqliteInv, Types
  <1>1. /\ t \in Tasks /\ heap[t] # Nothing /\ ~heap[t].done /\ AfterDone(heap, t)
        /\ thread.cur # Nothing => heap[t].next = thread.cur
    BY <1>0 DEF ThreadWalks
  <1>2. thread.cur \in Pointer
    BY <1>0 DEF Threads
  <1>3. /\ first' = first /\ called' = called /\ handles' = handles /\ game' = game
    BY DEF connections
  <1> HIDE DEF t
  <1>4. /\ heap' \in Heaps /\ heap'[t] = k
        /\ \A x \in Tasks : x # t => heap'[x] = heap[x]
        /\ IsListed' /\ InOrder' /\ Results' /\ Keeps(heap, heap')
    BY <1>1, <1>3, FieldStep DEF t
  <1>5. Types'
    BY <1>0, <1>3, <1>4 DEF Types
  <1>6. GameWalks' /\ Calls'
    BY <1>3, <1>4, GameKept, CallsKept
  <1>7. AfterDone(heap', t)
    BY <1>0, <1>1, <1>4, AfterDoneKept
  <1>8. thread.cur # Nothing => /\ heap'[thread.cur] # Nothing /\ thread.cur \in Tasks
                                /\ heap'[t].next = thread.cur /\ heap'[thread.cur].prev = t
    <2>1. thread.cur # Nothing => /\ thread.cur \in Tasks /\ heap[thread.cur] # Nothing
                                  /\ heap[thread.cur].prev = t
      BY <1>0, <1>1, Around
    <2> QED
      BY <1>1, <1>4, <2>1 DEF Keeps
  <1>9. ThreadWalks'
    <2>1. CASE /\ thread'.at \in {"step", "finish"} /\ thread'.task = t /\ ~k.done
               /\ thread'.at = "finish" => k.error \/ k.statement = "finalized"
      BY <1>1, <1>4, <1>7, <1>8, <2>1 DEF ThreadWalks, Keeps
    <2>2. CASE thread'.at = "walk" /\ thread'.task = Nothing /\ k.done
      <3>1. thread.cur # Nothing => AfterDone(heap', thread.cur)
        BY <1>4, <1>8, <2>2 DEF AfterDone
      <3> QED
        BY <1>8, <2>2, <3>1 DEF ThreadWalks
    <2> QED
      BY <2>1, <2>2 DEF t
  <1> QED
    BY <1>4, <1>5, <1>6, <1>9 DEF SqliteInv

LEMMA ThreadMoves ==
    ASSUME SqliteInv, ThreadLocks \/ ThreadUnlocks \/ \E t \in Tasks : ThreadTakes(t)
    PROVE  SqliteInv'
  <1>0. /\ Types /\ IsListed /\ InOrder /\ ThreadWalks /\ thread \in Threads
        /\ Nothing \notin Tasks /\ Nothing \in Pointer
    BY SqliteAssumption DEF SqliteInv, Types, Pointer
  <1>1. CASE ThreadLocks
    <2>1. /\ first \in Pointer
          /\ first # Nothing => heap[first] # Nothing /\ AfterDone(heap, first)
      BY <1>0, Around DEF Pointer, AfterDone
    <2>2. thread' = [thread EXCEPT !.at = "walk", !.cur = first] /\ heap' = heap
          /\ thread.at = "sleep"
      BY <1>1 DEF ThreadLocks, list
    <2>3. /\ thread' \in Threads /\ thread'.at = "walk" /\ thread'.cur = first
          /\ thread'.task = thread.task
      BY <1>0, <2>1, <2>2, ThreadFields
    <2>4. ThreadWalks'
      BY <1>0, <2>1, <2>2, <2>3 DEF ThreadWalks
    <2> QED
      BY <1>1, <2>3, <2>4, ThreadQuiet DEF ThreadLocks
  <1>2. CASE ThreadUnlocks
    <2>1. thread' = [thread EXCEPT !.at = "sleep"] /\ heap' = heap
          /\ thread.at = "walk" /\ thread.cur = Nothing
      BY <1>2 DEF ThreadUnlocks, list
    <2>2. /\ thread' \in Threads /\ thread'.at = "sleep" /\ thread'.cur = thread.cur
          /\ thread'.task = thread.task
      BY <1>0, <2>1, ThreadFields
    <2>3. ThreadWalks'
      BY <1>0, <2>1, <2>2 DEF ThreadWalks
    <2> QED
      BY <1>2, <2>2, <2>3, ThreadQuiet DEF ThreadUnlocks
  <1>3. ASSUME NEW t \in Tasks, ThreadTakes(t)
        PROVE  SqliteInv'
    <2>1. /\ thread.at = "walk" /\ thread.cur = t /\ heap[t] # Nothing /\ heap' = heap
          /\ heap[t].done => thread' = [thread EXCEPT !.cur = heap[t].next]
          /\ ~heap[t].done =>
                thread' = [at |-> "prepare", cur |-> heap[t].next, task |-> t]
      BY <1>3 DEF ThreadTakes, list
    <2>2. /\ heap[t] \in Task /\ heap[t].next \in Pointer /\ t \in Pointer
      BY <1>0, <2>1 DEF Types, Heaps, Task, Pointer
    <2>3. heap[t].next # Nothing => /\ heap[heap[t].next] # Nothing
                                    /\ heap[heap[t].next].prev = t
      BY <1>0, <2>1, Around
    <2>4. CASE heap[t].done
      <3>1. /\ thread' \in Threads /\ thread'.at = "walk" /\ thread'.cur = heap[t].next
            /\ thread'.task = thread.task
        BY <1>0, <2>1, <2>2, <2>4, ThreadFields
      <3>2. ThreadWalks'
        BY <1>0, <2>1, <2>3, <2>4, <3>1 DEF ThreadWalks, AfterDone
      <3> QED
        BY <1>3, <3>1, <3>2, ThreadQuiet DEF ThreadTakes
    <2>5. CASE ~heap[t].done
      <3>1. /\ thread' \in Threads /\ thread'.at = "prepare" /\ thread'.cur = heap[t].next
            /\ thread'.task = t
        BY <2>1, <2>2, <2>5 DEF Threads
      <3>2. ThreadWalks'
        BY <1>0, <2>1, <2>3, <2>5, <3>1 DEF ThreadWalks
      <3> QED
        BY <1>3, <3>1, <3>2, ThreadQuiet DEF ThreadTakes
    <2> QED
      BY <2>4, <2>5
  <1> QED
    BY <1>1, <1>2, <1>3

LEMMA ThreadWorks ==
    ASSUME SqliteInv,
           Prepared \/ NotPrepared \/ Finished \/ \E error \in BOOLEAN : Stepped(error)
    PROVE  SqliteInv'
  <1> DEFINE t == thread.task
  <1>0. /\ ThreadWalks /\ thread \in Threads /\ heap \in Heaps /\ Nothing \in Pointer
        /\ Nothing \notin Tasks
    BY SqliteAssumption DEF SqliteInv, Types, Pointer
  <1>1. thread.at \in {"prepare", "step", "finish"} =>
           t \in Tasks /\ heap[t] \in Task /\ ~heap[t].done
    BY <1>0 DEF ThreadWalks, Heaps
  <1>2. CASE Prepared
    <2> DEFINE k == [heap[t] EXCEPT !.statement = "open"]
    <2>1. /\ thread.at = "prepare" /\ thread' = [thread EXCEPT !.at = "step"]
          /\ heap' = [heap EXCEPT ![t] = k]
      BY <1>2 DEF Prepared
    <2>2. /\ k \in Task /\ k.prev = heap[t].prev /\ k.next = heap[t].next
          /\ k.done = heap[t].done
      BY <1>1, <2>1, SetStatement
    <2>3. /\ thread' \in Threads /\ thread'.at = "step" /\ thread'.cur = thread.cur
          /\ thread'.task = t
      BY <1>0, <2>1, ThreadFields
    <2> HIDE DEF k
    <2> QED
      BY <1>1, <1>2, <2>1, <2>2, <2>3, ThreadWrites DEF Prepared
  <1>3. CASE NotPrepared
    <2> DEFINE k == [heap[t] EXCEPT !.error = TRUE, !.statement = "null"]
    <2>1. /\ thread.at = "prepare" /\ thread' = [thread EXCEPT !.at = "finish"]
          /\ heap' = [heap EXCEPT ![t] = k]
      BY <1>0, <1>1, <1>3 DEF NotPrepared, Heaps
    <2>2. /\ k \in Task /\ k.prev = heap[t].prev /\ k.next = heap[t].next
          /\ k.done = heap[t].done /\ k.error = TRUE
      BY <1>1, <2>1, SetResult
    <2>3. /\ thread' \in Threads /\ thread'.at = "finish" /\ thread'.cur = thread.cur
          /\ thread'.task = t
      BY <1>0, <2>1, ThreadFields
    <2> HIDE DEF k
    <2> QED
      BY <1>1, <1>3, <2>1, <2>2, <2>3, ThreadWrites DEF NotPrepared
  <1>4. ASSUME NEW error \in BOOLEAN, Stepped(error)
        PROVE  SqliteInv'
    <2> DEFINE k == [heap[t] EXCEPT !.error = error, !.statement = "finalized"]
    <2>1. /\ thread.at = "step" /\ thread' = [thread EXCEPT !.at = "finish"]
          /\ heap' = [heap EXCEPT ![t] = k]
      BY <1>0, <1>1, <1>4 DEF Stepped, Heaps
    <2>2. /\ k \in Task /\ k.prev = heap[t].prev /\ k.next = heap[t].next
          /\ k.done = heap[t].done /\ k.statement = "finalized"
      <3>1. heap[t] \in Task
        BY <1>1, <2>1
      <3> HIDE DEF t
      <3> QED
        BY <3>1, <1>4, Zenon DEF Task
    <2>3. /\ thread' \in Threads /\ thread'.at = "finish" /\ thread'.cur = thread.cur
          /\ thread'.task = t
      BY <1>0, <2>1, ThreadFields
    <2> HIDE DEF k
    <2> QED
      BY <1>1, <1>4, <2>1, <2>2, <2>3, ThreadWrites DEF Stepped
  <1>5. CASE Finished
    <2> DEFINE k == [heap[t] EXCEPT !.done = TRUE]
    <2>1. /\ thread.at = "finish" /\ heap' = [heap EXCEPT ![t] = k]
          /\ thread' = [thread EXCEPT !.at = "walk", !.task = Nothing]
      BY <1>5 DEF Finished
    <2>2. /\ k \in Task /\ k.prev = heap[t].prev /\ k.next = heap[t].next
          /\ k.done = TRUE /\ k.error = heap[t].error /\ k.statement = heap[t].statement
      BY <1>1, <2>1, SetDone
    <2>3. /\ thread' \in Threads /\ thread'.at = "walk" /\ thread'.cur = thread.cur
          /\ thread'.task = Nothing
      BY <1>0, <2>1, ThreadFields
    <2>4. heap[t].error \/ heap[t].statement = "finalized"
      BY <1>0, <2>1 DEF ThreadWalks
    <2> HIDE DEF k
    <2> QED
      BY <1>1, <1>5, <2>1, <2>2, <2>3, <2>4, ThreadWrites DEF Finished
  <1> QED
    BY <1>2, <1>3, <1>4, <1>5

----------------------------------------------------------------------------
(* The game thread. *)
LEMMA GameFields ==
    ASSUME game \in Games, NEW p \in Pointer, NEW at \in {"script", "check", "callback", "free"}
    PROVE  /\ game' = [game EXCEPT !.at = at]
              => /\ game' \in Games /\ game'.at = at
                 /\ game'.cur = game.cur /\ game'.task = game.task
           /\ game' = [game EXCEPT !.cur = p]
              => /\ game' \in Games /\ game'.at = game.at
                 /\ game'.cur = p /\ game'.task = game.task
           /\ game' = [game EXCEPT !.at = at, !.task = p]
              => /\ game' \in Games /\ game'.at = at
                 /\ game'.cur = game.cur /\ game'.task = p
  BY Zenon DEF Games

(* What the checkdone walk does at a task before anything else. *)
LEMMA Advanced ==
    ASSUME SqliteInv, NEW t \in Tasks, Visit(t), Advance
    PROVE  /\ heap[t] \in Task /\ heap[t].next \in Pointer /\ game.at = "check"
           /\ heap[t].next # Nothing => heap[heap[t].next] # Nothing
           /\ game' \in Games /\ game'.at = "check" /\ game'.cur = heap[t].next
           /\ game'.task = Nothing /\ game.task = Nothing
  <1>0. Types /\ IsListed /\ GameWalks /\ game \in Games
    BY DEF SqliteInv, Types
  <1>1. game.at = "check" /\ game.cur = t /\ heap[t] # Nothing
    BY DEF Visit
  <1>2. heap[t] \in Task /\ heap[t].next \in Pointer
    BY <1>0, <1>1 DEF Types, Heaps, Task
  <1>3. heap[t].next # Nothing => heap[heap[t].next] # Nothing
    BY <1>0, <1>1, Around
  <1>4. game' \in Games /\ game'.at = "check" /\ game'.cur = heap[t].next
        /\ game'.task = game.task
    BY <1>0, <1>1, <1>2, GameFields DEF Advance
  <1> QED
    BY <1>0, <1>1, <1>2, <1>3, <1>4 DEF GameWalks

(* The game thread moves and writes to no task. *)
LEMMA GameQuiet ==
    ASSUME SqliteInv, heap' = heap, first' = first, called' = called,
           thread' = thread, handles' \subseteq Dbs,
           game' \in Games, GameWalks', game'.task = game.task
    PROVE  SqliteInv'
  <1>1. Types /\ ThreadWalks
    BY DEF SqliteInv
  <1>2. ThreadWalks'
    BY <1>1 DEF ThreadWalks
  <1> QED
    BY <1>1, <1>2, QuietStep DEF Types

LEMMA GameMoves ==
    ASSUME SqliteInv,
           \/ Initialize \/ CheckDone \/ CheckEnds \/ SpawnServer \/ SpawnReturns
           \/ \E db \in Dbs : Open(db) \/ Close(db)
    PROVE  SqliteInv'
  <1>0. /\ Types /\ IsListed /\ ThreadWalks /\ GameWalks /\ thread \in Threads
        /\ game \in Games /\ handles \subseteq Dbs
        /\ Nothing \in Pointer /\ Nothing \notin Tasks
    BY SqliteAssumption DEF SqliteInv, Types, Pointer
  <1>1. CASE Initialize
    <2>1. thread' = [thread EXCEPT !.at = "sleep"] /\ heap' = heap /\ thread.at = "none"
      BY <1>1 DEF Initialize, list
    <2>2. /\ thread' \in Threads /\ thread'.at = "sleep" /\ thread'.cur = thread.cur
          /\ thread'.task = thread.task
      BY <1>0, <2>1, ThreadFields
    <2>3. ThreadWalks'
      BY <1>0, <2>1, <2>2 DEF ThreadWalks
    <2> QED
      BY <1>1, <2>2, <2>3, ThreadQuiet DEF Initialize
  <1>2. CASE CheckDone
    <2>1. /\ game' = [at |-> "check", cur |-> first, task |-> Nothing]
          /\ game.at = "script" /\ UNCHANGED <<heap, first, called, thread, handles>>
      BY <1>2 DEF CheckDone, list, connections
    <2>2. first \in Pointer /\ first # Nothing => heap[first] # Nothing
      BY <1>0, Around DEF Pointer
    <2>3. game' \in Games /\ game'.at = "check" /\ game'.cur = first /\ game'.task = Nothing
      BY <1>0, <2>1, Around DEF Pointer, Games
    <2>4. GameWalks' /\ game.task = Nothing
      BY <1>0, <2>1, <2>3, Around DEF GameWalks
    <2> QED
      BY <1>0, <2>1, <2>3, <2>4, GameQuiet
  <1>3. CASE CheckEnds
    <2>1. /\ game' = [game EXCEPT !.at = "script"] /\ game.at = "check" /\ game.cur = Nothing
          /\ UNCHANGED <<heap, first, called, thread, handles>>
      BY <1>3 DEF CheckEnds, list, connections
    <2>2. /\ game' \in Games /\ game'.at = "script" /\ game'.cur = game.cur
          /\ game'.task = game.task
      BY <1>0, <2>1, GameFields
    <2>3. GameWalks'
      BY <1>0, <2>1, <2>2 DEF GameWalks
    <2> QED
      BY <1>0, <2>1, <2>2, <2>3, GameQuiet
  <1>4. CASE SpawnReturns
    <2>1. /\ game' = [game EXCEPT !.at = "free"] /\ game.at = "script"
          /\ UNCHANGED <<heap, first, called, thread, handles>>
      BY <1>4 DEF SpawnReturns, list, connections
    <2>2. /\ game' \in Games /\ game'.at = "free" /\ game'.cur = game.cur
          /\ game'.task = game.task
      BY <1>0, <2>1, GameFields
    <2>3. GameWalks'
      BY <1>0, <2>1, <2>2 DEF GameWalks
    <2> QED
      BY <1>0, <2>1, <2>2, <2>3, GameQuiet
  <1>5. CASE SpawnServer \/ \E db \in Dbs : Open(db) \/ Close(db)
    <2>1. /\ UNCHANGED <<heap, first, called, thread, game>> /\ handles' \subseteq Dbs
      BY <1>0, <1>5 DEF SpawnServer, Open, Close, list
    <2>2. GameWalks'
      BY <1>0, <2>1 DEF GameWalks
    <2> QED
      BY <1>0, <2>1, <2>2, GameQuiet
  <1> QED
    BY <1>1, <1>2, <1>3, <1>4, <1>5

(* A task that is done is marked for removal. *)
LEMMA MarkStep ==
    ASSUME SqliteInv, NEW t \in Tasks, heap[t] # Nothing, heap[t].done,
           heap' = [heap EXCEPT ![t].remove = TRUE],
           UNCHANGED <<first, called, thread, handles>>
    PROVE  /\ Types' <=> game' \in Games
           /\ IsListed' /\ InOrder' /\ Results' /\ ThreadWalks' /\ Keeps(heap, heap')
           /\ heap'[t] # Nothing /\ heap'[t].done /\ heap'[t].remove
  <1> DEFINE k == [heap[t] EXCEPT !.remove = TRUE]
  <1>0. Types /\ ThreadWalks /\ thread \in Threads /\ Nothing \notin Task /\ Results
    BY SqliteAssumption DEF SqliteInv, Types
  <1>1. heap[t] \in Task
    BY <1>0 DEF Types, Heaps
  <1>2. /\ k \in Task /\ k.prev = heap[t].prev /\ k.next = heap[t].next
        /\ k.done = heap[t].done /\ k.error = heap[t].error
        /\ k.statement = heap[t].statement /\ k.remove = TRUE
    BY <1>1, SetRemove
  <1>3. heap' = [heap EXCEPT ![t] = k]
    OBVIOUS
  <1> HIDE DEF k
  <1>4. k.error \/ k.statement = "finalized"
    BY <1>0, <1>2 DEF Results
  <1>5. /\ heap' \in Heaps /\ heap'[t] = k
        /\ \A x \in Tasks : x # t => heap'[x] = heap[x]
        /\ IsListed' /\ InOrder' /\ Results' /\ Keeps(heap, heap')
    BY <1>2, <1>3, <1>4, FieldStep
  <1>6. Types' <=> game' \in Games
    BY <1>0, <1>5 DEF Types
  <1>7. thread.task # Nothing => /\ thread.task \in Tasks /\ heap[thread.task] # Nothing
                                 /\ ~heap[thread.task].done
    BY <1>0 DEF ThreadWalks, Threads
  <1>8. thread.task # Nothing => Same(heap'[thread.task], heap[thread.task])
    BY <1>5, <1>7 DEF Same
  <1>9. ThreadWalks'
    BY <1>5, <1>8, ThreadKept
  <1> QED
    BY <1>0, <1>2, <1>5, <1>6, <1>9

LEMMA VisitStep ==
    ASSUME SqliteInv, NEW t \in Tasks,
           VisitWaiting(t) \/ VisitSilent(t) \/ VisitCallback(t) \/ VisitRemoved(t)
    PROVE  SqliteInv'
  <1>0. /\ Types /\ IsListed /\ ThreadWalks /\ GameWalks /\ Calls
        /\ handles \subseteq Dbs /\ called \in [Tasks -> Nat] /\ Nothing \notin Tasks
        /\ game \in Games
    BY SqliteAssumption DEF SqliteInv, Types
  <1>1. CASE VisitWaiting(t) \/ (VisitRemoved(t) /\ ~MayRemove)
    <2>1. Visit(t) /\ Advance /\ UNCHANGED <<heap, first, called, thread, handles>>
      BY <1>1 DEF VisitWaiting, VisitRemoved, list, connections
    <2>2. GameWalks' /\ game' \in Games /\ game'.task = game.task
      BY <2>1, Advanced DEF GameWalks
    <2> QED
      BY <1>0, <2>1, <2>2, GameQuiet
  <1>2. CASE VisitRemoved(t) /\ MayRemove
    BY <1>2, RemoveStep
  <1>3. CASE VisitSilent(t)
    <2>1. /\ Visit(t) /\ Advance /\ heap[t] # Nothing /\ heap[t].done
          /\ heap' = [heap EXCEPT ![t].remove = TRUE]
          /\ UNCHANGED <<first, called, thread, handles>>
      BY <1>3 DEF VisitSilent, Visit, connections
    <2>2. /\ game' \in Games /\ game'.at = "check" /\ game'.task = game.task
          /\ game'.task = Nothing /\ game'.cur = heap[t].next
          /\ heap[t].next \in Pointer
          /\ heap[t].next # Nothing => heap[heap[t].next] # Nothing
      BY <2>1, Advanced
    <2>3. /\ Types' /\ IsListed' /\ InOrder' /\ Results' /\ ThreadWalks'
          /\ Keeps(heap, heap')
      BY <2>1, <2>2, MarkStep
    <2>4. GameWalks'
      BY <2>2, <2>3 DEF GameWalks, Keeps, Pointer
    <2>5. Calls'
      BY <2>1, <2>2, <2>3, CallsKept
    <2> QED
      BY <2>3, <2>4, <2>5 DEF SqliteInv
  <1>4. CASE VisitCallback(t)
    <2>1. /\ game.at = "check" /\ heap[t] # Nothing /\ heap[t].done /\ ~heap[t].remove
          /\ ~heap[t].error
          /\ game' = [at |-> "callback", cur |-> heap[t].next, task |-> t]
          /\ called' = [called EXCEPT ![t] = @ + 1]
          /\ UNCHANGED <<heap, first, thread, handles>>
      BY <1>4 DEF VisitCallback, Visit, connections
    <2>2. heap[t].next \in Pointer /\ heap[t].next # Nothing => heap[heap[t].next] # Nothing
      BY <1>0, <2>1, Around DEF Pointer
    <2>3. heap[t].next \in Pointer /\ t \in Pointer
      BY <1>0, <2>1, Around DEF Pointer
    <2>4. /\ game' \in Games /\ game'.at = "callback" /\ game'.cur = heap[t].next
          /\ game'.task = t
      BY <2>1, <2>3 DEF Games
    <2>5. GameWalks'
      BY <1>0, <2>1, <2>4, Around DEF GameWalks
    <2>6. game.task = Nothing
      BY <1>0, <2>1 DEF GameWalks
    <2>7. called[t] = 0
      BY <1>0, <2>1, <2>6 DEF Calls
    <2>8. /\ called' \in [Tasks -> Nat] /\ called'[t] = 1
          /\ \A x \in Tasks : x # t => called'[x] = called[x]
      BY <1>0, <2>1, <2>7
    <2>9. Calls'
      BY <1>0, <2>1, <2>4, <2>6, <2>8 DEF Calls
    <2>10. Types'
      BY <1>0, <2>1, <2>4, <2>8 DEF Types
    <2>11. IsListed' /\ InOrder' /\ Results' /\ ThreadWalks'
      BY <2>1 DEF SqliteInv, IsListed, InOrder, Results, ThreadWalks
    <2> QED
      BY <2>5, <2>9, <2>10, <2>11 DEF SqliteInv
  <1> QED
    BY <1>1, <1>2, <1>3, <1>4

LEMMA ReturnStep ==
    ASSUME SqliteInv, CallbackReturns
    PROVE  SqliteInv'
  <1> DEFINE t == game.task
  <1>0. Types /\ GameWalks /\ Calls /\ game \in Games /\ Nothing \in Pointer
    BY DEF SqliteInv, Types, Pointer
  <1>1. /\ game.at = "callback" /\ heap' = [heap EXCEPT ![t].remove = TRUE]
        /\ game' = [game EXCEPT !.at = "check", !.task = Nothing]
        /\ UNCHANGED <<first, called, thread, handles>>
    BY DEF CallbackReturns, connections
  <1>2. t \in Tasks /\ heap[t] # Nothing /\ heap[t].done
    BY <1>0, <1>1 DEF GameWalks
  <1>3. /\ game' \in Games /\ game'.at = "check" /\ game'.cur = game.cur
        /\ game'.task = Nothing
    BY <1>0, <1>1, GameFields
  <1>4. game.cur \in Pointer
    BY <1>0 DEF Games
  <1> HIDE DEF t
  <1>5. /\ Types' /\ IsListed' /\ InOrder' /\ Results' /\ ThreadWalks'
        /\ Keeps(heap, heap') /\ heap'[t].remove
    BY <1>1, <1>2, <1>3, MarkStep
  <1>6. GameWalks'
    BY <1>0, <1>3, <1>4, <1>5 DEF GameWalks, Keeps, Pointer
  <1>7. Calls'
    BY <1>0, <1>1, <1>5 DEF Calls, Keeps, t
  <1> QED
    BY <1>5, <1>6, <1>7 DEF SqliteInv

----------------------------------------------------------------------------
LEMMA SqliteStep == SqliteInv /\ [Next]_vars => SqliteInv'
  <1> SUFFICES ASSUME SqliteInv, [Next]_vars
               PROVE  SqliteInv'
    OBVIOUS
  <1>1. CASE UNCHANGED vars
    <2>1. UNCHANGED <<heap, first, called, thread, game, handles>>
      BY <1>1 DEF vars, list, connections
    <2> QED
      BY <2>1 DEF SqliteInv, Types, IsListed, InOrder, ThreadWalks, GameWalks, Results, Calls
  <1>2. CASE QueryThread
    <2>1. CASE PreparedOnClosed
      BY <2>1, CrashStep DEF PreparedOnClosed
    <2> QED
      BY <1>2, <2>1, ThreadMoves, ThreadWorks DEF QueryThread
  <1>3. CASE GameThread
    <2>1. CASE FreeWild \/ \E db \in Dbs : UseClosed(db)
      BY <2>1, CrashStep DEF FreeWild, UseClosed
    <2>2. ASSUME NEW t \in Tasks, NEW db \in Dbs, NEW calls \in BOOLEAN,
                 \/ CreateQuery(t, db, calls) \/ CreateEntityQuery(t, db, calls)
                 \/ CreateQueryNosave(t, db) \/ CreateEntityQueryNosave(t, db)
          PROVE  SqliteInv'
      <3>1. CASE Create(t, db, calls)
        BY <3>1, CreateStep
      <3>2. CASE Create(t, db, FALSE)
        BY <3>2, CreateStep
      <3> QED
        BY <2>2, <3>1, <3>2 DEF CreateQuery, CreateEntityQuery,
                                CreateQueryNosave, CreateEntityQueryNosave
    <2>3. CASE \E t \in Tasks, db \in Dbs :
                  \/ \E calls \in BOOLEAN :
                        CreateQuery(t, db, calls) \/ CreateEntityQuery(t, db, calls)
                  \/ CreateQueryNosave(t, db) \/ CreateEntityQueryNosave(t, db)
      BY <2>2, <2>3
    <2>4. CASE \E t \in Tasks : \/ VisitWaiting(t) \/ VisitSilent(t)
                                \/ VisitCallback(t) \/ VisitRemoved(t)
      BY <2>4, VisitStep
    <2> QED
      BY <1>3, <2>1, <2>3, <2>4, GameMoves, ReturnStep, FreeAllStep DEF GameThread
  <1> QED
    BY <1>1, <1>2, <1>3 DEF Next

(* The list, the two walks on it, the results and the calls stand together. *)
THEOREM SqliteInductive == Spec => []SqliteInv
  BY InitInv, SqliteStep, PTL DEF Spec

(* The list stays whole under both threads, and neither of them is left    *)
(* with a pointer to a task that was freed.                                *)
THEOREM QueriesStayListed == Spec => []ListKept
  <1>1. ASSUME SqliteInv
        PROVE  ListKept
    <2>1. PICK n, order : Listing(Tasks, Nothing, heap, first, n, order)
      BY <1>1 DEF SqliteInv, IsListed
    <2>2. n = Cardinality(Listed) /\ order \in Injection(1 .. n, Listed)
      BY <2>1, ListingCounts DEF Listed
    <2>3. thread \in Threads /\ game \in Games /\ ThreadWalks /\ GameWalks
      BY <1>1 DEF SqliteInv, Types
    <2>4. {thread.cur, thread.task} \subseteq Listed \cup {Nothing}
      BY <2>3 DEF ThreadWalks, Threads, Listed, Pointer
    <2>5. {game.cur, game.task} \subseteq Listed \cup {Nothing}
      BY <2>3 DEF GameWalks, Games, Listed, Pointer
    <2> QED
      BY <2>1, <2>2, <2>4, <2>5 DEF ListKept, Listing
  <1> QED
    BY <1>1, SqliteInductive, PTL

(* No query is done before one that was asked for earlier.                 *)
THEOREM QueriesAreInOrder == Spec => []DoneInOrder
  <1>1. ASSUME SqliteInv
        PROVE  DoneInOrder
    <2>1. Types /\ IsListed /\ InOrder
      BY <1>1 DEF SqliteInv
    <2>2. ASSUME NEW t \in Listed, heap[t].next \in Listed, heap[heap[t].next].done
          PROVE  heap[t].done
      <3>1. heap[t].next \in Tasks /\ heap[t].next # Nothing /\ t # Nothing
        BY <2>2, SqliteAssumption DEF Listed
      <3>2. heap[heap[t].next].prev = t
        BY <2>1, <2>2, <3>1, Around DEF Listed
      <3> QED
        BY <2>1, <2>2, <3>1, <3>2 DEF InOrder, AfterDone, Listed
    <2> QED
      BY <2>2 DEF DoneInOrder
  <1> QED
    BY <1>1, SqliteInductive, PTL

(* A query calls its script back once, with the result of a query that was *)
(* run and did not fail.                                                   *)
THEOREM CallbacksAreOnce == Spec => []CalledOnce
  <1>1. SqliteInv => CalledOnce
    BY DEF SqliteInv, Calls, Results, CalledOnce, Listed
  <1> QED
    BY <1>1, SqliteInductive, PTL
=============================================================================
