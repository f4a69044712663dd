-------------------------- MODULE AsyncExecProofs --------------------------
(***************************************************************************)
(* The list of tasks and the threads that own them, for any number of      *)
(* tasks, commands and levels: the list stays whole, no task is freed      *)
(* under its thread, and a callback gets the whole output.                 *)
(***************************************************************************)
EXTENDS AsyncExec, SharedLemmas

Threads == [at : {"none", "popen", "read"}, pos : Nat]
Games == [at : {"script", "check", "callback"}, cur : Pointer, task : Pointer,
          array : Seq(Seq(Bytes))]

----------------------------------------------------------------------------
(* One byte put into lines leaves lines. *)
LEMMA PutType ==
    ASSUME NEW lines \in Seq(Seq(Bytes)), NEW b \in Bytes
    PROVE  Put(lines, b) \in Seq(Seq(Bytes))
  <1> DEFINE n == Len(lines)
  <1>1. <<>> \in Seq(Bytes)
    OBVIOUS
  <1>2. Append(lines, <<>>) \in Seq(Seq(Bytes))
    BY <1>1
  <1>3. [lines EXCEPT ![n] = Append(@, b)] \in Seq(Seq(Bytes))
    <2>1. CASE n = 0
      <3>1. lines = <<>>
        BY <2>1
      <3>2. [lines EXCEPT ![n] = Append(@, b)] = lines
        BY <2>1, <3>1
      <3> QED
        BY <3>2
    <2>2. CASE n # 0
      <3>1. n \in 1 .. Len(lines)
        BY <2>2
      <3>2. lines[n] \in Seq(Bytes)
        BY <3>1
      <3>3. Append(lines[n], b) \in Seq(Bytes)
        BY <3>2
      <3> QED
        BY <3>1, <3>3
    <2> QED
      BY <2>1, <2>2
  <1> QED
    BY <1>2, <1>3 DEF Put

----------------------------------------------------------------------------
(* What the thread of a task and its callback need stays as it is. *)
Same(a, b) == /\ a.command = b.command /\ a.save = b.save
              /\ a.done = b.done /\ a.output = b.output

(* Setting one field of a task leaves a task with its other fields. *)
LEMMA SetNext ==
    ASSUME NEW k \in Task, NEW p \in Pointer
    PROVE  /\ [k EXCEPT !.next = p] \in Task
           /\ [k EXCEPT !.next = p].next = p
           /\ [k EXCEPT !.next = p].prev = k.prev
           /\ [k EXCEPT !.next = p].done = k.done
           /\ Same([k EXCEPT !.next = p], k)
  BY Zenon DEF Task, Same

LEMMA SetPrev ==
    ASSUME NEW k \in Task, NEW p \in Pointer
    PROVE  /\ [k EXCEPT !.prev = p] \in Task
           /\ [k EXCEPT !.prev = p].prev = p
           /\ [k EXCEPT !.prev = p].next = k.next
           /\ [k EXCEPT !.prev = p].done = k.done
           /\ Same([k EXCEPT !.prev = p], k)
  BY Zenon DEF Task, Same

LEMMA SetDone ==
    ASSUME NEW k \in Task
    PROVE  /\ [k EXCEPT !.done = TRUE] \in Task
           /\ [k EXCEPT !.done = TRUE].prev = k.prev
           /\ [k EXCEPT !.done = TRUE].next = k.next
           /\ [k EXCEPT !.done = TRUE].done = TRUE
           /\ [k EXCEPT !.done = TRUE].command = k.command
           /\ [k EXCEPT !.done = TRUE].save = k.save
           /\ [k EXCEPT !.done = TRUE].output = k.output
  BY Zenon DEF Task

LEMMA SetError ==
    ASSUME NEW k \in Task
    PROVE  /\ [k EXCEPT !.error = TRUE] \in Task
           /\ [k EXCEPT !.error = TRUE].prev = k.prev
           /\ [k EXCEPT !.error = TRUE].next = k.next
           /\ [k EXCEPT !.error = TRUE].done = k.done
  BY Zenon DEF Task

LEMMA SetOutput ==
    ASSUME NEW k \in Task, NEW o \in Seq(Seq(Bytes))
    PROVE  /\ [k EXCEPT !.output = o] \in Task
           /\ [k EXCEPT !.output = o].prev = k.prev
           /\ [k EXCEPT !.output = o].next = k.next
           /\ [k EXCEPT !.output = o].done = k.done
           /\ [k EXCEPT !.output = o].command = k.command
           /\ [k EXCEPT !.output = o].save = k.save
           /\ [k EXCEPT !.output = o].output = o
  BY Zenon DEF Task

LEMMA SameItself == \A k : Same(k, k)
  BY DEF Same

----------------------------------------------------------------------------
(* The n tasks of the list, in its order. *)
IsList(h, f, n, list) == Listing(Tasks, Nothing, h, f, n, list)

Heaps == [Tasks -> Task \cup {Nothing}]

(* A new task is listed, behind the last. *)
LEMMA LinkedLast ==
    ASSUME heap \in Heaps, NEW n, NEW list, IsList(heap, first, n, list),
           NEW k \in Task, k.prev = Nothing, k.next = Nothing, k.done = FALSE,
           NEW t \in Tasks, heap[t] = Nothing, LinkLast(k, t)
    PROVE  /\ heap' \in Heaps
           /\ heap'[t] # Nothing /\ heap'[t].done = FALSE
           /\ \A x \in Tasks : x # t =>
                 /\ heap'[x] = Nothing <=> heap[x] = Nothing
                 /\ heap[x] # Nothing =>
                       /\ heap'[x].done = heap[x].done /\ Same(heap'[x], heap[x])
                       /\ heap[x].next = Nothing \/ heap'[x].next = heap[x].next
           /\ \E l : IsList(heap', first', n + 1, l)
  <1>0. Nothing \notin Tasks /\ Nothing \notin Task
    BY ExecAssumption
  <1>1. Listing(Tasks, Nothing, heap, first, n, list)
    BY DEF IsList
  <1>2. n \in Nat /\ (first = Nothing <=> n = 0)
    <2>1. n # 0 => 1 \in 1 .. n /\ list[1] \in Tasks
      BY <1>1 DEF Listing
    <2> QED
      BY <1>0, <1>1, <2>1 DEF Listing
  <1>3. CASE first = Nothing
    <2>1. heap' = [heap EXCEPT ![t] = k] /\ first' = t
      BY <1>3 DEF LinkLast
    <2>2. heap' \in Heaps /\ heap'[t] = k /\ \A x \in Tasks : x # t => heap'[x] = heap[x]
      BY <2>1 DEF Heaps
    <2>3. \A x \in Tasks : heap[x] = Nothing
      BY <1>1, <1>2, <1>3 DEF Listing
    <2>4. \E l : Listing(Tasks, Nothing, heap', IF n = 0 THEN t ELSE first, n + 1, l)
      BY <1>0, <1>1, <1>2, <1>3, <2>2, <2>3, Appending
    <2> QED
      BY <1>0, <1>2, <1>3, <2>1, <2>2, <2>3, <2>4 DEF IsList
  <1>4. CASE first # Nothing
    <2> DEFINE last == list[n]
               a == [k EXCEPT !.prev = last]
               b == [heap[last] EXCEPT !.next = t]
    <2>1. /\ last \in Tasks /\ heap[last] # Nothing /\ heap[last].next = Nothing
          /\ \A x \in Tasks : heap[x] # Nothing /\ heap[x].next = Nothing => x = last
      BY <1>0, <1>1, <1>4, LastListed
    <2> HIDE DEF last
    <2>2. LastTask = last
      BY <2>1 DEF LastTask, Listed
    <2>3. heap[last] \in Task /\ last # t /\ t \in Pointer /\ last \in Pointer
      BY <2>1 DEF Heaps, Pointer
    <2>4. heap' = [heap EXCEPT ![t] = a, ![last] = b] /\ first' = first
      BY <1>4, <2>2, <2>3 DEF LinkLast, Heaps
    <2>5. a \in Task /\ a.prev = last /\ a.next = Nothing /\ a.done = FALSE
      BY <2>3, SetPrev
    <2>6. /\ b \in Task /\ b.next = t /\ b.prev = heap[last].prev /\ b.done = heap[last].done
          /\ Same(b, heap[last])
      BY <2>3, SetNext
    <2> HIDE DEF a, b
    <2>7. /\ heap' \in Heaps /\ heap'[t] = a /\ heap'[last] = b
          /\ \A x \in Tasks : x # t /\ x # last => heap'[x] = heap[x]
      BY <2>1, <2>3, <2>4, <2>5, <2>6 DEF Heaps
    <2>8. \A x \in Tasks : x # t =>
             /\ heap'[x] = Nothing <=> heap[x] = Nothing
             /\ heap[x] # Nothing =>
                   /\ heap'[x].done = heap[x].done /\ Same(heap'[x], heap[x])
                   /\ heap'[x].prev = heap[x].prev
                   /\ heap'[x].next = IF heap[x].next = Nothing THEN t ELSE heap[x].next
      BY <1>0, <2>1, <2>6, <2>7, SameItself
    <2>9. heap'[t] # Nothing /\ heap'[t].next = Nothing /\ heap'[t].done = FALSE
          /\ heap'[t].prev = IF n = 0 THEN Nothing ELSE list[n]
      BY <1>0, <1>2, <1>4, <2>5, <2>7 DEF last
    <2>10. \E l : Listing(Tasks, Nothing, heap', IF n = 0 THEN t ELSE first, n + 1, l)
      BY <1>0, <1>1, <2>8, <2>9, Appending
    <2> QED
      BY <1>2, <1>4, <2>4, <2>7, <2>8, <2>9, <2>10 DEF IsList
  <1> QED
    BY <1>3, <1>4

(* A listed task is freed: those around it are joined, the others stay. *)
LEMMA Unlinked ==
    ASSUME heap \in Heaps, NEW n, NEW list, IsList(heap, first, n, list),
           NEW t \in Tasks, heap[t] # Nothing, Free(t)
    PROVE  /\ heap' \in Heaps
           /\ heap'[t] = Nothing
           /\ \A x \in Tasks : x # t =>
                 /\ heap'[x] = Nothing <=> heap[x] = Nothing
                 /\ heap[x] # Nothing =>
                       heap'[x].done = heap[x].done /\ Same(heap'[x], heap[x])
           /\ heap[t].next # t
           /\ heap[t].next # Nothing => heap[t].next \in Tasks /\ heap[heap[t].next] # Nothing
           /\ \E l : IsList(heap', first', n - 1, l)
  <1> DEFINE pr == heap[t].prev
             ne == heap[t].next
  <1>0. Nothing \notin Tasks /\ Nothing \notin Task
    BY ExecAssumption
  <1>1. Listing(Tasks, Nothing, heap, first, n, list)
    BY DEF IsList
  <1>2. /\ pr = Nothing <=> first = t
        /\ ne # Nothing => ne \in Tasks /\ heap[ne] # Nothing /\ ne # t /\ ne # pr
    BY <1>0, <1>1, Neighbours
  <1>3. heap[t] \in Task /\ pr \in Pointer /\ ne \in Pointer
    BY DEF Heaps, Task
  <1> HIDE DEF pr, ne
  <1>4. /\ heap' = [x \in Tasks |->
                       IF x = t THEN Nothing
                       ELSE IF ne = x THEN [heap[x] EXCEPT !.prev = pr]
                       ELSE IF pr = x THEN [heap[x] EXCEPT !.next = ne]
                       ELSE heap[x]]
         /\ first' = IF first = t THEN ne ELSE first
    BY <1>2 DEF Free, pr, ne
  <1>5. ASSUME NEW x \in Tasks, x # t
        PROVE  /\ heap'[x] \in Task \cup {Nothing}
               /\ heap'[x] = Nothing <=> heap[x] = Nothing
               /\ heap[x] # Nothing =>
                     /\ heap'[x].done = heap[x].done /\ Same(heap'[x], heap[x])
                     /\ heap'[x].prev = IF x = ne THEN pr ELSE heap[x].prev
                     /\ heap'[x].next = IF x = pr THEN ne ELSE heap[x].next
    <2>0. pr = x => heap[x] # Nothing
      BY <1>0, <1>1, <1>5, Neighbours DEF pr
    <2>1. CASE x = ne
      <3>1. heap[x] \in Task /\ x # pr
        BY <1>0, <1>2, <1>5, <2>1 DEF Heaps
      <3>2. heap'[x] = [heap[x] EXCEPT !.prev = pr]
        BY <1>4, <1>5, <2>1
      <3> QED
        BY <1>0, <1>3, <2>1, <3>1, <3>2, SetPrev
    <2>2. CASE x # ne /\ x = pr
      <3>1. heap[x] \in Task
        BY <2>0, <2>2 DEF Heaps
      <3>2. heap'[x] = [heap[x] EXCEPT !.next = ne]
        BY <1>4, <1>5, <2>2
      <3> QED
        BY <1>0, <1>3, <2>2, <3>1, <3>2, SetNext
    <2>3. CASE x # ne /\ x # pr
      <3>1. heap'[x] = heap[x]
        BY <1>4, <1>5, <2>3
      <3> QED
        BY <2>3, <3>1, SameItself DEF Heaps
    <2> QED
      BY <2>1, <2>2, <2>3
  <1>6. heap'[t] = Nothing
    BY <1>4
  <1>7. heap' \in Heaps
    BY <1>4, <1>5, <1>6 DEF Heaps
  <1>8. \E l : Listing(Tasks, Nothing, heap', IF first = t THEN ne ELSE first, n - 1, l)
    BY <1>0, <1>1, <1>5, <1>6, Removing DEF pr, ne
  <1>9. \E l : IsList(heap', first', n - 1, l)
    BY <1>4, <1>8 DEF IsList
  <1> QED
    BY <1>0, <1>2, <1>5, <1>6, <1>7, <1>9 DEF ne

----------------------------------------------------------------------------
(* Where the game thread points: to a task it may read, and out of the     *)
(* callback of a task that is done to the one behind it.                   *)
Walks ==
    /\ game.cur # Nothing => game.cur \in Tasks /\ heap[game.cur] # Nothing
    /\ game.at # "callback" => game.task = Nothing
    /\ game.at = "callback" =>
          /\ game.task \in Tasks /\ heap[game.task] # Nothing /\ heap[game.task].done
          /\ game.cur # Nothing => game.cur = heap[game.task].next

IsListed == \E n, list : IsList(heap, first, n, list)

ExecInv == TypeOK /\ IsListed /\ ThreadOwnsTask /\ Walks

LEMMA ExecTypes ==
    TypeOK <=> /\ heap \in Heaps /\ first \in Pointer /\ threads \in [Tasks -> Threads]
               /\ game \in Games /\ levelId \in Levels
  BY DEF TypeOK, Heaps, Threads, Games

(* The first of a list is listed. *)
LEMMA FirstOfList ==
    ASSUME IsListed
    PROVE  /\ first \in Pointer
           /\ first # Nothing => heap[first] # Nothing
  <1>1. PICK n, list : IsList(heap, first, n, list)
    BY DEF IsListed
  <1> QED
    BY <1>1, ExecAssumption, Neighbours DEF IsList, Listing, Pointer

LEMMA InitExec == Init => ExecInv
  <1> SUFFICES ASSUME Init
               PROVE  ExecInv
    OBVIOUS
  <1>1. Nothing \in Pointer /\ Nothing \notin Tasks
    BY ExecAssumption DEF Pointer
  <1>2. game \in Games /\ game.at = "script" /\ game.cur = Nothing /\ game.task = Nothing
    <2>1. <<>> \in Seq(Seq(Bytes))
      OBVIOUS
    <2>2. game = [at |-> "script", cur |-> Nothing, task |-> Nothing, array |-> <<>>]
      BY DEF Init
    <2>3. game \in Games
      BY <1>1, <2>1, <2>2, Zenon DEF Games
    <2> QED
      BY <2>2, <2>3
  <1>3. NoThread \in Threads /\ NoThread.at = "none"
    BY DEF NoThread, Threads
  <1>4. TypeOK
    BY <1>1, <1>2, <1>3, ExecTypes DEF Init, Heaps
  <1>5. IsList(heap, first, 0, <<>>)
    BY DEF Init, IsList, Listing
  <1>6. ThreadOwnsTask
    BY <1>3 DEF Init, ThreadOwnsTask
  <1> QED
    BY <1>2, <1>4, <1>5, <1>6 DEF ExecInv, IsListed, Walks

(* A step of a thread touches its own task, and that one only while it is  *)
(* not done.                                                               *)
LEMMA OwnStep ==
    ASSUME ExecInv, NEW t \in Tasks, heap[t] # Nothing, ~heap[t].done,
           first' = first, game' = game, levelId' = levelId,
           NEW k \in Task, k.prev = heap[t].prev, k.next = heap[t].next,
           heap' = [heap EXCEPT ![t] = k],
           NEW th \in Threads, threads' = [threads EXCEPT ![t] = th],
           k.done => th.at = "none"
    PROVE  ExecInv'
  <1>1. /\ heap \in Heaps /\ first \in Pointer /\ threads \in [Tasks -> Threads]
        /\ game \in Games /\ levelId \in Levels /\ Nothing \notin Task
    BY ExecTypes, ExecAssumption DEF ExecInv
  <1>2. /\ heap' \in Heaps /\ heap'[t] = k
        /\ \A x \in Tasks : x # t => heap'[x] = heap[x]
    BY <1>1 DEF Heaps
  <1>3. /\ threads' \in [Tasks -> Threads] /\ threads'[t] = th
        /\ \A x \in Tasks : x # t => threads'[x] = threads[x]
    BY <1>1
  <1>4. TypeOK'
    BY <1>1, <1>2, <1>3 DEF TypeOK, Heaps, Threads, Games
  <1>5. IsListed'
    <2>1. PICK n, list : IsList(heap, first, n, list)
      BY DEF ExecInv, IsListed
    <2>2. \A x \in Tasks : /\ heap'[x] = Nothing <=> heap[x] = Nothing
                           /\ heap[x] # Nothing => /\ heap'[x].prev = heap[x].prev
                                                   /\ heap'[x].next = heap[x].next
      BY <1>1, <1>2
    <2>3. IsList(heap', first', n, list)
      BY <2>1, <2>2, SameListing DEF IsList
    <2> QED
      BY <2>3 DEF IsListed
  <1>6. ThreadOwnsTask'
    BY <1>1, <1>2, <1>3 DEF ThreadOwnsTask, ExecInv
  <1>7. Walks'
    BY <1>1, <1>2 DEF Walks, ExecInv
  <1> QED
    BY <1>4, <1>5, <1>6, <1>7 DEF ExecInv

LEMMA ThreadStep ==
    ASSUME ExecInv, NEW t \in Tasks, Thread(t)
    PROVE  ExecInv'
  <1>1. /\ heap \in Heaps /\ threads \in [Tasks -> Threads]
    BY ExecTypes DEF ExecInv
  <1>2. threads[t].at # "none"
    BY DEF Thread, Popen, PopenFails, Read, Done
  <1>3. heap[t] # Nothing /\ ~heap[t].done /\ heap[t] \in Task
    BY <1>1, <1>2 DEF ExecInv, ThreadOwnsTask, Heaps
  <1>4. /\ heap[t].done \in BOOLEAN /\ heap[t].output \in Seq(Seq(Bytes))
        /\ heap[t].command \in Commands
    BY <1>3 DEF Task
  <1>5. threads[t] \in Threads /\ NoThread \in Threads /\ NoThread.at = "none"
    BY <1>1 DEF NoThread, Threads
  <1>6. CASE Popen(t)
    <2> DEFINE th == [threads[t] EXCEPT !.at = "read"]
               k == IF heap[t].save THEN [heap[t] EXCEPT !.output = <<<<>>>>] ELSE heap[t]
    <2>1. th \in Threads
      BY <1>5, Zenon DEF Threads
    <2>2. <<<<>>>> \in Seq(Seq(Bytes))
      OBVIOUS
    <2>3. k \in Task /\ k.prev = heap[t].prev /\ k.next = heap[t].next /\ k.done = heap[t].done
      BY <1>3, <2>2, SetOutput
    <2>4. heap' = [heap EXCEPT ![t] = k]
      BY <1>1, <1>6 DEF Popen, Heaps
    <2>5. threads' = [threads EXCEPT ![t] = th] /\ first' = first /\ game' = game
          /\ levelId' = levelId
      BY <1>6 DEF Popen
    <2> HIDE DEF th, k
    <2> QED
      BY <1>3, <2>1, <2>3, <2>4, <2>5, OwnStep
  <1>7. CASE PopenFails(t)
    <2> DEFINE k == [heap[t] EXCEPT !.error = TRUE]
    <2>1. k \in Task /\ k.prev = heap[t].prev /\ k.next = heap[t].next /\ k.done = heap[t].done
      BY <1>3, SetError
    <2>2. heap' = [heap EXCEPT ![t] = k] /\ threads' = [threads EXCEPT ![t] = NoThread]
          /\ first' = first /\ game' = game /\ levelId' = levelId
      BY <1>7 DEF PopenFails
    <2> HIDE DEF k
    <2> QED
      BY <1>3, <1>5, <2>1, <2>2, OwnStep
  <1>8. CASE Read(t)
    <2> DEFINE n == threads[t].pos + 1
               c == Output[heap[t].command]
               th == [threads[t] EXCEPT !.pos = n]
               k == [heap[t] EXCEPT !.output = Put(@, c[n])]
    <2>1. n \in Nat /\ n - 1 = threads[t].pos /\ n >= 1
      BY <1>5 DEF Threads
    <2>2. th \in Threads /\ th.at = "read"
      <3>1. threads[t].at = "read"
        BY <1>8 DEF Read
      <3> HIDE DEF n
      <3> QED
        BY <1>5, <2>1, <3>1, Zenon DEF Threads
    <2>3. c[n] \in Bytes
      <3>1. c \in Seq(Bytes)
        BY <1>4, ExecAssumption
      <3>2. threads[t].pos < Len(c)
        BY <1>8 DEF Read, AtEnd
      <3>3. n \in 1 .. Len(c)
        BY <2>1, <3>1, <3>2
      <3> HIDE DEF c, n
      <3> QED
        BY <3>1, <3>3
    <2>4. Put(heap[t].output, c[n]) \in Seq(Seq(Bytes))
      BY <1>4, <2>3, PutType
    <2>5. k \in Task /\ k.prev = heap[t].prev /\ k.next = heap[t].next /\ k.done = heap[t].done
      BY <1>3, <2>4, SetOutput
    <2>6. heap' = [heap EXCEPT ![t] = k] /\ threads' = [threads EXCEPT ![t] = th]
          /\ first' = first /\ game' = game /\ levelId' = levelId
      BY <1>8 DEF Read
    <2> HIDE DEF th, k
    <2> QED
      BY <1>3, <2>2, <2>5, <2>6, OwnStep
  <1>9. CASE Done(t)
    <2> DEFINE k == [heap[t] EXCEPT !.done = TRUE]
    <2>1. k \in Task /\ k.prev = heap[t].prev /\ k.next = heap[t].next
      BY <1>3, SetDone
    <2>2. heap' = [heap EXCEPT ![t] = k] /\ threads' = [threads EXCEPT ![t] = NoThread]
          /\ first' = first /\ game' = game /\ levelId' = levelId
      BY <1>9 DEF Done
    <2> HIDE DEF k
    <2> QED
      BY <1>3, <1>5, <2>1, <2>2, OwnStep
  <1> QED
    BY <1>6, <1>7, <1>8, <1>9 DEF Thread

(* A new task, from a script or in a callback. *)
LEMMA CreateStep ==
    ASSUME ExecInv, NEW t \in Tasks, NEW c \in Commands, NEW save \in BOOLEAN,
           NEW callback \in Callbacks, Create(t, c, save, callback)
    PROVE  ExecInv'
  <1> DEFINE k == [prev |-> Nothing, next |-> Nothing, command |-> c, save |-> save,
                   callback |-> callback, done |-> FALSE, error |-> FALSE,
                   levelId |-> levelId, output |-> <<>>]
             th == [at |-> "popen", pos |-> 0]
  <1>1. /\ heap \in Heaps /\ first \in Pointer /\ threads \in [Tasks -> Threads]
        /\ game \in Games /\ levelId \in Levels
    BY ExecTypes DEF ExecInv
  <1>2. k \in Task
    <2>1. Nothing \in Pointer /\ callback \in BOOLEAN /\ <<>> \in Seq(Seq(Bytes))
      BY ExecAssumption DEF Pointer
    <2> QED
      BY <1>1, <2>1, Zenon DEF Task
  <1>3. k.prev = Nothing /\ k.next = Nothing /\ k.done = FALSE
    OBVIOUS
  <1>4. /\ heap[t] = Nothing /\ LinkLast(k, t)
        /\ threads' \in {threads, [threads EXCEPT ![t] = th]}
        /\ game' = game /\ levelId' = levelId
    BY DEF Create
  <1> HIDE DEF k
  <1>5. PICK n, list : IsList(heap, first, n, list)
    BY DEF ExecInv, IsListed
  <1>6. /\ heap' \in Heaps
        /\ heap'[t] # Nothing /\ heap'[t].done = FALSE
        /\ \A x \in Tasks : x # t =>
              /\ heap'[x] = Nothing <=> heap[x] = Nothing
              /\ heap[x] # Nothing =>
                    /\ heap'[x].done = heap[x].done
                    /\ heap[x].next = Nothing \/ heap'[x].next = heap[x].next
        /\ \E l : IsList(heap', first', n + 1, l)
    BY <1>1, <1>2, <1>3, <1>4, <1>5, LinkedLast
  <1>7. IsListed'
    BY <1>6 DEF IsListed
  <1>8. first' \in Pointer
    BY <1>7, ExecAssumption, Neighbours DEF IsListed, IsList, Pointer
  <1>9. th \in Threads
    BY Zenon, 0 \in Nat DEF Threads
  <1>10. /\ threads' \in [Tasks -> Threads]
         /\ \A x \in Tasks : x # t => threads'[x] = threads[x]
    BY <1>1, <1>4, <1>9
  <1>11. TypeOK'
    BY <1>1, <1>4, <1>6, <1>8, <1>10 DEF TypeOK, Heaps, Threads, Games
  <1>12. ThreadOwnsTask'
    BY <1>6, <1>10 DEF ExecInv, ThreadOwnsTask
  <1>13. Walks'
    BY <1>4, <1>6 DEF ExecInv, Walks
  <1> QED
    BY <1>7, <1>11, <1>12, <1>13 DEF ExecInv

(* A step of the walk that frees nothing. *)
LEMMA WalkStep ==
    ASSUME ExecInv, heap' = heap, first' = first, threads' = threads, levelId' \in Levels,
           game' \in Games, Walks'
    PROVE  ExecInv'
  <1>1. TypeOK'
    BY ExecTypes DEF ExecInv, TypeOK, Heaps, Threads, Games
  <1>2. IsListed' /\ ThreadOwnsTask'
    BY DEF ExecInv, IsListed, ThreadOwnsTask
  <1> QED
    BY <1>1, <1>2 DEF ExecInv

(* A step of the walk that frees a task that is done. *)
LEMMA FreeStep ==
    ASSUME ExecInv, NEW t \in Tasks, heap[t] # Nothing, heap[t].done, Free(t),
           threads' = threads, levelId' = levelId, game' \in Games,
           game'.at # "callback", game'.task = Nothing,
           game'.cur = Nothing \/ game'.cur = heap[t].next
    PROVE  ExecInv'
  <1>1. /\ heap \in Heaps /\ threads \in [Tasks -> Threads] /\ levelId \in Levels
    BY ExecTypes DEF ExecInv
  <1>2. PICK n, list : IsList(heap, first, n, list)
    BY DEF ExecInv, IsListed
  <1>3. /\ heap' \in Heaps /\ heap'[t] = Nothing
        /\ \A x \in Tasks : x # t => /\ heap'[x] = Nothing <=> heap[x] = Nothing
                                     /\ heap[x] # Nothing => heap'[x].done = heap[x].done
        /\ heap[t].next # t
        /\ heap[t].next # Nothing => heap[t].next \in Tasks /\ heap[heap[t].next] # Nothing
        /\ \E l : IsList(heap', first', n - 1, l)
    BY <1>1, <1>2, Unlinked
  <1>4. IsListed'
    BY <1>3 DEF IsListed
  <1>5. first' \in Pointer
    BY <1>4, ExecAssumption, Neighbours DEF IsListed, IsList, Pointer
  <1>6. TypeOK'
    BY <1>1, <1>3, <1>5 DEF TypeOK, Heaps, Threads, Games
  <1>7. threads[t].at = "none"
    BY DEF ExecInv, ThreadOwnsTask
  <1>8. ThreadOwnsTask'
    BY <1>3, <1>7 DEF ExecInv, ThreadOwnsTask
  <1>9. Walks'
    BY <1>3 DEF Walks
  <1> QED
    BY <1>4, <1>6, <1>8, <1>9 DEF ExecInv

LEMMA CheckStep ==
    ASSUME ExecInv, Check
    PROVE  ExecInv'
  <1>1. /\ heap \in Heaps /\ first \in Pointer /\ threads \in [Tasks -> Threads]
        /\ game \in Games /\ levelId \in Levels /\ Walks
    BY ExecTypes DEF ExecInv
  <1>2. Nothing \in Pointer /\ Nothing \notin Tasks /\ <<>> \in Seq(Seq(Bytes))
    BY ExecAssumption DEF Pointer
  <1>g. ASSUME NEW at \in {"script", "check", "callback"}, NEW cur \in Pointer
        PROVE  /\ [game EXCEPT !.at = at, !.cur = cur] \in Games
               /\ [game EXCEPT !.at = at, !.cur = cur].at = at
               /\ [game EXCEPT !.at = at, !.cur = cur].cur = cur
               /\ [game EXCEPT !.at = at, !.cur = cur].task = game.task
    BY <1>1, Zenon DEF Games
  <1>f. \A t \in Tasks : heap[t] # Nothing =>
            /\ heap[t] \in Task /\ heap[t].next \in Pointer
            /\ heap[t].next # Nothing => heap[t].next \in Tasks /\ heap[heap[t].next] # Nothing
    <2>1. PICK n, list : IsList(heap, first, n, list)
      BY DEF ExecInv, IsListed
    <2> TAKE t \in Tasks
    <2> HAVE heap[t] # Nothing
    <2>2. heap[t] \in Task /\ heap[t].next \in Pointer
      BY <1>1 DEF Heaps, Task
    <2>3. Listing(Tasks, Nothing, heap, first, n, list)
      BY <2>1 DEF IsList
    <2> QED
      BY <1>2, <2>2, <2>3, Neighbours
  <1>3. CASE CheckDone
    <2>1. game' = [game EXCEPT !.at = "check", !.cur = first] /\ game.at = "script"
          /\ heap' = heap /\ first' = first /\ threads' = threads /\ levelId' = levelId
      BY <1>3 DEF CheckDone
    <2>2. game' \in Games /\ game'.at = "check" /\ game'.cur = first /\ game'.task = game.task
      BY <1>1, <1>g, <2>1
    <2>3. Walks'
      BY <1>1, <2>1, <2>2, FirstOfList DEF Walks, ExecInv, Pointer
    <2> QED
      BY <1>1, <2>1, <2>2, <2>3, WalkStep
  <1>4. CASE CallbackReturns
    <2> DEFINE t == game.task
    <2>1. /\ game.at = "callback" /\ Free(t) /\ threads' = threads /\ levelId' = levelId
          /\ game' = [game EXCEPT !.at = "check", !.task = Nothing, !.array = <<>>]
      BY <1>4 DEF CallbackReturns
    <2>2. /\ t \in Tasks /\ heap[t] # Nothing /\ heap[t].done
          /\ game.cur # Nothing => game.cur = heap[t].next
      BY <1>1, <2>1 DEF Walks
    <2>3. /\ game' \in Games /\ game'.at = "check" /\ game'.task = Nothing
          /\ game'.cur = game.cur
      BY <1>1, <1>2, <2>1, Zenon DEF Games
    <2> HIDE DEF t
    <2> QED
      BY <2>1, <2>2, <2>3, FreeStep
  <1>5. CASE CheckEnds
    <2>1. /\ game' = [game EXCEPT !.at = "script"] /\ game.at = "check"
          /\ heap' = heap /\ first' = first /\ threads' = threads /\ levelId' = levelId
      BY <1>5 DEF CheckEnds
    <2>2. game' \in Games /\ game'.at = "script" /\ game'.cur = game.cur /\ game'.task = game.task
      BY <1>1, <2>1, Zenon DEF Games
    <2>3. Walks'
      BY <1>1, <2>1, <2>2 DEF Walks
    <2> QED
      BY <1>1, <2>1, <2>2, <2>3, WalkStep
  <1>6. ASSUME NEW t \in Tasks, VisitRunning(t)
        PROVE  ExecInv'
    <2>1. /\ game' = [game EXCEPT !.cur = heap[t].next] /\ game.at = "check" /\ heap[t] # Nothing
          /\ heap' = heap /\ first' = first /\ threads' = threads /\ levelId' = levelId
      BY <1>6 DEF VisitRunning, Visit
    <2>2. heap[t].next \in Pointer
      BY <1>f, <2>1
    <2>3. /\ game' \in Games /\ game'.at = "check" /\ game'.cur = heap[t].next
          /\ game'.task = game.task
      BY <1>1, <2>1, <2>2, Zenon DEF Games
    <2>4. Walks'
      BY <1>1, <1>f, <2>1, <2>3 DEF Walks
    <2> QED
      BY <1>1, <2>1, <2>3, <2>4, WalkStep
  <1>7. ASSUME NEW t \in Tasks, VisitSilent(t)
        PROVE  ExecInv'
    <2>1. /\ game' = [game EXCEPT !.cur = heap[t].next] /\ game.at = "check"
          /\ heap[t] # Nothing /\ heap[t].done /\ Free(t)
          /\ threads' = threads /\ levelId' = levelId
      BY <1>7 DEF VisitSilent, Visit
    <2>2. heap[t].next \in Pointer
      BY <1>f, <2>1
    <2>3. /\ game' \in Games /\ game'.at = "check" /\ game'.cur = heap[t].next
          /\ game'.task = game.task
      BY <1>1, <2>1, <2>2, Zenon DEF Games
    <2>4. game.task = Nothing
      BY <1>1, <2>1 DEF Walks
    <2> QED
      BY <2>1, <2>3, <2>4, FreeStep
  <1>8. ASSUME NEW t \in Tasks, VisitCallback(t)
        PROVE  ExecInv'
    <2>1. /\ game' = [at |-> "callback", cur |-> heap[t].next, task |-> t,
                      array |-> heap[t].output]
          /\ heap[t] # Nothing /\ heap[t].done
          /\ heap' = heap /\ first' = first /\ threads' = threads /\ levelId' = levelId
      BY <1>8 DEF VisitCallback, Visit
    <2>2. heap[t].next \in Pointer /\ t \in Pointer /\ heap[t].output \in Seq(Seq(Bytes))
      BY <1>f, <2>1 DEF Task, Pointer
    <2>3. /\ game' \in Games
      BY <2>1, <2>2, Zenon DEF Games
    <2>4. Walks'
      BY <1>f, <2>1 DEF Walks
    <2> QED
      BY <1>1, <2>1, <2>3, <2>4, WalkStep
  <1> QED
    BY <1>3, <1>4, <1>5, <1>6, <1>7, <1>8 DEF Check

LEMMA ExecStep == ExecInv /\ [Next]_vars => ExecInv'
  <1> SUFFICES ASSUME ExecInv, [Next]_vars
               PROVE  ExecInv'
    OBVIOUS
  <1>1. game \in Games /\ levelId \in Levels /\ Walks
    BY ExecTypes DEF ExecInv
  <1>2. CASE \E t \in Tasks : Thread(t)
    BY <1>2, ThreadStep
  <1>3. CASE \E t \in Tasks, c \in Commands, callback \in Callbacks :
                CreateTask(t, c, callback) \/ CreateNosave(t, c, callback)
    BY <1>3, CreateStep DEF CreateTask, CreateNosave
  <1>4. CASE ChangeMap
    <2>1. /\ heap' = heap /\ first' = first /\ threads' = threads /\ game' = game
          /\ levelId' \in Levels
      BY <1>4 DEF ChangeMap
    <2>2. Walks'
      BY <1>1, <2>1 DEF Walks
    <2> QED
      BY <1>1, <2>1, <2>2, WalkStep
  <1>5. CASE UNCHANGED vars
    <2>1. /\ heap' = heap /\ first' = first /\ threads' = threads /\ game' = game
          /\ levelId' = levelId
      BY <1>5 DEF vars
    <2>2. Walks'
      BY <1>1, <2>1 DEF Walks
    <2> QED
      BY <1>1, <2>1, <2>2, WalkStep
  <1> QED
    BY <1>2, <1>3, <1>4, <1>5, CheckStep DEF Next

(* The list, the owners of the tasks and the pointers of the walk stand     *)
(* together.                                                               *)
THEOREM ExecInductive == Spec => []ExecInv
  BY InitExec, ExecStep, PTL DEF Spec

(* Type correctness of the tasks, the threads and the walk. *)
THEOREM ExecTypeOK == Spec => []TypeOK
  <1>1. ExecInv => TypeOK
    BY DEF ExecInv
  <1> QED
    BY <1>1, ExecInductive, PTL

(* No task is freed under its thread. *)
THEOREM ThreadsOwnTheirTasks == Spec => []ThreadOwnsTask
  <1>1. ExecInv => ThreadOwnsTask
    BY DEF ExecInv
  <1> QED
    BY <1>1, ExecInductive, PTL

(* The list stays whole and the walk on it. *)
THEOREM ListStaysWhole == Spec => []ListKept
  <1>1. ASSUME ExecInv
        PROVE  ListKept
    <2>1. PICK n, list : IsList(heap, first, n, list)
      BY <1>1 DEF ExecInv, IsListed
    <2>2. Listing(Tasks, Nothing, heap, first, n, list)
      BY <2>1 DEF IsList
    <2>3. n = Cardinality(Listed) /\ list \in Injection(1 .. n, Listed)
      BY <2>2, ListingCounts DEF Listed
    <2>4. {game.cur, game.task} \subseteq Listed \cup {Nothing}
      <3>1. game \in Games
        BY <1>1, ExecTypes DEF ExecInv
      <3>2. game.at = "callback" \/ game.at # "callback"
        OBVIOUS
      <3> QED
        BY <1>1, <3>1, <3>2 DEF ExecInv, Walks, Listed
    <2> QED
      BY <2>2, <2>3, <2>4 DEF ListKept, Listing
  <1> QED
    BY <1>1, ExecInductive, PTL

----------------------------------------------------------------------------
(* What is made of the bytes of a command: the function exists, and goes   *)
(* from each byte to the next.                                             *)
Steps(f, n, c) == \A k \in 0 .. n : f[k] = IF k = 0 THEN <<<<>>>>
                                          ELSE Put(f[k - 1], Output[c][k])

LEMMA StepsExist ==
    ASSUME NEW c
    PROVE  \A n \in Nat : \E f : Steps(f, n, c)
  <1> DEFINE Bad == {n \in Nat : ~\E f : Steps(f, n, c)}
  <1>1. SUFFICES ASSUME Bad # {} PROVE FALSE
    OBVIOUS
  <1>2. PICK n \in Bad : \A o \in Bad : n <= o
    BY <1>1, Least
  <1>3. CASE n = 0
    <2>1. Steps([k \in 0 .. 0 |-> <<<<>>>>], 0, c)
      BY DEF Steps
    <2> QED
      BY <1>2, <1>3, <2>1
  <1>4. CASE n # 0
    <2>1. n - 1 \in Nat /\ n - 1 \notin Bad /\ n \in Nat
      BY <1>2, <1>4
    <2>2. PICK f : Steps(f, n - 1, c)
      BY <2>1
    <2> DEFINE g == [k \in 0 .. n |-> IF k = n THEN Put(f[n - 1], Output[c][n]) ELSE f[k]]
    <2>3. \A k \in 0 .. n : k # n => k \in 0 .. n - 1 /\ g[k] = f[k]
      BY <2>1
    <2>4. g[n] = Put(f[n - 1], Output[c][n]) /\ n - 1 \in 0 .. n /\ n - 1 # n
      BY <2>1
    <2> HIDE DEF g
    <2>5. ASSUME NEW k \in 0 .. n
          PROVE  g[k] = IF k = 0 THEN <<<<>>>> ELSE Put(g[k - 1], Output[c][k])
      <3>1. CASE k = n
        BY <1>4, <2>1, <2>3, <2>4, <3>1
      <3>2. CASE k # n
        <4>1. /\ g[k] = f[k]
              /\ f[k] = IF k = 0 THEN <<<<>>>> ELSE Put(f[k - 1], Output[c][k])
          BY <2>2, <2>3, <3>2 DEF Steps
        <4>2. k # 0 => k - 1 \in 0 .. n /\ k - 1 # n
          BY <2>1, <3>2
        <4>3. k # 0 => g[k - 1] = f[k - 1]
          BY <2>3, <4>2
        <4> QED
          BY <4>1, <4>3
      <3> QED
        BY <3>1, <3>2
    <2>6. Steps(g, n, c)
      BY <2>5 DEF Steps
    <2> QED
      BY <1>2, <2>6
  <1> QED
    BY <1>3, <1>4

LEMMA AfterSteps ==
    ASSUME NEW c \in Commands
    PROVE  Steps(After(c), Len(Output[c]), c) /\ Len(Output[c]) \in Nat
  <1> DEFINE n == Len(Output[c])
             Eq(f) == f = [k \in 0 .. n |-> IF k = 0 THEN <<<<>>>>
                                           ELSE Put(f[k - 1], Output[c][k])]
  <1>1. n \in Nat
    BY ExecAssumption
  <1>2. After(c) = CHOOSE f : Eq(f)
    BY DEF After
  <1> HIDE DEF n
  <1>3. PICK g : Steps(g, n, c)
    BY <1>1, StepsExist
  <1> DEFINE h == [k \in 0 .. n |-> g[k]]
  <1>4. Eq(h)
    BY <1>1, <1>3 DEF Steps
  <1> HIDE DEF h
  <1>5. Eq(After(c))
    BY <1>2, <1>4
  <1>6. Steps(After(c), n, c)
    BY <1>5 DEF Steps
  <1> QED
    BY <1>1, <1>6 DEF n

(* Where the output of a command ends is one place. *)
LEMMA LinesAre ==
    ASSUME NEW c \in Commands, NEW n \in 0 .. Len(Output[c]), EndsAfter(c, n)
    PROVE  Lines(c) = After(c)[n]
  <1>1. Len(Output[c]) \in Nat
    BY AfterSteps
  <1>2. ASSUME NEW o \in 0 .. Len(Output[c]), EndsAfter(c, o)
        PROVE  o = n
    <2>1. ~o < n
      BY <1>1, <1>2 DEF EndsAfter
    <2>2. ~n < o
      BY <1>1, <1>2 DEF EndsAfter
    <2> QED
      BY <1>1, <2>1, <2>2
  <1> QED
    BY <1>2 DEF Lines

----------------------------------------------------------------------------
(* A thread has made of the bytes it read what gsc_exec makes of them.     *)
ReadSoFar(t) ==
    /\ threads[t].pos \in 0 .. Len(Output[heap[t].command])
    /\ \A i \in 1 .. threads[t].pos : Output[heap[t].command][i] # "ff"
    /\ heap[t].output = After(heap[t].command)[threads[t].pos]

OutputOf(t) ==
    /\ threads[t].at = "popen" => threads[t].pos = 0
    /\ threads[t].at = "read" /\ heap[t].save => ReadSoFar(t)
    /\ heap[t] # Nothing /\ heap[t].done /\ heap[t].save =>
          heap[t].output = Lines(heap[t].command)

OutputInv == ExecInv /\ (\A t \in Tasks : OutputOf(t)) /\ WholeOutput

(* The output of the tasks a step leaves alone. *)
LEMMA OthersKeep ==
    ASSUME ExecInv, NEW x \in Tasks, OutputOf(x), threads'[x] = threads[x],
           heap'[x] = Nothing <=> heap[x] = Nothing,
           heap[x] # Nothing => Same(heap'[x], heap[x])
    PROVE  OutputOf(x)'
  <1>1. threads[x].at # "none" => heap[x] # Nothing
    BY DEF ExecInv, ThreadOwnsTask
  <1> QED
    BY <1>1 DEF OutputOf, ReadSoFar, Same

(* A step that frees no task does not change what a callback was given.    *)
LEMMA CallbackKeeps ==
    ASSUME ExecInv, WholeOutput, game' = game,
           game.at = "callback" => heap'[game.task].command = heap[game.task].command
    PROVE  WholeOutput'
  BY DEF WholeOutput

LEMMA OwnOutput ==
    ASSUME OutputInv, NEW t \in Tasks, heap[t] # Nothing, ~heap[t].done,
           game' = game, NEW k, heap' = [heap EXCEPT ![t] = k], k # Nothing,
           NEW th, threads' = [threads EXCEPT ![t] = th], OutputOf(t)'
    PROVE  (\A x \in Tasks : OutputOf(x)') /\ WholeOutput'
  <1>1. heap \in Heaps /\ threads \in [Tasks -> Threads]
    BY ExecTypes DEF OutputInv, ExecInv
  <1>2. \A x \in Tasks : x # t => heap'[x] = heap[x] /\ threads'[x] = threads[x]
    BY <1>1 DEF Heaps
  <1>3. ASSUME NEW x \in Tasks, x # t
        PROVE  OutputOf(x)'
    <2>1. /\ threads'[x] = threads[x] /\ (heap'[x] = Nothing <=> heap[x] = Nothing)
          /\ Same(heap'[x], heap[x])
      BY <1>2, <1>3, SameItself
    <2>2. ExecInv /\ OutputOf(x)
      BY DEF OutputInv
    <2> QED
      BY <2>1, <2>2, OthersKeep
  <1>4. game.at = "callback" => game.task \in Tasks /\ game.task # t
    BY DEF OutputInv, ExecInv, Walks
  <1>5. ExecInv /\ WholeOutput
    BY DEF OutputInv
  <1>6. WholeOutput'
    BY <1>2, <1>4, <1>5, CallbackKeeps
  <1> QED
    BY <1>3, <1>6

LEMMA ThreadOutput ==
    ASSUME OutputInv, NEW t \in Tasks, Thread(t)
    PROVE  (\A x \in Tasks : OutputOf(x)') /\ WholeOutput'
  <1>1. heap \in Heaps /\ threads \in [Tasks -> Threads] /\ ExecInv /\ OutputOf(t)
    BY ExecTypes DEF OutputInv, ExecInv
  <1>2. threads[t].at # "none"
    BY DEF Thread, Popen, PopenFails, Read, Done
  <1>3. heap[t] # Nothing /\ ~heap[t].done /\ heap[t] \in Task
    BY <1>1, <1>2 DEF ExecInv, ThreadOwnsTask, Heaps
  <1>4. heap[t].output \in Seq(Seq(Bytes)) /\ heap[t].command \in Commands
    BY <1>3 DEF Task
  <1>5. threads[t] \in Threads /\ NoThread \in Threads /\ NoThread.at = "none"
    BY <1>1 DEF NoThread, Threads
  <1>6. Nothing \notin Task
    BY ExecAssumption
  <1> DEFINE c == heap[t].command
             pos == threads[t].pos
  <1>7. Steps(After(c), Len(Output[c]), c) /\ Len(Output[c]) \in Nat /\ pos \in Nat
    BY <1>4, <1>5, AfterSteps DEF Threads
  <1>8. ASSUME NEW k \in Task, heap' = [heap EXCEPT ![t] = k],
               NEW th \in Threads, threads' = [threads EXCEPT ![t] = th]
        PROVE  heap'[t] = k /\ threads'[t] = th
    BY <1>1, <1>8 DEF Heaps
  <1>9. CASE Popen(t)
    <2> DEFINE th == [threads[t] EXCEPT !.at = "read"]
               k == IF heap[t].save THEN [heap[t] EXCEPT !.output = <<<<>>>>] ELSE heap[t]
    <2>1. th \in Threads /\ th.at = "read" /\ th.pos = pos
      BY <1>5, Zenon DEF Threads
    <2>2. <<<<>>>> \in Seq(Seq(Bytes))
      OBVIOUS
    <2>3. /\ k \in Task /\ k.done = heap[t].done /\ k.save = heap[t].save /\ k.command = c
          /\ k.save => k.output = <<<<>>>>
      BY <1>3, <2>2, SetOutput
    <2>4. /\ heap' = [heap EXCEPT ![t] = k] /\ threads' = [threads EXCEPT ![t] = th]
          /\ game' = game /\ pos = 0
      BY <1>1, <1>9 DEF Popen, Heaps, OutputOf
    <2> HIDE DEF th, k
    <2>5. heap'[t] = k /\ threads'[t] = th
      BY <1>8, <2>1, <2>3, <2>4
    <2>6. After(c)[0] = <<<<>>>>
      BY <1>7 DEF Steps
    <2> HIDE DEF c, pos
    <2>7. OutputOf(t)'
      BY <1>3, <1>7, <2>1, <2>3, <2>4, <2>5, <2>6 DEF OutputOf, ReadSoFar
    <2> QED
      BY <1>3, <1>6, <2>3, <2>4, <2>7, OwnOutput
  <1>10. CASE PopenFails(t)
    <2> DEFINE k == [heap[t] EXCEPT !.error = TRUE]
    <2>1. k \in Task /\ k.done = heap[t].done
      BY <1>3, SetError
    <2>2. /\ heap' = [heap EXCEPT ![t] = k] /\ threads' = [threads EXCEPT ![t] = NoThread]
          /\ game' = game
      BY <1>10 DEF PopenFails
    <2> HIDE DEF k
    <2>3. heap'[t] = k /\ threads'[t] = NoThread
      BY <1>5, <1>8, <2>1, <2>2
    <2>4. OutputOf(t)'
      BY <1>3, <1>5, <2>1, <2>3 DEF OutputOf
    <2> QED
      BY <1>3, <1>6, <2>1, <2>2, <2>4, OwnOutput
  <1>11. CASE Read(t)
    <2> DEFINE n == pos + 1
               o == Put(heap[t].output, Output[c][n])
               th == [threads[t] EXCEPT !.pos = n]
               k == [heap[t] EXCEPT !.output = o]
    <2>1. /\ threads[t].at = "read" /\ heap[t].save /\ pos < Len(Output[c])
          /\ Output[c][n] # "ff"
      BY <1>11 DEF Read, AtEnd
    <2>2. n \in Nat /\ n - 1 = pos /\ n # 0 /\ n \in 0 .. Len(Output[c])
      BY <1>7, <2>1
    <2>3. /\ heap' = [heap EXCEPT ![t] = k] /\ threads' = [threads EXCEPT ![t] = th]
          /\ game' = game
      BY <1>11 DEF Read
    <2> HIDE DEF n
    <2>4. th \in Threads /\ th.at = "read" /\ th.pos = n
      BY <1>5, <2>1, <2>2, Zenon DEF Threads
    <2>5. ReadSoFar(t)
      BY <1>1, <2>1 DEF OutputOf
    <2>6. After(c)[n] = o
      BY <1>7, <2>2, <2>5 DEF Steps, ReadSoFar
    <2>7. o \in Seq(Seq(Bytes))
      <3>1. Output[c] \in Seq(Bytes) /\ n \in 1 .. Len(Output[c])
        BY <1>4, <2>2, ExecAssumption
      <3>2. Output[c][n] \in Bytes
        BY <3>1
      <3> QED
        BY <1>4, <3>2, PutType
    <2> HIDE DEF o
    <2>8. /\ k \in Task /\ k.done = heap[t].done /\ k.save = heap[t].save /\ k.command = c
          /\ k.output = o
      BY <1>3, <2>7, SetOutput
    <2> HIDE DEF th, k
    <2>9. heap'[t] = k /\ threads'[t] = th
      BY <1>8, <2>3, <2>4, <2>8
    <2>10. \A i \in 1 .. n : Output[c][i] # "ff"
      <3>1. \A i \in 1 .. n : i = n \/ i \in 1 .. pos
        BY <1>7, <2>2
      <3> QED
        BY <2>1, <2>5, <3>1 DEF ReadSoFar
    <2> HIDE DEF c, pos
    <2>11. OutputOf(t)'
      BY <1>3, <2>2, <2>4, <2>6, <2>8, <2>9, <2>10 DEF OutputOf, ReadSoFar
    <2> QED
      BY <1>3, <1>6, <2>3, <2>8, <2>11, OwnOutput
  <1>12. CASE Done(t)
    <2> DEFINE k == [heap[t] EXCEPT !.done = TRUE]
    <2>1. /\ k \in Task /\ k.command = c /\ k.save = heap[t].save
          /\ k.output = heap[t].output
      BY <1>3, SetDone
    <2>2. /\ heap' = [heap EXCEPT ![t] = k] /\ threads' = [threads EXCEPT ![t] = NoThread]
          /\ game' = game /\ threads[t].at = "read" /\ AtEnd(t)
      BY <1>12 DEF Done
    <2> HIDE DEF k
    <2>3. heap'[t] = k /\ threads'[t] = NoThread
      BY <1>5, <1>8, <2>1, <2>2
    <2>4. heap[t].save => heap[t].output = Lines(c)
      <3>1. SUFFICES ASSUME heap[t].save PROVE heap[t].output = Lines(c)
        OBVIOUS
      <3>2. ReadSoFar(t)
        BY <1>1, <2>2, <3>1 DEF OutputOf
      <3>3. EndsAfter(c, pos) /\ pos \in 0 .. Len(Output[c])
        BY <2>2, <3>1, <3>2 DEF ReadSoFar, EndsAfter, AtEnd
      <3> QED
        BY <1>4, <3>2, <3>3, LinesAre DEF ReadSoFar
    <2>5. OutputOf(t)'
      BY <1>5, <2>1, <2>3, <2>4 DEF OutputOf
    <2> QED
      BY <1>3, <1>6, <2>1, <2>2, <2>5, OwnOutput
  <1> QED
    BY <1>9, <1>10, <1>11, <1>12 DEF Thread

LEMMA CreateOutput ==
    ASSUME OutputInv, NEW t \in Tasks, NEW c \in Commands, NEW save \in BOOLEAN,
           NEW callback \in Callbacks, Create(t, c, save, callback)
    PROVE  (\A x \in Tasks : OutputOf(x)') /\ WholeOutput'
  <1> DEFINE k == [prev |-> Nothing, next |-> Nothing, command |-> c, save |-> save,
                   callback |-> callback, done |-> FALSE, error |-> FALSE,
                   levelId |-> levelId, output |-> <<>>]
             th == [at |-> "popen", pos |-> 0]
  <1>1. /\ heap \in Heaps /\ threads \in [Tasks -> Threads] /\ levelId \in Levels
        /\ ExecInv /\ WholeOutput
    BY ExecTypes DEF OutputInv, ExecInv
  <1>2. k \in Task
    <2>1. Nothing \in Pointer /\ callback \in BOOLEAN /\ <<>> \in Seq(Seq(Bytes))
      BY ExecAssumption DEF Pointer
    <2> QED
      BY <1>1, <2>1, Zenon DEF Task
  <1>3. k.prev = Nothing /\ k.next = Nothing /\ k.done = FALSE
    OBVIOUS
  <1>4. /\ heap[t] = Nothing /\ LinkLast(k, t) /\ game' = game
        /\ threads' \in {threads, [threads EXCEPT ![t] = th]}
    BY DEF Create
  <1> HIDE DEF k
  <1>5. PICK n, list : IsList(heap, first, n, list)
    BY <1>1 DEF ExecInv, IsListed
  <1>6. /\ heap'[t] # Nothing /\ heap'[t].done = FALSE
        /\ \A x \in Tasks : x # t =>
              /\ heap'[x] = Nothing <=> heap[x] = Nothing
              /\ heap[x] # Nothing => Same(heap'[x], heap[x])
    BY <1>1, <1>2, <1>3, <1>4, <1>5, LinkedLast
  <1>7. threads[t].at = "none"
    BY <1>1, <1>4 DEF ExecInv, ThreadOwnsTask
  <1>8. /\ \A x \in Tasks : x # t => threads'[x] = threads[x]
        /\ threads'[t].at = "none" \/ (threads'[t].at = "popen" /\ threads'[t].pos = 0)
    BY <1>1, <1>4, <1>7
  <1>9. OutputOf(t)'
    BY <1>6, <1>8 DEF OutputOf
  <1>10. ASSUME NEW x \in Tasks, x # t
         PROVE  OutputOf(x)'
    <2>1. OutputOf(x)
      BY DEF OutputInv
    <2> QED
      BY <1>1, <1>6, <1>8, <1>10, <2>1, OthersKeep
  <1>11. game.at = "callback" =>
            game.task \in Tasks /\ heap[game.task] # Nothing /\ game.task # t
    BY <1>1, <1>4 DEF ExecInv, Walks
  <1>12. WholeOutput'
    BY <1>1, <1>4, <1>6, <1>11, CallbackKeeps DEF Same
  <1> QED
    BY <1>9, <1>10, <1>12

(* A task is freed outside of a callback. *)
LEMMA FreeOutput ==
    ASSUME OutputInv, NEW t \in Tasks, heap[t] # Nothing, heap[t].done, Free(t),
           threads' = threads, game'.at # "callback"
    PROVE  (\A x \in Tasks : OutputOf(x)') /\ WholeOutput'
  <1>1. heap \in Heaps /\ ExecInv
    BY ExecTypes DEF OutputInv, ExecInv
  <1>2. PICK n, list : IsList(heap, first, n, list)
    BY <1>1 DEF ExecInv, IsListed
  <1>3. /\ heap'[t] = Nothing
        /\ \A x \in Tasks : x # t => /\ heap'[x] = Nothing <=> heap[x] = Nothing
                                     /\ heap[x] # Nothing => Same(heap'[x], heap[x])
    BY <1>1, <1>2, Unlinked
  <1>4. threads[t].at = "none"
    BY <1>1 DEF ExecInv, ThreadOwnsTask
  <1>5. OutputOf(t)'
    BY <1>3, <1>4 DEF OutputOf
  <1>6. ASSUME NEW x \in Tasks, x # t
        PROVE  OutputOf(x)'
    <2>1. OutputOf(x)
      BY DEF OutputInv
    <2> QED
      BY <1>1, <1>3, <1>6, <2>1, OthersKeep
  <1>7. WholeOutput'
    BY DEF WholeOutput
  <1> QED
    BY <1>5, <1>6, <1>7

(* A step that changes neither tasks nor threads. *)
LEMMA SameOutput ==
    ASSUME OutputInv, heap' = heap, threads' = threads, WholeOutput'
    PROVE  (\A x \in Tasks : OutputOf(x)') /\ WholeOutput'
  BY DEF OutputInv, OutputOf, ReadSoFar

LEMMA CheckOutput ==
    ASSUME OutputInv, Check
    PROVE  (\A x \in Tasks : OutputOf(x)') /\ WholeOutput'
  <1>1. game \in Games /\ Walks /\ WholeOutput
    BY ExecTypes DEF OutputInv, ExecInv
  <1>2. CASE CallbackReturns
    <2>1. /\ game.at = "callback" /\ Free(game.task) /\ threads' = threads
          /\ game' = [game EXCEPT !.at = "check", !.task = Nothing, !.array = <<>>]
      BY <1>2 DEF CallbackReturns
    <2>2. game.task \in Tasks /\ heap[game.task] # Nothing /\ heap[game.task].done
      BY <1>1, <2>1 DEF Walks
    <2>3. game'.at = "check"
      BY <1>1, <2>1, Zenon DEF Games
    <2> QED
      BY <2>1, <2>2, <2>3, FreeOutput
  <1>3. CASE CheckDone \/ CheckEnds
    <2>1. heap' = heap /\ threads' = threads /\ game'.at # "callback"
      BY <1>1, <1>3 DEF CheckDone, CheckEnds, Games
    <2>2. WholeOutput'
      BY <2>1 DEF WholeOutput
    <2> QED
      BY <2>1, <2>2, SameOutput
  <1>4. ASSUME NEW t \in Tasks, VisitRunning(t)
        PROVE  (\A x \in Tasks : OutputOf(x)') /\ WholeOutput'
    <2>1. heap' = heap /\ threads' = threads /\ game'.at # "callback"
      BY <1>1, <1>4 DEF VisitRunning, Visit, Games
    <2>2. WholeOutput'
      BY <2>1 DEF WholeOutput
    <2> QED
      BY <2>1, <2>2, SameOutput
  <1>5. ASSUME NEW t \in Tasks, VisitSilent(t)
        PROVE  (\A x \in Tasks : OutputOf(x)') /\ WholeOutput'
    <2>1. /\ game.at = "check" /\ heap[t] # Nothing /\ heap[t].done /\ Free(t)
          /\ threads' = threads /\ game' = [game EXCEPT !.cur = heap[t].next]
      BY <1>5 DEF VisitSilent, Visit
    <2>2. game'.at # "callback"
      BY <1>1, <2>1 DEF Games
    <2> QED
      BY <2>1, <2>2, FreeOutput
  <1>6. ASSUME NEW t \in Tasks, VisitCallback(t)
        PROVE  (\A x \in Tasks : OutputOf(x)') /\ WholeOutput'
    <2>1. /\ game' = [at |-> "callback", cur |-> heap[t].next, task |-> t,
                      array |-> heap[t].output]
          /\ heap[t] # Nothing /\ heap[t].done /\ heap[t].save
          /\ heap' = heap /\ threads' = threads
      BY <1>6 DEF VisitCallback, Visit, CallsBack
    <2>2. OutputOf(t)
      BY DEF OutputInv
    <2>3. heap[t].output = Lines(heap[t].command)
      BY <2>1, <2>2 DEF OutputOf
    <2>4. game'.task = t /\ game'.array = heap[t].output
      BY <2>1
    <2>5. WholeOutput'
      BY <2>1, <2>3, <2>4 DEF WholeOutput
    <2> QED
      BY <2>1, <2>5, SameOutput
  <1> QED
    BY <1>2, <1>3, <1>4, <1>5, <1>6 DEF Check

(* What a thread has read, a task that is done holds and a callback gets   *)
(* is what gsc_exec makes of the same bytes.                               *)
THEOREM OutputInductive == Spec => []OutputInv
  <1>1. Init => OutputInv
    <2> SUFFICES ASSUME Init PROVE OutputInv
      OBVIOUS
    <2>1. \A t \in Tasks : heap[t] = Nothing /\ threads[t].at = "none"
      BY DEF Init, NoThread
    <2>2. \A t \in Tasks : OutputOf(t)
      BY <2>1 DEF OutputOf
    <2>3. WholeOutput
      BY DEF Init, WholeOutput
    <2> QED
      BY <2>2, <2>3, InitExec DEF OutputInv
  <1>2. OutputInv /\ [Next]_vars => OutputInv'
    <2> SUFFICES ASSUME OutputInv, [Next]_vars PROVE OutputInv'
      OBVIOUS
    <2>1. ExecInv'
      BY ExecStep DEF OutputInv
    <2>2. CASE \E t \in Tasks : Thread(t)
      BY <2>1, <2>2, ThreadOutput DEF OutputInv
    <2>3. CASE \E t \in Tasks, c \in Commands, callback \in Callbacks :
                  CreateTask(t, c, callback) \/ CreateNosave(t, c, callback)
      BY <2>1, <2>3, CreateOutput DEF CreateTask, CreateNosave, OutputInv
    <2>4. CASE ChangeMap \/ UNCHANGED vars
      <3>1. heap' = heap /\ threads' = threads /\ game' = game
        BY <2>4 DEF ChangeMap, vars
      <3>2. WholeOutput'
        BY <3>1 DEF OutputInv, WholeOutput
      <3> QED
        BY <2>1, <3>1, <3>2, SameOutput DEF OutputInv
    <2>5. CASE Check
      BY <2>1, <2>5, CheckOutput DEF OutputInv
    <2> QED
      BY <2>2, <2>3, <2>4, <2>5 DEF Next
  <1> QED
    BY <1>1, <1>2, PTL DEF Spec

(* gsc_exec_async_checkdone gives a callback the whole output.             *)
THEOREM CallbacksGetTheOutput == Spec => []WholeOutput
  <1>1. OutputInv => WholeOutput
    BY DEF OutputInv
  <1> QED
    BY <1>1, OutputInductive, PTL
=============================================================================
