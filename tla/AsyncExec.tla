----------------------------- MODULE AsyncExec -----------------------------
(***************************************************************************)
(* Commands of the operating system for scripts (gsc_exec.cpp): gsc_exec   *)
(* waits for a command; the asynchronous functions give each command a     *)
(* thread and keep a list of tasks, threaded through the tasks, that only  *)
(* the game thread walks, extends and shortens.  There is no lock: a task  *)
(* belongs to its thread until the thread sets done, and to the game       *)
(* thread after that.  The asynchronous functions are compiled but left    *)
(* out of the table in gsc.cpp (#if 0); this is what they do when they are *)
(* in it.  Stores of a thread are seen in the order it makes them, as on   *)
(* the processor the library is built for.                                 *)
(***************************************************************************)
EXTENDS Naturals, FiniteSets, Sequences, Functions

CONSTANTS Tasks,    \* memory for tasks: an address is used again once freed
          Nothing,  \* NULL, and what a free address holds
          Commands,
          Output,   \* what a command prints: bytes "char", "newline" and "ff", (char)EOF
          MaxLine,  \* MAX_STRINGLENGTH
          Callbacks,\* whether scripts give a function to call back
          Levels    \* values of scrVarPub.levelId

Bytes == {"char", "newline", "ff"}
Pointer == Tasks \cup {Nothing}

(* exec_async_task; output is the list of exec_outputline. *)
Task == [prev : Pointer, next : Pointer, command : Commands, save : BOOLEAN,
         callback : BOOLEAN, done : BOOLEAN, error : BOOLEAN, levelId : Levels,
         output : Seq(Seq(Bytes))]

ASSUME ExecAssumption ==
    /\ IsFiniteSet(Tasks) /\ Nothing \notin Tasks /\ Nothing \notin Task
    /\ Output \in [Commands -> Seq(Bytes)]
    /\ MaxLine \in Nat \ {0}
    /\ Callbacks \subseteq BOOLEAN

VARIABLES heap,     \* the tasks
          first,    \* first_exec_async_task
          threads,  \* the thread of each task: where it is, and how much it has read
          game,     \* the game thread: where it is, current, task, the callback's array
          levelId   \* scrVarPub.levelId

vars == <<heap, first, threads, game, levelId>>

Listed == {t \in Tasks : heap[t] # Nothing}
NoThread == [at |-> "none", pos |-> 0]

Init == /\ heap = [t \in Tasks |-> Nothing]
        /\ first = Nothing
        /\ threads = [t \in Tasks |-> NoThread]
        /\ game = [at |-> "script", cur |-> Nothing, task |-> Nothing, array |-> <<>>]
        /\ levelId \in Levels

----------------------------------------------------------------------------
(* One byte of output: a line that is full ends, without the byte.         *)
Put(lines, b) ==
    IF b = "newline" \/ Len(lines[Len(lines)]) = MaxLine - 1 THEN Append(lines, <<>>)
    ELSE [lines EXCEPT ![Len(lines)] = Append(@, b)]

(* What is made of the first k bytes a command prints.                     *)
After(c) ==
    LET lines[k \in 0 .. Len(Output[c])] ==
            IF k = 0 THEN <<<<>>>> ELSE Put(lines[k - 1], Output[c][k])
    IN  lines

(* No more than n bytes are read: they are all, or what follows them is    *)
(* the byte that is EOF once it is a char.                                 *)
EndsAfter(c, n) ==
    /\ \A i \in 1 .. n : Output[c][i] # "ff"
    /\ n < Len(Output[c]) => Output[c][n + 1] = "ff"

(* gsc_exec: the array a script gets that waits for the command.           *)
Lines(c) == After(c)[CHOOSE n \in 0 .. Len(Output[c]) : EndsAfter(c, n)]

----------------------------------------------------------------------------
(* Functions scripts call, from the map's threads or from a callback.      *)
Script == game.at \in {"script", "callback"}

LastTask == CHOOSE t \in Listed : heap[t].next = Nothing

LinkLast(task, t) ==
    IF first = Nothing
    THEN heap' = [heap EXCEPT ![t] = task] /\ first' = t
    ELSE /\ heap' = [heap EXCEPT ![t] = [task EXCEPT !.prev = LastTask], ![LastTask].next = t]
         /\ UNCHANGED first

(* What the two functions below share.  pthread_create may fail: the task  *)
(* stays in the list.                                                      *)
Create(t, c, save, callback) ==
    /\ Script
    /\ heap[t] = Nothing
    /\ LinkLast([prev |-> Nothing, next |-> Nothing, command |-> c, save |-> save,
                 callback |-> callback, done |-> FALSE, error |-> FALSE,
                 levelId |-> levelId, output |-> <<>>], t)
    /\ threads' \in {threads, [threads EXCEPT ![t] = [at |-> "popen", pos |-> 0]]}
    /\ UNCHANGED <<game, levelId>>

CreateTask(t, c, callback) == Create(t, c, TRUE, callback)

CreateNosave(t, c, callback) == Create(t, c, FALSE, callback)

(* The tasks of the map before stay; the new level may get its number.     *)
ChangeMap == /\ game.at = "script"
             /\ levelId' \in Levels
             /\ UNCHANGED <<heap, first, threads, game>>

----------------------------------------------------------------------------
(* exec_async *)
Popen(t) ==
    /\ threads[t].at = "popen"
    /\ threads' = [threads EXCEPT ![t].at = "read"]
    /\ heap' = IF heap[t].save THEN [heap EXCEPT ![t].output = <<<<>>>>] ELSE heap
    /\ UNCHANGED <<first, game, levelId>>

(* done is never set. *)
PopenFails(t) ==
    /\ threads[t].at = "popen"
    /\ threads' = [threads EXCEPT ![t] = NoThread]
    /\ heap' = [heap EXCEPT ![t].error = TRUE]
    /\ UNCHANGED <<first, game, levelId>>

(* Output that is not saved is read and forgotten. *)
AtEnd(t) ==
    (heap[t].save /\ threads[t].pos < Len(Output[heap[t].command]))
       => Output[heap[t].command][threads[t].pos + 1] = "ff"

Read(t) ==
    /\ threads[t].at = "read" /\ ~AtEnd(t)
    /\ LET pos == threads[t].pos + 1
       IN  /\ threads' = [threads EXCEPT ![t].pos = pos]
           /\ heap' = [heap EXCEPT ![t].output = Put(@, Output[heap[t].command][pos])]
    /\ UNCHANGED <<first, game, levelId>>

(* Mutant: done is set before the output is read. *)
DoneFirst(t) ==
    /\ threads[t].at = "read"
    /\ \/ /\ ~heap[t].done
          /\ heap' = [heap EXCEPT ![t].done = TRUE]
          /\ UNCHANGED threads
       \/ /\ AtEnd(t)
          /\ threads' = [threads EXCEPT ![t] = NoThread]
          /\ UNCHANGED heap
    /\ UNCHANGED <<first, game, levelId>>

(* pclose returns, and the task is left to the game thread. *)
Done(t) ==
    /\ threads[t].at = "read" /\ AtEnd(t)
    /\ threads' = [threads EXCEPT ![t] = NoThread]
    /\ heap' = [heap EXCEPT ![t].done = TRUE]
    /\ UNCHANGED <<first, game, levelId>>

Thread(t) == Popen(t) \/ PopenFails(t) \/ Read(t) \/ Done(t)

----------------------------------------------------------------------------
(* gsc_exec_async_checkdone, one step per task and per return of a         *)
(* callback.  It is called by scripts, so the script system is active, and *)
(* not from a callback.                                                    *)
CheckDone ==
    /\ game.at = "script"
    /\ game' = [game EXCEPT !.at = "check", !.cur = first]
    /\ UNCHANGED <<heap, first, threads, levelId>>

(* Mutant: what comes after the task is what came after it before the      *)
(* callback.                                                               *)
FreeStale(t) ==
    LET next == game.cur
    IN  /\ heap' = [x \in Tasks |->
              IF x = t THEN Nothing
              ELSE IF next = x THEN [heap[x] EXCEPT !.prev = heap[t].prev]
              ELSE IF heap[t].prev = x THEN [heap[x] EXCEPT !.next = next]
              ELSE heap[x]]
        /\ first' = IF heap[t].prev = Nothing THEN next ELSE first

Free(t) ==
    /\ heap' = [x \in Tasks |->
          IF x = t THEN Nothing
          ELSE IF heap[t].next = x THEN [heap[x] EXCEPT !.prev = heap[t].prev]
          ELSE IF heap[t].prev = x THEN [heap[x] EXCEPT !.next = heap[t].next]
          ELSE heap[x]]
    /\ first' = IF heap[t].prev = Nothing THEN heap[t].next ELSE first

Visit(t) == game.at = "check" /\ game.cur = t /\ heap[t] # Nothing

(* Mutant: the walk ends at the first task that is not done. *)
VisitRunningEnds(t) ==
    /\ Visit(t) /\ ~heap[t].done
    /\ game' = [game EXCEPT !.cur = Nothing]
    /\ UNCHANGED <<heap, first, threads, levelId>>

VisitRunning(t) ==
    /\ Visit(t) /\ ~heap[t].done
    /\ game' = [game EXCEPT !.cur = heap[t].next]
    /\ UNCHANGED <<heap, first, threads, levelId>>

CallsBack(t) == /\ heap[t].save /\ heap[t].callback /\ ~heap[t].error
                /\ heap[t].levelId = levelId

(* The output of a task that is not called back is lost. *)
VisitSilent(t) ==
    /\ Visit(t) /\ heap[t].done /\ ~CallsBack(t)
    /\ Free(t)
    /\ game' = [game EXCEPT !.cur = heap[t].next]
    /\ UNCHANGED <<threads, levelId>>

VisitCallback(t) ==
    /\ Visit(t) /\ heap[t].done /\ CallsBack(t)
    /\ game' = [at |-> "callback", cur |-> heap[t].next, task |-> t,
                array |-> heap[t].output]
    /\ UNCHANGED <<heap, first, threads, levelId>>

CallbackReturns ==
    /\ game.at = "callback"
    /\ Free(game.task)
    /\ game' = [game EXCEPT !.at = "check", !.task = Nothing, !.array = <<>>]
    /\ UNCHANGED <<threads, levelId>>

CheckEnds ==
    /\ game.at = "check" /\ game.cur = Nothing
    /\ game' = [game EXCEPT !.at = "script"]
    /\ UNCHANGED <<heap, first, threads, levelId>>

Check == \/ CheckDone \/ CallbackReturns \/ CheckEnds
         \/ \E t \in Tasks : VisitRunning(t) \/ VisitSilent(t) \/ VisitCallback(t)

Next == \/ \E t \in Tasks : Thread(t)
        \/ \E t \in Tasks, c \in Commands, callback \in Callbacks :
              CreateTask(t, c, callback) \/ CreateNosave(t, c, callback)
        \/ ChangeMap
        \/ Check

Spec == Init /\ [][Next]_vars

(* Commands end, threads run, and scripts call checkdone again and again.  *)
Fairness == WF_vars(Check) /\ \A t \in Tasks : WF_vars(Thread(t))

FairSpec == Spec /\ Fairness

----------------------------------------------------------------------------
TypeOK ==
    /\ heap \in [Tasks -> Task \cup {Nothing}]
    /\ first \in Pointer
    /\ threads \in [Tasks -> [at : {"none", "popen", "read"}, pos : Nat]]
    /\ game \in [at : {"script", "check", "callback"}, cur : Pointer, task : Pointer,
                 array : Seq(Seq(Bytes))]
    /\ levelId \in Levels

(* The list holds every task once, in both directions, and the walk over   *)
(* it never points to a task that was freed, though callbacks create tasks *)
(* in the middle of it, behind the very task that is about to be freed.    *)
ListKept ==
    /\ LET n == Cardinality(Listed)
       IN \E list \in Injection(1 .. n, Listed) :
             /\ first = IF n = 0 THEN Nothing ELSE list[1]
             /\ \A i \in 1 .. n :
                   /\ heap[list[i]].prev = IF i = 1 THEN Nothing ELSE list[i - 1]
                   /\ heap[list[i]].next = IF i = n THEN Nothing ELSE list[i + 1]
    /\ {game.cur, game.task} \subseteq Listed \cup {Nothing}

(* A thread that runs has its task: the task it was given is listed and    *)
(* not done, so that checkdone frees no task under its thread.             *)
ThreadOwnsTask ==
    \A t \in Tasks : threads[t].at # "none" => heap[t] # Nothing /\ ~heap[t].done

(* A callback gets what a script that waits for the same command gets from *)
(* gsc_exec, and the whole of it.                                          *)
WholeOutput ==
    game.at = "callback" => game.array = Lines(heap[game.task].command)

(* Every command that runs to its end is collected as long as the calls of *)
(* checkdone return: tasks whose thread could not be created, or whose     *)
(* command could not be run, stay in the list for ever and must not keep   *)
(* those behind them waiting.                                              *)
EveryCommandCollected ==
    ([]<>(game.at = "script")) =>
       \A t \in Tasks : threads[t].at = "read" ~> heap[t] = Nothing
=============================================================================
