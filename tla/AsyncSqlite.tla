---------------------------- MODULE AsyncSqlite ----------------------------
(***************************************************************************)
(* SQLite for scripts (gsc_sqlite.cpp): the store of open connections, and *)
(* the list of queries that the game thread keeps and a second thread      *)
(* runs.  The list is threaded through the tasks; the query thread holds   *)
(* async_sqlite_mutex_lock while it walks it, the game thread holds it     *)
(* while it removes a task and while a map change frees everything.  The   *)
(* functions that start the thread are compiled but left out of the table  *)
(* in gsc.cpp (#if 0); this is what they do when they are in it.           *)
(*                                                                         *)
(* What the game thread does under the lock takes one step, so only the    *)
(* query thread is ever seen to hold it.                                   *)
(***************************************************************************)
EXTENDS Naturals, FiniteSets, Sequences, SequencesExt

CONSTANTS Tasks,     \* memory for tasks: an address is used again once freed
          Dbs,       \* memory for connections
          Nothing,   \* NULL, and what a free address holds
          MaxTasks,  \* MAX_SQLITE_TASKS: 512
          MaxStores  \* MAX_SQLITE_DB_STORES: 64

Pointer == Tasks \cup {Nothing}

Task == [prev : Pointer, next : Pointer, db : Dbs, calls : BOOLEAN,
         done : BOOLEAN, error : BOOLEAN, remove : BOOLEAN,
         statement : {"unset", "null", "open", "finalized"}]

ASSUME SqliteAssumption ==
    /\ IsFiniteSet(Tasks) /\ IsFiniteSet(Dbs)
    /\ Nothing \notin Tasks \cup Dbs /\ Nothing \notin Task
    /\ MaxTasks \in Nat /\ MaxTasks >= 2
    /\ MaxStores \in Nat /\ MaxStores >= 2

VARIABLES up,        \* the process runs
          heap,      \* the tasks
          first,     \* first_async_sqlite_task
          stores,    \* first_sqlite_db_store and what follows it
          open,      \* the connections SQLite has open
          handles,   \* the connections the scripts of this map hold
          thread,    \* the query thread: where it is, current, task
          game,      \* the game thread: where it is, current, task
          spawning,  \* SV_SpawnServer has not returned
          called     \* per task: how often its callback was called

list == <<heap, first, called>>
connections == <<stores, open, handles>>
vars == <<up, list, connections, thread, game, spawning>>

Listed == {t \in Tasks : heap[t] # Nothing}
Locked == thread.at \notin {"none", "sleep"}
Pending(t) == heap[t] # Nothing /\ ~heap[t].done

Init == /\ up = TRUE
        /\ heap = [t \in Tasks |-> Nothing]
        /\ first = Nothing
        /\ called = [t \in Tasks |-> 0]
        /\ stores = <<>> /\ open = {} /\ handles = {}
        /\ thread = [at |-> "none", cur |-> Nothing, task |-> Nothing]
        /\ game = [at |-> "script", cur |-> Nothing, task |-> Nothing]
        /\ spawning = FALSE

(* A pointer to what was freed, or never written, is used, and the process *)
(* ends with all it had.                                                   *)
Crash == /\ up' = FALSE
         /\ heap' = [t \in Tasks |-> Nothing]
         /\ first' = Nothing
         /\ called' = [t \in Tasks |-> 0]
         /\ stores' = <<>> /\ open' = {} /\ handles' = {}
         /\ thread' = [at |-> "none", cur |-> Nothing, task |-> Nothing]
         /\ game' = [at |-> "script", cur |-> Nothing, task |-> Nothing]
         /\ spawning' = FALSE

----------------------------------------------------------------------------
(* Functions scripts call, from the map's threads or from a callback.      *)
Script == up /\ game.at \in {"script", "callback"}

(* gsc_async_sqlite_initialize *)
Initialize ==
    /\ Script
    /\ thread.at = "none"
    /\ thread' = [thread EXCEPT !.at = "sleep"]
    /\ UNCHANGED <<up, list, connections, game, spawning>>

(* The walk to the last element gives up at the element before the limit,  *)
(* and does not start for a list of one.                                   *)
TooMany(n, limit) == n >= 2 /\ n - 2 >= limit - 2

(* gsc_sqlite_open *)
Open(db) ==
    /\ Script
    /\ db \notin open
    /\ ~TooMany(Len(stores), MaxStores)
    /\ open' = open \cup {db}
    /\ stores' = Append(stores, db)
    /\ handles' = handles \cup {db}
    /\ UNCHANGED <<up, list, thread, game, spawning>>

Busy(db) == thread.at = "step" /\ heap[thread.task].db = db

(* gsc_sqlite_close: SQLite refuses while a statement is open.             *)
Close(db) ==
    /\ Script
    /\ db \in handles \cap open /\ ~Busy(db)
    /\ open' = open \ {db}
    /\ stores' = SelectSeq(stores, LAMBDA d : d # db)
    /\ handles' = handles \ {db}
    /\ UNCHANGED <<up, list, thread, game, spawning>>

(* gsc_sqlite_query and gsc_sqlite_close of a connection that the end of a *)
(* map change has closed.                                                  *)
UseClosed(db) == Script /\ db \in handles \ open /\ Crash

LastTask == CHOOSE t \in Listed : heap[t].next = Nothing

(* Mutant: a new task goes to the head. *)
LinkAtHead(task, t) ==
    /\ heap' = [x \in Tasks |->
          IF x = t THEN [task EXCEPT !.prev = Nothing, !.next = first]
          ELSE IF x = first THEN [heap[x] EXCEPT !.prev = t] ELSE heap[x]]
    /\ first' = t

LinkLast(task, t) ==
    IF first = Nothing
    THEN heap' = [heap EXCEPT ![t] = task] /\ first' = t
    ELSE /\ heap' = [heap EXCEPT ![t] = [task EXCEPT !.prev = LastTask], ![LastTask].next = t]
         /\ UNCHANGED first

(* What the four functions below share.  Of save and callback only whether *)
(* both are there makes a difference; statement is not written.            *)
Create(t, db, calls) ==
    /\ Script
    /\ thread.at # "none"
    /\ db \in handles
    /\ heap[t] = Nothing
    /\ ~TooMany(Cardinality(Listed), MaxTasks)
    /\ LinkLast([prev |-> Nothing, next |-> Nothing, db |-> db, calls |-> calls,
                 done |-> FALSE, error |-> FALSE, remove |-> FALSE,
                 statement |-> "unset"], t)
    /\ UNCHANGED <<up, called, connections, thread, game, spawning>>

CreateQuery(t, db, callback) == Create(t, db, callback)

CreateQueryNosave(t, db) == Create(t, db, FALSE)

(* The entity is passed on to the callback; &g_entities[n] is never NULL.  *)
CreateEntityQuery(t, db, callback) == Create(t, db, callback)

CreateEntityQueryNosave(t, db) == Create(t, db, FALSE)

----------------------------------------------------------------------------
(* gsc_async_sqlite_checkdone, one step per task and per return of a       *)
(* callback.  It is not called from a callback.                            *)
CheckDone ==
    /\ up /\ game.at = "script"
    /\ game' = [at |-> "check", cur |-> first, task |-> Nothing]
    /\ UNCHANGED <<up, list, connections, thread, spawning>>

Advance == game' = [game EXCEPT !.cur = heap[game.cur].next]

(* Mutant: whoever looks back still sees the task. *)
UnlinkedForward(t) ==
    [x \in Tasks |->
        IF x = t THEN Nothing
        ELSE IF heap[t].prev = x THEN [heap[x] EXCEPT !.next = heap[t].next]
        ELSE heap[x]]

Unlinked(t) ==
    [x \in Tasks |->
        IF x = t THEN Nothing
        ELSE IF heap[t].next = x THEN [heap[x] EXCEPT !.prev = heap[t].prev]
        ELSE IF heap[t].prev = x THEN [heap[x] EXCEPT !.next = heap[t].next]
        ELSE heap[x]]

Visit(t) == up /\ game.at = "check" /\ game.cur = t /\ heap[t] # Nothing

VisitWaiting(t) ==
    /\ Visit(t) /\ ~heap[t].remove /\ ~heap[t].done
    /\ Advance
    /\ UNCHANGED <<up, list, connections, thread, spawning>>

VisitSilent(t) ==
    /\ Visit(t) /\ ~heap[t].remove /\ heap[t].done
    /\ heap[t].error \/ ~heap[t].calls
    /\ Advance
    /\ heap' = [heap EXCEPT ![t].remove = TRUE]
    /\ UNCHANGED <<up, first, called, connections, thread, spawning>>

VisitCallback(t) ==
    /\ Visit(t) /\ ~heap[t].remove /\ heap[t].done
    /\ ~heap[t].error /\ heap[t].calls
    /\ game' = [at |-> "callback", cur |-> heap[t].next, task |-> t]
    /\ called' = [called EXCEPT ![t] = @ + 1]
    /\ UNCHANGED <<up, heap, first, connections, thread, spawning>>

(* Mutant: the task is not marked. *)
CallbackReturnsAgain ==
    /\ up /\ game.at = "callback"
    /\ game' = [game EXCEPT !.at = "check", !.task = Nothing]
    /\ UNCHANGED <<up, list, connections, thread, spawning>>

CallbackReturns ==
    /\ up /\ game.at = "callback"
    /\ heap' = [heap EXCEPT ![game.task].remove = TRUE]
    /\ game' = [game EXCEPT !.at = "check", !.task = Nothing]
    /\ UNCHANGED <<up, first, called, connections, thread, spawning>>

(* Mutant: removed without the lock. *)
MayRemoveAnyTime == TRUE

(* pthread_mutex_trylock *)
MayRemove == ~Locked

VisitRemoved(t) ==
    /\ Visit(t) /\ heap[t].remove
    /\ Advance
    /\ IF MayRemove
       THEN /\ heap' = Unlinked(t)
            /\ first' = IF first = t THEN heap[t].next ELSE first
            /\ called' = [called EXCEPT ![t] = 0]
       ELSE UNCHANGED list
    /\ UNCHANGED <<up, connections, thread, spawning>>

CheckEnds ==
    /\ up /\ game.at = "check" /\ game.cur = Nothing
    /\ game' = [game EXCEPT !.at = "script"]
    /\ UNCHANGED <<up, list, connections, thread, spawning>>

----------------------------------------------------------------------------
(* custom_SV_SpawnServer.  The old map's scripts are gone and the new      *)
(* map's already run when free_sqlite_db_stores_and_tasks is called.       *)
SpawnServer ==
    /\ up /\ game.at = "script" /\ ~spawning
    /\ spawning' = TRUE
    /\ handles' = {}
    /\ UNCHANGED <<up, list, stores, open, thread, game>>

SpawnReturns ==
    /\ up /\ game.at = "script" /\ spawning
    /\ game' = [game EXCEPT !.at = "free"]
    /\ UNCHANGED <<up, list, connections, thread, spawning>>

FreeAll ==
    /\ up /\ game.at = "free" /\ ~Locked
    /\ heap' = [t \in Tasks |-> Nothing]
    /\ first' = Nothing
    /\ called' = [t \in Tasks |-> 0]
    /\ stores' = <<>> /\ open' = {}
    /\ spawning' = FALSE
    /\ game' = [game EXCEPT !.at = "script"]
    /\ UNCHANGED <<up, handles, thread>>

(* sqlite3_finalize of a statement that was finalized, or of whatever the  *)
(* memory of the task held.                                                *)
FreeWild ==
    /\ up /\ game.at = "free" /\ ~Locked
    /\ \E t \in Listed : heap[t].statement \in {"unset", "finalized"}
    /\ Crash

----------------------------------------------------------------------------
(* async_sqlite_query_handler                                              *)
ThreadLocks ==
    /\ up /\ thread.at = "sleep"
    /\ thread' = [thread EXCEPT !.at = "walk", !.cur = first]
    /\ UNCHANGED <<up, list, connections, game, spawning>>

ThreadTakes(t) ==
    /\ up /\ thread.at = "walk" /\ thread.cur = t /\ heap[t] # Nothing
    /\ thread' = IF heap[t].done
                 THEN [thread EXCEPT !.cur = heap[t].next]
                 ELSE [at |-> "prepare", cur |-> heap[t].next, task |-> t]
    /\ UNCHANGED <<up, list, connections, game, spawning>>

Prepared ==
    /\ up /\ thread.at = "prepare"
    /\ heap[thread.task].db \in open
    /\ heap' = [heap EXCEPT ![thread.task].statement = "open"]
    /\ thread' = [thread EXCEPT !.at = "step"]
    /\ UNCHANGED <<up, first, called, connections, game, spawning>>

(* Mutant: a query that cannot be prepared is left for the next walk. *)
NotPreparedLeft ==
    /\ up /\ thread.at = "prepare"
    /\ heap' = [heap EXCEPT ![thread.task].error = TRUE]
    /\ thread' = [thread EXCEPT !.at = "walk", !.task = Nothing]
    /\ UNCHANGED <<up, first, called, connections, game, spawning>>

(* The query is wrong, or its connection was closed.                       *)
NotPrepared ==
    /\ up /\ thread.at = "prepare"
    /\ heap' = [heap EXCEPT ![thread.task].error = TRUE,
                            ![thread.task].statement = "null"]
    /\ thread' = [thread EXCEPT !.at = "finish"]
    /\ UNCHANGED <<up, first, called, connections, game, spawning>>

PreparedOnClosed ==
    /\ up /\ thread.at = "prepare"
    /\ heap[thread.task].db \notin open
    /\ Crash

(* The rows are read until there are no more, the array is full, or one    *)
(* cannot be had.                                                          *)
Stepped(error) ==
    /\ up /\ thread.at = "step"
    /\ heap' = [heap EXCEPT ![thread.task].error = error,
                            ![thread.task].statement = "finalized"]
    /\ thread' = [thread EXCEPT !.at = "finish"]
    /\ UNCHANGED <<up, first, called, connections, game, spawning>>

Finished ==
    /\ up /\ thread.at = "finish"
    /\ heap' = [heap EXCEPT ![thread.task].done = TRUE]
    /\ thread' = [thread EXCEPT !.at = "walk", !.task = Nothing]
    /\ UNCHANGED <<up, first, called, connections, game, spawning>>

(* Mutant: the next walk begins under the same lock. *)
ThreadWalksOn ==
    /\ up /\ thread.at = "walk" /\ thread.cur = Nothing
    /\ thread' = [thread EXCEPT !.cur = first]
    /\ UNCHANGED <<up, list, connections, game, spawning>>

ThreadUnlocks ==
    /\ up /\ thread.at = "walk" /\ thread.cur = Nothing
    /\ thread' = [thread EXCEPT !.at = "sleep"]
    /\ UNCHANGED <<up, list, connections, game, spawning>>

QueryThread ==
    \/ ThreadLocks \/ Prepared \/ NotPrepared \/ PreparedOnClosed
    \/ Finished \/ ThreadUnlocks
    \/ \E t \in Tasks : ThreadTakes(t)
    \/ \E error \in BOOLEAN : Stepped(error)

GameThread ==
    \/ Initialize \/ CheckDone \/ CallbackReturns \/ CheckEnds
    \/ SpawnServer \/ SpawnReturns \/ FreeAll \/ FreeWild
    \/ \E db \in Dbs : Open(db) \/ Close(db) \/ UseClosed(db)
    \/ \E t \in Tasks :
          \/ \E db \in Dbs, callback \in BOOLEAN :
                CreateQuery(t, db, callback) \/ CreateEntityQuery(t, db, callback)
          \/ \E db \in Dbs : CreateQueryNosave(t, db) \/ CreateEntityQueryNosave(t, db)
          \/ VisitWaiting(t) \/ VisitSilent(t) \/ VisitCallback(t) \/ VisitRemoved(t)

Next == QueryThread \/ GameThread

Spec == Init /\ [][Next]_vars

(* The query thread runs; it sleeps between walks, and a game thread that  *)
(* waits for the lock gets it in the end.                                  *)
Fairness == WF_vars(QueryThread) /\ SF_vars(FreeAll)

FairSpec == Spec /\ Fairness

----------------------------------------------------------------------------
TypeOK == /\ up \in BOOLEAN /\ spawning \in BOOLEAN
          /\ heap \in [Tasks -> Task \cup {Nothing}]
          /\ first \in Pointer
          /\ called \in [Tasks -> Nat]
          /\ open \subseteq Dbs /\ handles \subseteq Dbs
          /\ ToSet(stores) = open
          /\ Len(stores) <= MaxStores /\ Cardinality(Listed) <= MaxTasks
          /\ thread \in [at : {"none", "sleep", "walk", "prepare", "step", "finish"},
                         cur : Pointer, task : Pointer]
          /\ game \in [at : {"script", "check", "callback", "free"},
                       cur : Pointer, task : Pointer]

(* The list holds every task once, in both directions, whoever is walking  *)
(* it while tasks are appended without the lock and removed under it, and  *)
(* neither thread is left with a pointer to a task that was freed: the     *)
(* query thread reads the next task before a query that takes long, the    *)
(* game thread before a callback.                                          *)
ListKept ==
    /\ LET n == Cardinality(Listed)
       IN \E order \in Injection(1 .. n, Listed) :
             /\ first = IF n = 0 THEN Nothing ELSE order[1]
             /\ \A i \in 1 .. n :
                   /\ heap[order[i]].prev = IF i = 1 THEN Nothing ELSE order[i - 1]
                   /\ heap[order[i]].next = IF i = n THEN Nothing ELSE order[i + 1]
    /\ {thread.cur, thread.task, game.cur, game.task} \subseteq Listed \cup {Nothing}

(* Queries run in the order in which scripts asked for them: no query is   *)
(* done before one that was asked for earlier.                             *)
DoneInOrder ==
    \A t \in Listed : heap[t].next \in Listed /\ heap[heap[t].next].done => heap[t].done

(* A query calls its script back once, with the result of a query that was *)
(* run and did not fail; the statement is not in use then.                 *)
CalledOnce ==
    \A t \in Listed : called[t] > 0 =>
        /\ called[t] = 1
        /\ heap[t].done /\ ~heap[t].error /\ heap[t].statement = "finalized"

(* A query that was asked for is run, or freed by a map change, and        *)
(* the map change does not wait for ever for the query thread.             *)
EveryQueryRuns ==
    \A t \in Tasks : Pending(t) ~> (~Pending(t) \/ ~up)

MapChangeEnds == game.at = "free" ~> (game.at # "free" \/ ~up)
=============================================================================
