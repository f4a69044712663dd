--------------------------- MODULE MCAsyncSqlite ---------------------------
(* Instance of AsyncSqlite: memory for more tasks than the list may hold.  *)
EXTENDS AsyncSqlite

CONSTANTS t1, t2, t3, d1

MCTasks == {t1, t2, t3}
MCDbs == {d1}
=============================================================================
