---------------------------- MODULE MCAsyncExec ----------------------------
(* An instance of AsyncExec: two tasks and two commands.  One prints a     *)
(* line that is full before its newline, and bytes behind the one that is  *)
(* taken for the end; the other prints nothing.                            *)
EXTENDS AsyncExec

CONSTANTS t1, t2, ls, rm

MCTasks == {t1, t2}
MCCommands == {ls, rm}
MCOutput == [c \in MCCommands |->
               IF c = ls THEN <<"char", "char", "newline", "char", "ff", "char">> ELSE <<>>]
MCCallbacks == BOOLEAN
MCLevels == {1, 2}
=============================================================================
