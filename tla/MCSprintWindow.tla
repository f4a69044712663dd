--------------------------- MODULE MCSprintWindow ---------------------------
(* Instance of SprintWindow: sprints of up to four, moves of one or two.   *)
EXTENDS SprintWindow

MCSprintTimes == {0, 2, 4}
MCMinTimes == {0, 2}
MCMsecs == {1, 2}
=============================================================================
