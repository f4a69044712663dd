---------------------------- MODULE SprintWindow ----------------------------
(***************************************************************************)
(* Sprint observed over a window of time, opened at any instant and closed *)
(* by a spawn or by sprinting being switched off: how long the player may  *)
(* have sprinted, and how long a sprint lasts that he does not end.        *)
(***************************************************************************)
EXTENDS Sprint

CONSTANT MaxWindow  \* bound on the time a window counts

ASSUME WindowAssumption == MaxWindow \in Nat

VARIABLES used,    \* time spent sprinting in the window
          rested,  \* time the timer was left to run down in it
          lasted,  \* time since the present sprint began
          steady   \* the cvars were not changed since then

wvars == <<sprintVars, used, rested, lasted, steady>>

WInit == /\ SprintInit
         /\ used = 0 /\ rested = 0 /\ lasted = 0 /\ steady = TRUE

OpenWindow == /\ UNCHANGED <<sprintVars, lasted, steady>>
              /\ used' = 0 /\ rested' = 0

WSpawn == /\ Spawn
          /\ used' = 0 /\ rested' = 0 /\ lasted' = 0
          /\ UNCHANGED steady

WCommand == /\ Command \/ CommandRefused
            /\ UNCHANGED <<used, rested, lasted, steady>>

WFrame(forward, low, air, msec) ==
    /\ used + rested < MaxWindow
    /\ PM_UpdateSprint(forward, low, air, msec)
    /\ used' = IF player_sprintTime = 0 THEN 0
               ELSE IF sprintActive THEN used + msec ELSE used
    /\ rested' = IF player_sprintTime = 0 THEN 0
                 ELSE IF sprintActive \/ sprintTimer' = sprintTimer THEN rested
                 ELSE rested + msec
    /\ lasted' = IF sprintActive THEN lasted + msec ELSE 0
    /\ steady' = (steady \/ ~sprintActive)

WSetCvar == /\ SetCvar
            /\ steady' = FALSE
            /\ UNCHANGED <<used, rested, lasted>>

WNext == \/ OpenWindow \/ WSpawn \/ WCommand \/ WSetCvar
         \/ \E forward, low, air \in BOOLEAN, msec \in Msecs :
                WFrame(forward, low, air, msec)

WSpec == WInit /\ [][WNext]_wvars

----------------------------------------------------------------------------
SprintTypeOK == /\ sprintActive \in BOOLEAN /\ sprintRequestPending \in BOOLEAN
                /\ player_sprint \in BOOLEAN /\ steady \in BOOLEAN
                /\ sprintTimer \in 0 .. MaxTime + MaxMsec
                /\ player_sprintTime \in SprintTimes
                /\ player_sprintMinTime \in MinTimes
                /\ used \in Nat /\ rested \in Nat /\ lasted \in Nat

(* Over any window a player sprints no longer than the longest sprint, one *)
(* move and the time he has rested: however he presses the key, crouches,  *)
(* jumps or lets go, no frame of sprinting goes uncounted and none of      *)
(* resting counts twice.                                                   *)
SprintBound == used <= rested + MaxTime + MaxMsec

(* A request that waits and a sprint exclude each other. *)
OneOrTheOther == ~(sprintActive /\ sprintRequestPending)

(* A sprint the player does not end himself lasts player_sprintMinTime at  *)
(* least: he was not let start on less.                                    *)
Exhausted == /\ sprintActive /\ ~sprintActive'
             /\ sprintTimer' > player_sprintTime /\ player_sprintTime > 0

LastsMinTime == [][Exhausted /\ steady => lasted' > player_sprintMinTime]_wvars

----------------------------------------------------------------------------
(* Why SprintBound holds: the timer is at least what was used and not yet  *)
(* rested off.                                                             *)
Potential == used <= rested + sprintTimer

(* Why the timer is bounded: only a sprint moves it up, and one whose timer *)
(* is past the sprint time is over.                                        *)
Running == sprintActive => sprintTimer <= MaxTime

(* Why LastsMinTime holds: the timer when the sprint began.                *)
Started == sprintActive /\ steady => sprintTimer - lasted < player_sprintTime - player_sprintMinTime

SprintIInv == SprintTypeOK /\ OneOrTheOther /\ Running /\ Potential /\ Started
=============================================================================
