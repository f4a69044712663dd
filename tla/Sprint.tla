------------------------------- MODULE Sprint -------------------------------
(***************************************************************************)
(* Sprinting of one player (libcod.cpp): the client command "sprint"       *)
(* (UCMD_custom_sprint), PM_UpdateSprint after every move, and the places  *)
(* that reset the state.  sprintTimer counts up while the player sprints   *)
(* and down while he does not.  The move itself, the stance, the ground    *)
(* and the keys are the game's and the player's: every frame finds them as *)
(* it may.                                                                 *)
(***************************************************************************)
EXTENDS Integers

CONSTANTS SprintTimes, \* player_sprintTime in milliseconds: 4000, or 0 for no sprint
          MinTimes,    \* player_sprintMinTime: 1000
          Msecs,       \* pml->msec, the length of a move
          MaxTime,     \* bounds on the three above
          MaxMsec

ASSUME SprintAssumption ==
    /\ MaxTime \in Nat
    /\ MaxMsec \in Nat \ {0}
    /\ SprintTimes \subseteq 0 .. MaxTime
    /\ MinTimes \subseteq 0 .. MaxTime
    /\ Msecs \subseteq 1 .. MaxMsec

VARIABLES sprintActive, sprintRequestPending, sprintTimer,
          player_sprint, player_sprintTime, player_sprintMinTime

state == <<sprintActive, sprintRequestPending, sprintTimer>>
cvars == <<player_sprint, player_sprintTime, player_sprintMinTime>>
sprintVars == <<state, cvars>>

Reset == /\ sprintActive' = FALSE
         /\ sprintRequestPending' = FALSE
         /\ sprintTimer' = 0

SprintInit == /\ sprintActive = FALSE
              /\ sprintRequestPending = FALSE
              /\ sprintTimer = 0
              /\ player_sprint \in BOOLEAN
              /\ player_sprintTime \in SprintTimes
              /\ player_sprintMinTime \in MinTimes

(* custom_ClientSpawn, and custom_SV_SendClientGameState, which clears all *)
(* of customPlayerState.                                                   *)
Spawn == Reset /\ UNCHANGED cvars

(* UCMD_custom_sprint: one key starts, takes back and stops. *)
Command == /\ player_sprint
           /\ sprintActive' = FALSE
           /\ sprintRequestPending' = (~sprintActive /\ ~sprintRequestPending)
           /\ UNCHANGED <<sprintTimer, cvars>>

(* "Sprint is not enabled on this server." *)
CommandRefused == ~player_sprint /\ UNCHANGED sprintVars

----------------------------------------------------------------------------
(* PM_UpdateSprint.  forward: the forward key is down; low: crouching or   *)
(* prone; air: not on the ground.  A request never waits while the player  *)
(* sprints, so the branches for both at once are not told apart.           *)

Recovered(msec) == IF sprintTimer < msec THEN 0 ELSE sprintTimer - msec

FrameSwitchedOff ==
    /\ player_sprintTime = 0
    /\ sprintActive' = FALSE
    /\ sprintTimer' = 0
    /\ UNCHANGED <<sprintRequestPending, cvars>>

FrameTakesBack(forward) ==
    /\ player_sprintTime > 0
    /\ sprintRequestPending /\ ~forward
    /\ sprintRequestPending' = FALSE
    /\ UNCHANGED <<sprintActive, sprintTimer, cvars>>

(* The player is told to stand; the timer does not move. *)
FrameWaitsToStand(forward, low) ==
    /\ player_sprintTime > 0
    /\ sprintRequestPending /\ forward /\ low
    /\ UNCHANGED sprintVars

FrameWaitsToLand(forward, low, air, msec) ==
    /\ player_sprintTime > 0
    /\ sprintRequestPending /\ forward /\ ~low /\ air
    /\ sprintTimer' = Recovered(msec)
    /\ UNCHANGED <<sprintActive, sprintRequestPending, cvars>>

(* Mutant: the least sprint time is not asked for. *)
EnoughLeftAlways(timer) == timer < player_sprintTime

EnoughLeft(timer) == timer < player_sprintTime - player_sprintMinTime

FrameDecides(forward, low, air, msec) ==
    /\ player_sprintTime > 0
    /\ sprintRequestPending /\ forward /\ ~low /\ ~air
    /\ sprintTimer' = Recovered(msec)
    /\ sprintActive' = EnoughLeft(Recovered(msec))
    /\ sprintRequestPending' = FALSE
    /\ UNCHANGED cvars

(* Mutant: a sprint cut short by the stance is not counted. *)
FrameSprintsUncounted(forward, low, msec) ==
    /\ player_sprintTime > 0
    /\ ~sprintRequestPending /\ sprintActive
    /\ sprintTimer' = IF forward /\ ~low THEN sprintTimer + msec ELSE sprintTimer
    /\ sprintActive' = (forward /\ ~low /\ sprintTimer' <= player_sprintTime)
    /\ UNCHANGED <<sprintRequestPending, cvars>>

FrameSprints(forward, low, msec) ==
    /\ player_sprintTime > 0
    /\ ~sprintRequestPending /\ sprintActive
    /\ sprintTimer' = sprintTimer + msec
    /\ sprintActive' = (forward /\ ~low /\ sprintTimer + msec <= player_sprintTime)
    /\ UNCHANGED <<sprintRequestPending, cvars>>

FrameRests(msec) ==
    /\ player_sprintTime > 0
    /\ ~sprintRequestPending /\ ~sprintActive
    /\ sprintTimer' = Recovered(msec)
    /\ UNCHANGED <<sprintActive, sprintRequestPending, cvars>>

PM_UpdateSprint(forward, low, air, msec) ==
    \/ FrameSwitchedOff
    \/ FrameTakesBack(forward)
    \/ FrameWaitsToStand(forward, low)
    \/ FrameWaitsToLand(forward, low, air, msec)
    \/ FrameDecides(forward, low, air, msec)
    \/ FrameSprints(forward, low, msec)
    \/ FrameRests(msec)

(* The administrator changes a cvar. *)
SetCvar == /\ player_sprint' \in BOOLEAN
           /\ player_sprintTime' \in SprintTimes
           /\ player_sprintMinTime' \in MinTimes
           /\ UNCHANGED state

SprintNext == \/ Spawn \/ Command \/ CommandRefused \/ SetCvar
              \/ \E forward, low, air \in BOOLEAN, msec \in Msecs :
                     PM_UpdateSprint(forward, low, air, msec)

SprintSpec == SprintInit /\ [][SprintNext]_sprintVars

=============================================================================
