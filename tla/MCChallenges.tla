---------------------------- MODULE MCChallenges ----------------------------
(* An instance of Challenges: one address more than the table has slots,   *)
(* one of them in the local network, and replies limited enough for a      *)
(* challenge to outlive the timeout of the authorize server.               *)
EXTENDS Challenges, TLC

CONSTANTS a1, a2, a3, a4, v1, v2

MCNetAddress == {a1, a2, a3, a4}
MCValue == {v1, v2}
MCLan == {a4}
MCStartTimes == {1}
MCSteps == {}
MCSymmetry == Permutations({a1, a2, a3}) \cup Permutations(MCValue)
=============================================================================
