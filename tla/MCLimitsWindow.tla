--------------------------- MODULE MCLimitsWindow ---------------------------
(* An instance of LimitsWindow: more addresses than slots, all on one hash *)
(* chain, and every handler.                                               *)
EXTENDS LimitsWindow, TLC

CONSTANTS a1, a2, a3

MCAddress == {a1, a2, a3}
MCSymmetry == Permutations({a2, a3})
MCHash == [a \in MCAddress |-> 0]
MCStartTimes == {0, 1}
MCStep == {2}
MCHandlers == {"getchallenge", "connect", "ipAuthorize", "getinfo", "getstatus", "rcon"}
=============================================================================
