----------------------- MODULE MCConnectionlessLimits -----------------------
(* An instance of ConnectionlessLimits: one address more than there are    *)
(* slots, and all but one of them on the same hash chain, so that slots    *)
(* are reclaimed from the head, the middle and the end of a chain.  States *)
(* are told apart by the clock and the table: neither the shared buckets   *)
(* nor the verdict have an effect on what becomes of the table.            *)
EXTENDS ConnectionlessLimits, TLC

CONSTANTS a1, a2, a3, a4

MCAddress == {a1, a2, a3, a4}
MCSymmetry == Permutations({a1, a2, a4})
MCHash == [a \in MCAddress |-> IF a = a3 THEN 0 ELSE 1]
MCStartTimes == {0, 1}
MCStep == {2}
MCView == <<now, table>>
MCHandlers == {"getchallenge", "connect", "ipAuthorize", "getinfo", "getstatus", "rcon"}
=============================================================================
