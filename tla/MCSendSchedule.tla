--------------------------- MODULE MCSendSchedule ---------------------------
(* Instance of SendSchedule: packets of four bytes, a header of two, and   *)
(* messages of up to three packets.                                        *)
EXTENDS SendSchedule

(* At rate 14 the pauses lose more than the header covers. *)
MCRates == {3, 14}
MCMaxRates == {0, 1}
MCMsecs == {2}
MCSizes == {1, 4, 9}
MCFrameMsecs == {1, 3}
=============================================================================
