----------------------------- MODULE MCBanList -----------------------------
(* Instance of BanList: two addresses, bans of one unit, two lines in the  *)
(* command buffer.  No command starts with -a: one that does may do only   *)
(* what one that does not may do as well.                                  *)
EXTENDS BanList, TLC

CONSTANTS i1, i2

MCIp == {i1, i2}
MCCounts == {1}
MCAdmin == {FALSE}
MCSymmetry == Permutations(MCIp)
=============================================================================
