----------------------------- MODULE MCDownload -----------------------------
(* Instance of Download: a file of a few blocks, a window smaller than the *)
(* file, so that its buffers are reused; read in single bytes it has one   *)
(* block more than there are numbers for.                                  *)
EXTENDS Download

MCFiles == {"served", "iwd", "missing", "empty"}
=============================================================================
