-------------------------- MODULE MCClientMessage --------------------------
(* Instance of ClientMessage, for its constants see the cfg. *)
EXTENDS ClientMessage
=============================================================================
