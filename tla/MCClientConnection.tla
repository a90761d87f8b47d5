------------------------- MODULE MCClientConnection -------------------------
(***************************************************************************)
(* Instance of ClientConnection: the constants are plain sets of the cfg.   *)
(***************************************************************************)
EXTENDS ClientConnection

=============================================================================
