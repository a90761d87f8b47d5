---------------------------- MODULE MCShardStore ----------------------------
(***************************************************************************)
(* Instance of ShardStore: the constants are numbers and sets of the cfg.   *)
(***************************************************************************)
EXTENDS ShardStore

=============================================================================
