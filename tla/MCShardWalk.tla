----------------------------- MODULE MCShardWalk -----------------------------
(* The instance of ShardWalk: an order that the subshards do not divide. *)
EXTENDS ShardWalk
=============================================================================
