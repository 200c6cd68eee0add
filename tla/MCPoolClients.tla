---------------------------- MODULE MCPoolClients ----------------------------
(* Two clients sharing a pool of two blocks. *)
EXTENDS PoolClients, TLC

ClientSymmetry == Permutations(Clients)
==============================================================================
