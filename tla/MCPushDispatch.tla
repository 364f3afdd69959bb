-------------------------- MODULE MCPushDispatch --------------------------
(* Small instances of PushDispatch for TLC. *)
EXTENDS PushDispatch, TLC

CONSTANTS alice, bob, t1, t2

Symmetry == Permutations(Spawned)
=============================================================================
