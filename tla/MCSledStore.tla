---------------------------- MODULE MCSledStore ----------------------------
(* Small instances of SledStore for TLC. *)
EXTENDS SledStore, TLC

CONSTANTS alice, bob, c1, c2, c3

Symmetry == Permutations(Callers)
=============================================================================
