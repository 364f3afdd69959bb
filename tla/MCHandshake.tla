---------------------------- MODULE MCHandshake ----------------------------
(* The pools of MCFederation, about to shake hands. *)
EXTENDS Handshake, MCFederation, TLC

CONSTANTS j1, j2

Symmetry == Permutations(Joins)
=============================================================================
