---------------------------- MODULE MCFederation ----------------------------
(* Two pools for TLC: north is the home of ann, south of bob, and every     *)
(* pool seeds ann.                                                          *)
EXTENDS Federation

CONSTANTS north, south, ann, bob

HomeOf == [a \in Agents |-> IF a = bob THEN south ELSE north]

(* Nobody in HOT_POTATO_PEERS ... *)
NoEnv == [p \in Pools |-> [q \in Pools |-> {}]]

(* ... or a ring: each pool expects bob at the other. *)
Ring == [p \in Pools |-> [q \in Pools |-> IF p = q THEN {} ELSE {bob}]]
=============================================================================
