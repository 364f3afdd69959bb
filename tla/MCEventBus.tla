----------------------------- MODULE MCEventBus -----------------------------
(* Agent 1 is seeded as a PM, agent 2 as a worker, agent 3 registers itself. *)
EXTENDS EventBus, TLC

CONSTANTS c1, c2, c3

Roster == [a \in Agents |-> CASE a = 1 -> "pm" [] a = 2 -> "worker" [] OTHER -> "none"]

(* Calls differ in nothing but their ids. *)
Symmetry == Permutations(Calls)
=============================================================================
