--------------------------- MODULE LetterPromise ---------------------------
(***************************************************************************)
(* What the bus promises about a letter, whatever runs inside it: it waits *)
(* until it is handed over or declared dead, it is handed over only once   *)
(* the receiver has it (or an A2A peer was given it and kept silent), and  *)
(* it never comes back from there; until somebody deletes it, it is kept.  *)
(***************************************************************************)
CONSTANT Letters

VARIABLES stage,   \* where each letter stands
          known    \* letters whose receiver has, or is taken to have, a copy

vars == <<stage, known>>

Stage == {"none", "waiting", "handed", "done", "dead", "gone"}

Init == /\ stage = [l \in Letters |-> "none"]
        /\ known = {}

Become(S, from, to) ==
  /\ \A l \in S : stage[l] \in from
  /\ stage' = [l \in Letters |-> IF l \in S THEN to ELSE stage[l]]

(* A sender drops a letter. *)
Post(l) == Become({l}, {"none"}, "waiting") /\ UNCHANGED known

(* A copy gets out to the receiver, possibly of a letter already handed     *)
(* over, dead or deleted.                                                   *)
Reach(l) == stage[l] # "none" /\ known' = known \cup {l} /\ UNCHANGED stage

(* The bus notes that a letter got there. *)
Confirm(l) == l \in known /\ Become({l}, {"waiting"}, "handed") /\ UNCHANGED known

(* The receiver fetches letters itself. *)
Fetch(S) == Become(S, {"waiting"}, "handed") /\ known' = known \cup S

(* The receiver files its result. *)
Complete(l) == Become({l}, {"handed"}, "done") /\ UNCHANGED known

(* The bus gives up. *)
Bury(l) == Become({l}, {"waiting"}, "dead") /\ UNCHANGED known

Discard(S) == Become(S, Stage \ {"none", "gone"}, "gone") /\ UNCHANGED known

Next ==
  \/ \E l \in Letters : Post(l) \/ Reach(l) \/ Confirm(l) \/ Complete(l) \/ Bury(l)
  \/ \E S \in SUBSET Letters : Fetch(S) \/ Discard(S)

Spec == Init /\ [][Next]_vars
=============================================================================
