------------------------------ MODULE RetryWindow ------------------------------
(***************************************************************************)
(* The backoff of the sweeper, in whole seconds: a queued letter is passed  *)
(* over while its age is below retry_window(age).                           *)
(***************************************************************************)
EXTENDS Integers, TLAPS

(* 1 << attempts, with attempts capped at 5. *)
Windows == {1, 2, 4, 8, 16, 32}

(* (age / step).ilog2().min(5), or 0 for an age below one step: the largest *)
(* window that goes into the age.                                           *)
IsBackoff(w, age, step) ==
  /\ w \in Windows
  /\ w = 1 \/ w <= age \div step
  /\ \A v \in Windows : v <= age \div step => v <= w

RetryWindow(age, step) ==
  step * (CHOOSE w \in Windows : IsBackoff(w, age, step))

(* The gate of sweep_once. *)
PassedOver(age, step) == age < RetryWindow(age, step)
-----------------------------------------------------------------------------
LEMMA BackoffExists ==
  ASSUME NEW age \in Nat, NEW step \in Nat \ {0}
  PROVE  \E w \in Windows : IsBackoff(w, age, step)
<1> DEFINE q == age \div step
<1>1. q \in Int
  OBVIOUS
<1>2. \E w \in Windows : /\ w = 1 \/ w <= q
                         /\ \A v \in Windows : v <= q => v <= w
  <2> HIDE DEF q
  <2>1. CASE q < 2   BY <1>1, <2>1 DEF Windows
  <2>2. CASE 2 <= q /\ q < 4   BY <1>1, <2>2 DEF Windows
  <2>3. CASE 4 <= q /\ q < 8   BY <1>1, <2>3 DEF Windows
  <2>4. CASE 8 <= q /\ q < 16   BY <1>1, <2>4 DEF Windows
  <2>5. CASE 16 <= q /\ q < 32   BY <1>1, <2>5 DEF Windows
  <2>6. CASE 32 <= q   BY <1>1, <2>6 DEF Windows
  <2> QED BY <1>1, <2>1, <2>2, <2>3, <2>4, <2>5, <2>6
<1> QED BY <1>2 DEF IsBackoff

(* Floor division, as far as it is needed here.                             *)
LEMMA Goes ==
  ASSUME NEW age \in Nat, NEW step \in Nat \ {0}, NEW w \in Nat,
         w <= age \div step
  PROVE  step * w <= age
<1>1. /\ age \div step \in Int /\ step * (age \div step) <= age
  OBVIOUS
<1>2. step * w <= step * (age \div step)
  BY <1>1
<1> QED BY <1>1, <1>2

(* The backoff never backs off: a letter is passed over in its first        *)
(* min_backoff and at no later sweep, whatever its age.                     *)
THEOREM GateOpensOnce ==
  ASSUME NEW age \in Nat, NEW step \in Nat \ {0}
  PROVE  PassedOver(age, step) <=> age < step
<1> DEFINE w == CHOOSE v \in Windows : IsBackoff(v, age, step)
<1>1. w \in Windows /\ IsBackoff(w, age, step)
  BY BackoffExists
<1>2. RetryWindow(age, step) = step * w
  BY DEF RetryWindow
<1> HIDE DEF w
<1>3. w \in Nat /\ w >= 1
  BY <1>1 DEF Windows
<1>4. CASE w = 1
  BY <1>2, <1>4 DEF PassedOver
<1>5. CASE w # 1
  <2>1. step * w <= age
    BY <1>1, <1>3, <1>5, Goes DEF IsBackoff
  <2>2. step <= step * w
    BY <1>3
  <2> QED BY <1>2, <1>3, <2>1, <2>2 DEF PassedOver
<1> QED BY <1>4, <1>5
=============================================================================
