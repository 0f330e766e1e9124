---------------------------- MODULE PairSharing ----------------------------
(***************************************************************************)
(* What one phase of convertToSingleOptimized promises, without lists,     *)
(* sort keys and lazy repairs: as long as a multi-gate has two inputs, a   *)
(* pair is chosen, a two-input gate is made for it, and at once takes the  *)
(* place of the pair in several multi-gates that have it.                  *)
(*                                                                         *)
(* The choice is greedy up to a factor of two: no pair is in more than     *)
(* twice as many multi-gates as the step serves.  The factor is what the   *)
(* code achieves when a pair is recorded in both directions, each list     *)
(* holding a part of the multi-gates (see NoReversedKey).                  *)
(***************************************************************************)
EXTENDS Naturals, FiniteSets

CONSTANTS Gate, NewGate

VARIABLES
  inputs,   \* multi-gate -> the set of its inputs
  used      \* the two-input gates made so far

sharingVars == <<inputs, used>>

\* The multi-gates that have both gates among their inputs.
Having(x, y) == {g \in DOMAIN inputs : x \in inputs[g] /\ y \in inputs[g]}

Init ==
  /\ DOMAIN inputs \subseteq Gate
  /\ inputs \in [DOMAIN inputs -> (SUBSET Gate) \ {{}}]
  /\ used = {}

\* The new gate n takes the place of x and y in the multi-gates served.
Share(x, y, served, n) ==
  /\ served # {}
  /\ \A g \in DOMAIN inputs : \A v, w \in inputs[g] :
       v # w => Cardinality(Having(v, w)) <= 2 * Cardinality(served)
  /\ inputs' = [g \in DOMAIN inputs |->
                  IF g \in served THEN (inputs[g] \ {x, y}) \cup {n} ELSE inputs[g]]

Next ==
  \E n \in NewGate \ used :
    /\ used' = used \cup {n}
    /\ \E g \in DOMAIN inputs : \E x \in inputs[g] : \E y \in inputs[g] \ {x} :
         \E served \in SUBSET Having(x, y) : Share(x, y, served, n)

SafeSpec == Init /\ [][Next]_sharingVars

Spec == SafeSpec /\ WF_sharingVars(Next)
=============================================================================
