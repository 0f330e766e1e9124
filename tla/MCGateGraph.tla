----------------------------- MODULE MCGateGraph -----------------------------
(***************************************************************************)
(* Four gates in at most four levels; addresses are interchangeable.       *)
(***************************************************************************)
EXTENDS GateGraph, TLC

Addresses == Permutations(Gate) \cup Permutations(Link)
=============================================================================
