---------------------------- MODULE MCPrimeChart ----------------------------
(***************************************************************************)
(* Small instances of PrimeChart: every chart of four minterms and four    *)
(* implicants of one to three minterms, one of them the pair 0, 1.         *)
(***************************************************************************)
EXTENDS PrimeChart

CONSTANTS p1, p2, p3, p4

MCImplicant == {p1, p2, p3, p4}

MCCharts ==
  {chart \in [numOfMinterms : {4}, mintermIDs : [MCImplicant -> SUBSET (0 .. 3)]] :
     /\ chart.mintermIDs[p1] = {0, 1}
     /\ \A p \in MCImplicant : Cardinality(chart.mintermIDs[p]) \in 1 .. 3
     /\ \A i \in 0 .. 3 : \E p \in MCImplicant : i \in chart.mintermIDs[p]}
=============================================================================
