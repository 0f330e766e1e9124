-------------------------- MODULE MCPairExtraction --------------------------
(***************************************************************************)
(* A small instance of PairExtraction: multi-gates over four inputs, their *)
(* input lists in ascending or descending order.                           *)
(***************************************************************************)
EXTENDS PairExtractionRefinement, TLC

CONSTANTS a, b, c, d, m1, m2, m3

MCGate == {a, b, c, d, m1, m2, m3}
Leaves == <<a, b, c, d>>
MCKind == [g \in MCGate |-> IF g \in {m1, m2, m3} THEN "MULTI_AND" ELSE "INPUT"]
MCAssignment == SUBSET {a, b, c, d}

\* An input list over the leaves with the given numbers, in one of two orders.
Lists(sizes, directions) ==
  {[x \in {Leaves[i] : i \in S} |->
      LET i == CHOOSE i \in S : Leaves[i] = x
      IN  IF dir = "up" THEN i ELSE 5 - i] :
     S \in {T \in SUBSET (1 .. 4) : Cardinality(T) \in sizes},
     dir \in directions}

LeafTable(x) == {s \in MCAssignment : x \in s}

\* One list is <<a, b, c>>, another is a pair of neighbours, the third has
\* three inputs in either order, so that a pair can be recorded in both
\* directions, or all four, so that a repaired list can be shorter than the
\* next one.
MCNetwork ==
  {[inputIndex |-> ix,
    table |-> [x \in MCGate |->
       IF x \in DOMAIN ix
         THEN Combine("MULTI_AND", {LeafTable(y) : y \in DOMAIN ix[x]})
         ELSE LeafTable(x)]] :
     ix \in {(m1 :> f @@ m2 :> g @@ m3 :> (a :> 1 @@ b :> 2 @@ c :> 3)) :
               f \in {l \in Lists({2}, {"up"}) : \A x, y \in DOMAIN l : l[x] - l[y] <= 1},
               g \in Lists({3}, {"up", "down"}) \cup Lists({4}, {"up"})}}
=============================================================================
