--------------------------- MODULE MCSimplification ---------------------------
(***************************************************************************)
(* Circuits of three inputs and a NOT gate.  Chains: three ANDs and ORs,   *)
(* of which the second uses the first and the third the second: trees of   *)
(* one type, and inputs that occur again below them.  Shared: five ANDs    *)
(* and ORs; the output has a tree and a gate that may be used in the tree  *)
(* too, so that gates are separated.                                       *)
(***************************************************************************)
EXTENDS Simplification

Kinds == {"AND", "OR"}
Uses(g) == {<<k, p[1], p[2]>> : k \in Kinds,
                                p \in {x \in (1 .. g - 1) \X (1 .. g - 1) : x[1] < x[2]}}
Chain(g) == {u \in Uses(g) : u[3] = g - 1}
Chains == {<< <<"NOT", 1>>, x, y, z>> : x \in Uses(5), y \in Chain(6), z \in Chain(7)}

Shared ==
  {<< <<"NOT", 1>>, <<k[1], 2, x>>, <<k[2], 5, y>>, <<k[3], 4, z>>, <<k[4], 7, w>>, <<k[5], 8, 6>> >> :
     k \in [1 .. 5 -> Kinds], x \in {3, 4}, y \in {1, 2}, z \in {3, 6}, w \in {5, 6}}
Nets == Chains \cup Shared
=============================================================================
