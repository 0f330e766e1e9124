--------------------------- MODULE MCReorderGates ---------------------------
(***************************************************************************)
(* Circuits of three inputs and four ANDs and ORs, of which the third uses *)
(* the second and the fourth the third; and two ANDs, two ORs above them   *)
(* and an AND above these.  Two orders of addresses.                       *)
(***************************************************************************)
EXTENDS ReorderGates

MCGate == {<<k, g>> : k \in {"INPUT"}, g \in 1 .. 3} \cup {<<k, g>> : k \in MultiType, g \in 4 .. 8}
MCKind == [t \in MCGate |-> t[1]]
MCAssignment == SUBSET (1 .. 3)
MCAddresses == {[g \in 1 .. 8 |-> g], [g \in 1 .. 8 |-> 9 - g]}

Uses(g) == {<<k, p[1], p[2]>> : k \in {"AND", "OR"},
                                p \in {x \in (1 .. g - 1) \X (1 .. g - 1) : x[1] < x[2]}}
Chain(g) == {u \in Uses(g) : u[3] = g - 1}
Chains ==
  {<< <<"AND", 1, 2>>, x, y, z>> : x \in Uses(5), y \in Chain(6), z \in Chain(7)}
Layers ==
  {<< <<"AND", 1, 2>>, x, <<"OR", 4, y>>, <<"OR", z, 5>>, <<"AND", 6, 7>> >> :
     x \in {<<"AND", 1, 2>>, <<"AND", 2, 3>>, <<"AND", 3, 4>>},
     y \in {1, 3, 5}, z \in {1, 3, 4, 6}}
MCCircuits == Chains \cup Layers
MCNetwork == MultiTwins
=============================================================================
