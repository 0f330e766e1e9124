---------------------------- MODULE MCCircuitCopy ----------------------------
(***************************************************************************)
(* Circuits over two inputs whose output reaches every gate and input: of  *)
(* three gates, and of four with a NOT gate above an operator.             *)
(***************************************************************************)
EXTENDS CircuitCopy

Ops(g) ==
  {<<"NOT", i>> : i \in 1 .. g - 1}
    \cup {<<k, i, j>> : k \in {"AND", "OR"}, i \in 1 .. g - 1, j \in {1, g - 1}}

Reached(net) == \A g \in 1 .. Len(net) + 1 : \E n \in DOMAIN net : g \in Range(Tail(net[n]))

Small == {net \in {<<x, y, z>> : x \in Ops(3), y \in Ops(4), z \in Ops(5)} : Reached(net)}
Tall ==
  {net \in {<< <<k, 1, 2>>, <<"NOT", 3>>, y, z>> :
              k \in {"AND", "OR"}, y \in Ops(5), z \in Ops(6)} : Reached(net)}
MCCircuits == Small \cup Tall
=============================================================================
