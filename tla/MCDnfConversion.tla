--------------------------- MODULE MCDnfConversion ---------------------------
(***************************************************************************)
(* Circuits over three inputs with NOT gates at two of them (4 and 5) and  *)
(* three two-input gates, the output being the last.                       *)
(***************************************************************************)
EXTENDS DnfConversion

Pairs(g) == {p \in (1 .. g - 1) \X (1 .. g - 1) : p[1] # p[2]}
Gates(low, p, q, r) ==
  {<< low[1], low[2], <<a, p[1], p[2]>>, <<b, q[1], q[2]>>, <<c, r[1], r[2]>> >> :
     a \in {"AND", "OR"}, b \in {"AND", "OR"}, c \in {"AND", "OR"}}
Uses(pair, g) == g \in Range(pair)
Networks(low, firsts) ==
  UNION {Gates(low, p, q, r) :
           p \in firsts,
           q \in {x \in Pairs(7) : x[1] < x[2]},
           r \in {x \in Pairs(8) : Uses(x, 7) /\ x[2] \in {5, 6, 7}}}

ConvertedCircuits ==
  {net \in Networks(<< <<"NOT", 1>>, <<"NOT", 2>> >>, {x \in Pairs(6) : x[1] < x[2]}) :
     Uses(Tail(net[4]), 6) \/ Uses(Tail(net[5]), 6)}
=============================================================================
