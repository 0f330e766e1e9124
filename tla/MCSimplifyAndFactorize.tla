----------------------- MODULE MCSimplifyAndFactorize -----------------------
(***************************************************************************)
(* Circuits over three inputs.  Gate 4 is an AND or a NOT gate, 5 uses it  *)
(* and input 3, 6 and 7 are ORs over what is below them, 8 is the AND of 6 *)
(* and 7, to be factorised.  On top is nothing or an OR with an input; or  *)
(* 8 has two parents; or 6 has another parent than 8.                      *)
(***************************************************************************)
EXTENDS SimplifyAndFactorize

Pairs(g) == {p \in (1 .. g - 1) \X (1 .. g - 1) : p[1] < p[2]}

Used(net) ==
  \A g \in 4 .. Len(net) + 2 : \E n \in DOMAIN net : g \in Range(Tail(net[n]))

Bodies(low) ==
  {net \in {<<low, <<k, 3, 4>>, <<"OR", p[1], p[2]>>, <<"OR", q[1], q[2]>>, <<"AND", 6, 7>> >> :
               k \in {"AND", "OR"}, p \in Pairs(6), q \in Pairs(7)} : Used(net)}
Under(top, nets) == {net \o top : net \in nets}
DualOf(net) == [n \in DOMAIN net |-> <<Dual(net[n][1])>> \o Tail(net[n])]

SharingCircuits ==
  LET nets == Bodies(<<"AND", 1, 2>>) \cup Bodies(<<"NOT", 1>>)
  IN  UNION {nets, {DualOf(net) : net \in Bodies(<<"AND", 1, 2>>)},
             Under(<< <<"OR", 1, 8>> >>, nets),
             Under(<< <<"OR", 1, 8>>, <<"OR", 2, 8>>, <<"AND", 9, 10>> >>, Bodies(<<"NOT", 1>>)),
             Under(<< <<"AND", 3, 6>>, <<"OR", 8, 9>> >>, Bodies(<<"NOT", 1>>))}

\* A circuit that simplification leaves as it is: the operands of its
\* output share two factors, of which one is built from the other.
NestedFactors == { << <<"OR", 3, 1>>, <<"OR", 4, 2>>, <<"OR", 4, 5>>, <<"OR", 6, 6>>,
                      <<"OR", 7, 5>>, <<"OR", 5, 4>>, <<"AND", 8, 9>> >> }
=============================================================================
