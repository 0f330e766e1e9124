------------------------- MODULE MCConvertToSingle -------------------------
(***************************************************************************)
(* A small instance of ConvertToSingle: three inputs a, b, c, two MultiAnd *)
(* gates p, q over them, two MultiOr gates u, v over inputs and p, q, and  *)
(* the output t, the MultiAnd of u, v.                                     *)
(***************************************************************************)
EXTENDS ConvertToSingle, TLC

CONSTANTS a, b, c, p, q, u, v, t

\* The gates in the order of their addresses.
ByAddress == <<a, b, p, c, q, u, v, t>>
MCGate == {a, b, c, p, q, u, v, t}
Address(x) == CHOOSE i \in 1 .. 8 : ByAddress[i] = x
MCKind == [g \in MCGate |-> IF g \in {p, q, t} THEN "MULTI_AND"
                            ELSE IF g \in {u, v} THEN "MULTI_OR" ELSE "INPUT"]
MCAssignment == SUBSET {a, b, c}

MCNet(pIn, qIn, uIn, vIn) ==
  LET inputs == p :> pIn @@ q :> qIn @@ u :> uIn @@ v :> vIn @@ t :> {u, v}
      leaf == [x \in {a, b, c} |-> {s \in MCAssignment : x \in s}]
      low == leaf @@ [g \in {p, q} |->
                        Combine("MULTI_AND", {leaf[x] : x \in inputs[g]})]
      middle == low @@ [g \in {u, v} |->
                          Combine("MULTI_OR", {low[x] : x \in inputs[g]})]
  IN  [inputIndex |-> [g \in DOMAIN inputs |-> [x \in inputs[g] |-> Address(x)]],
       table |-> middle @@ (t :> Combine("MULTI_AND", {middle[u], middle[v]})),
       output |-> t]

OrInputs == {S \in SUBSET {a, c, p, q} : Cardinality(S) \in 2 .. 3}

MCNetwork ==
  {MCNet(pIn, qIn, w[1], w[2]) :
     pIn \in {{a, b}, {a, b, c}}, qIn \in {{a, b}, {b, c}, {a, b, c}},
     w \in {y \in OrInputs \X OrInputs : {p, q} \subseteq y[1] \cup y[2]}}
=============================================================================
