-------------------------- MODULE MCQuineMcCluskey --------------------------
(***************************************************************************)
(* A small instance of QuineMcCluskey: two clauses of two literals each,   *)
(* over three variables, and a third clause that is of two or three        *)
(* literals, empty, or contradictory; and the circuit with no clause.      *)
(* The clauses overlap and repeat; not x and not y, y and not z, x and z   *)
(* have a cyclic chart, with no essential prime.                           *)
(***************************************************************************)
EXTENDS QuineMcCluskey

CONSTANTS x, y, z

MCVariable == {x, y, z}
MCImplicant == [MCVariable -> Value]

TwoLiterals == {c \in SUBSET Literal : Cardinality(c) = 2 /\ Valid(c)}
ThirdClauses ==
  {{<<x, "TRUE">>, <<z, "TRUE">>},
   {<<x, "TRUE">>, <<y, "FALSE">>, <<z, "TRUE">>},
   {<<y, "TRUE">>, <<y, "FALSE">>, <<z, "TRUE">>},
   {}}

MCDnfs ==
  {<<>>} \cup {<<a, b, c>> : a \in TwoLiterals, b \in TwoLiterals, c \in ThirdClauses}
=============================================================================
