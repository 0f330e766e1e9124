-------------------------- MODULE CircuitComparison --------------------------
(***************************************************************************)
(* Circuit::operator==: two circuits are compared by setting the inputs of *)
(* both, as the bits of a counter, and asking both outputs.  getValue of a *)
(* gate keeps its value under the flag MARKED and asks its second input    *)
(* only when the first does not decide, so that an evaluation marks a part *)
(* of the network, and getOutputValue takes these marks away again.        *)
(* CheckedCircuit calls it.                                                *)
(***************************************************************************)
EXTENDS GateHeap

Side == {"this", "other"}

VARIABLES
  heap,      \* the gates of each circuit
  output,    \* Circuit::output of each
  on,        \* the inputs of each that are true
  cache,     \* of each, the gates flagged MARKED and those whose value is true
  index,     \* currentIndex: an offset
  result     \* "none" before the call, "called", "same" so far, TRUE or FALSE

compareVars == <<heap, output, on, cache, index, result>>

-----------------------------------------------------------------------------
(* Evaluation.                                                             *)

Marks(h) == [marked : SUBSET Live(h), value : SUBSET Live(h)]
Unmarked == [marked |-> {}, value |-> {}]

ValueOf(h, true, m, g) ==         \* what getValue returns for a known gate
  CASE h.kind[g] = "INPUT" -> h.id[g] \in true
    [] h.kind[g] \in {"TRUE", "FALSE"} -> h.kind[g] = "TRUE"
    [] OTHER -> g \in m.value

Store(m, g, value) ==
  [marked |-> m.marked \cup {g}, value |-> IF value THEN m.value \cup {g} ELSE m.value \ {g}]

\* Does the value of the first input leave the second to decide?
Undecided(kind, first) == (kind = "AND" /\ first) \/ (kind = "OR" /\ ~first)

Evaluate(h, true) ==              \* what getValue of each gate does to the marks
  LET eval[g \in Live(h)] == [m \in Marks(h) |->
        LET one == eval[h.in[g][1]][m]
            first == ValueOf(h, true, one, h.in[g][1])
            two == eval[h.in[g][2]][one]
        IN  IF Arity(h.kind[g]) = 0 \/ g \in m.marked THEN m
            ELSE IF h.kind[g] = "NOT" THEN Store(one, g, ~first)
            ELSE IF Undecided(h.kind[g], first)
            THEN Store(two, g, ValueOf(h, true, two, h.in[g][2]))
            ELSE Store(one, g, first)]
  IN  eval

\* What resetFlagRecursive comes to from g: it goes on at marked gates.
Through(h, m, g) ==
  {x \in m.marked :
     \A S \in SUBSET m.marked :
       (\A y \in S \cup {g} : Children(h, y) \cap m.marked \subseteq S) => x \in S}

ResetFlagRecursive(h, m, g) == [m EXCEPT !.marked = @ \ (Through(h, m, g) \cup {g})]

\* getOutputValue of both circuits, with inputs in, and what follows.
Test(in) ==
  LET marked == [s \in Side |-> Evaluate(heap[s], in[s])[output[s]][cache[s]]]
      value == [s \in Side |-> ValueOf(heap[s], in[s], marked[s], output[s])]
  IN  /\ on' = in
      /\ cache' = [s \in Side |-> ResetFlagRecursive(heap[s], marked[s], output[s])]
      /\ result' = IF value["this"] # value["other"] THEN "FALSE" ELSE "same"

-----------------------------------------------------------------------------
(* The comparison.                                                         *)

CompareInit ==
  /\ heap = [s \in Side |-> InputsOnly]
  /\ output = [s \in Side |-> 1]
  /\ on = [s \in Side |-> {}]
  /\ cache = [s \in Side |-> Unmarked]
  /\ index = 0
  /\ result = "none"

\* this == other, both with output out, when inputs before of this are true.
Call(this, other, out, before) ==
  /\ result = "none"
  /\ heap' = [s \in Side |-> IF s = "this" THEN this ELSE other]
  /\ output' = [s \in Side |-> out]
  /\ on' = [on EXCEPT !["this"] = before]
  /\ result' = "called"
  /\ UNCHANGED <<cache, index>>

Start ==
  /\ result = "called"
  /\ Test([s \in Side |-> {}])
  /\ UNCHANGED <<heap, output, index>>

bit == index + 1      \* the input at the index
Counting == result = "same" /\ index < NumOfInputs

Carry ==
  /\ Counting
  /\ bit \in on["this"]
  /\ on' = [s \in Side |-> on[s] \ {bit}]
  /\ index' = index + 1
  /\ UNCHANGED <<heap, output, cache, result>>

\* Mutant: counting goes on where the carry stopped.
WhereItStopped == index
Lowest == 0

Advance ==
  /\ Counting
  /\ bit \notin on["this"]
  /\ Test([s \in Side |-> on[s] \cup {bit}])
  /\ index' = Lowest
  /\ UNCHANGED <<heap, output>>

EndCompare ==
  /\ result = "same"
  /\ index = NumOfInputs
  /\ result' = "TRUE"
  /\ UNCHANGED <<heap, output, on, cache, index>>

Compare == Start \/ Carry \/ Advance \/ EndCompare

-----------------------------------------------------------------------------
(* Properties.                                                             *)

Same == Table(heap["this"], output["this"]) = Table(heap["other"], output["other"])

\* The answer is whether the two compute the same function: the counter
\* skips no assignment, and no value that an evaluation left marked is one
\* of another assignment.
ResultExact ==
  /\ result = "TRUE" => Same
  /\ result = "FALSE" => ~Same

-----------------------------------------------------------------------------
(* Why the comparison is exact: an inductive invariant.                    *)

\* The number that the inputs b stand for is the same or greater.
NotAfter(a, b) ==
  a = b \/ \E k \in b \ a : \A j \in InputGate : j > k => (j \in a <=> j \in b)

\* The last number tested: a carry has cleared the inputs below the index.
LastTested == on["this"] \cup 1 .. index

Agree(a) == a \in Table(heap["this"], output["this"])
             <=> a \in Table(heap["other"], output["other"])

CompareInv ==
  /\ result \in {"none", "called", "same", "TRUE", "FALSE"}
  /\ on \in [Side -> Valuation]
  /\ index \in 0 .. NumOfInputs
  /\ result # "none" => \A s \in Side : Layered(heap[s]) /\ output[s] \in Live(heap[s])
  /\ \A s \in Side : cache[s] \in Marks(heap[s]) /\ cache[s].marked = {}
  /\ result \in {"none", "called"} => index = 0 /\ cache = [s \in Side |-> Unmarked]
  /\ result \in {"same", "TRUE"} =>
       /\ on["this"] = on["other"] /\ on["this"] \cap 1 .. index = {}
       /\ \A a \in Valuation : NotAfter(a, LastTested) => Agree(a)
  /\ result = "TRUE" => index = NumOfInputs
  /\ result = "FALSE" => ~Agree(on["this"])
=============================================================================
