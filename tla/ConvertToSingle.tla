-------------------------- MODULE ConvertToSingle --------------------------
(***************************************************************************)
(* CircuitWithoutNotGate::convertToSingleOptimized as a whole: the phase   *)
(* of PairExtraction for the MultiAnd gates, a copy of the network in      *)
(* which every one-input multi-gate gives way to its input (getSingleTwin),*)
(* the same phase for the MultiOr gates, and a second copy.                *)
(*                                                                         *)
(* The network is the one getMultiTwin builds from a two-input circuit:    *)
(* its input lists are in the address order of the old gates, MultiAnd and *)
(* MultiOr alternate, and the output reaches every gate.  A copy of a gate *)
(* keeps the name of its original, which dies with the old output.         *)
(***************************************************************************)
EXTENDS PairExtraction, FiniteSetsExt

VARIABLES
  output,     \* the gate Circuit::output points to
  goal        \* history: the function the circuit computed at the start

convertVars == <<vars, output, goal>>

\* A circuit: the output is a gate, and no gates use each other in a circle.
IsCircuit(net) ==
  /\ net.output \in DOMAIN net.table
  /\ \A S \in (SUBSET DOMAIN net.table) \ {{}} : \E x \in S :
       x \in MultiGate => DOMAIN net.inputIndex[x] \cap S = {}

ASSUME CircuitAssumption == \A net \in Network : IsCircuit(net)

-----------------------------------------------------------------------------
\* A multi-gate with one input gives way to it.
Skipped(x) == x \in DOMAIN inputIndex /\ \E y \in Inputs(x) : Inputs(x) = {y}
TheInput(g) == CHOOSE y \in Inputs(g) : TRUE

\* getSingleTwin: multi-gates with one input are skipped, however deep.
singleTwin[x \in DOMAIN table] == IF Skipped(x) THEN singleTwin[TheInput(x)] ELSE x
SingleTwin(x) == singleTwin[x]

\* Mutant: a twin that several inputs share is left out altogether.
TwinInputsOnce(g) ==
  [t \in {SingleTwin(x) : x \in {y \in Inputs(g) :
             \A z \in Inputs(g) \ {y} : SingleTwin(z) # SingleTwin(y)}} |->
     Min({inputIndex[g][x] : x \in {y \in Inputs(g) : SingleTwin(y) = t}})]

\* The twin's input list: addInput leaves out a twin that is in the list.
TwinInputs(g) ==
  [t \in {SingleTwin(x) : x \in Inputs(g)} |->
     Min({inputIndex[g][x] : x \in {y \in Inputs(g) : SingleTwin(y) = t}})]

ConvertInit ==
  /\ phase = "MULTI_AND"
  /\ \E net \in Network : /\ StartFrom(net)
                          /\ output = net.output
                          /\ goal = net.table[net.output]

\* output = output->getSingleTwin(); occurrences.clear();
TakeSingleTwin ==
  /\ pc = "done"
  /\ inputIndex' =
       [g \in {h \in DOMAIN inputIndex : ~Skipped(h)} |-> TwinInputs(g)]
  /\ table' = [x \in {y \in DOMAIN table : ~Skipped(y)} |-> table[x]]
  /\ made' = [n \in DOMAIN made |->
                [made[n] EXCEPT !.pair = <<SingleTwin(@[1]), SingleTwin(@[2])>>]]
  /\ output' = SingleTwin(output)
  /\ occurrences' = << >>
  /\ IF phase = "MULTI_AND"
       THEN phase' = "MULTI_OR" /\ pc' = "collect"
       ELSE phase' = phase /\ pc' = "returned"
  /\ UNCHANGED <<place, ordered, highest, newGate, pending, newElements,
                 goal>>

Returned == pc = "returned" /\ UNCHANGED convertVars

ConvertStep == \/ PhaseStep /\ UNCHANGED <<output, goal>>
               \/ TakeSingleTwin

ConvertNext == ConvertStep \/ Returned

ConvertSpec ==
  ConvertInit /\ [][ConvertNext]_convertVars /\ WF_convertVars(ConvertStep)

-----------------------------------------------------------------------------
\* The network: the gates with inputs, their types and their inputs.
Operator == DOMAIN inputIndex \cup DOMAIN made
TypeOf(x) == IF x \in DOMAIN made THEN made[x].type ELSE Kind[x]
Operands(x) == IF x \in DOMAIN inputIndex THEN Inputs(x)
               ELSE IF x \in DOMAIN made THEN {made[x].pair[1], made[x].pair[2]}
               ELSE {}

\* What a gate computes, read off the network below it.
computes[x \in DOMAIN table] ==
  IF x \in Operator THEN Combine(TypeOf(x), {computes[y] : y \in Operands(x)}) ELSE table[x]

below[x \in DOMAIN table] == {x} \cup UNION {below[y] : y \in Operands(x)}

\* Circuit::getSize: a multi-gate counts as the two-input gates it stands for.
SizeOf(x) == IF x \in DOMAIN inputIndex THEN Cardinality(Inputs(x)) - 1 ELSE 1
CircuitSize == MapThenSumSet(SizeOf, below[output])

-----------------------------------------------------------------------------
\* The circuit computes what it computed, after every single step: also with
\* some multi-gates of a pair's list rewritten and others not, and when two
\* inputs of a multi-gate turn out to have the same twin.  (The driver's
\* check that an optimised circuit equals the original, main.cpp:78.)
OutputPreserved == computes[output] = goal

\* The inductive invariant behind it.  Its conjuncts: no gates use each other
\* in a circle, in whatever set one looks for it;
Grounded ==
  \A S \in SUBSET DOMAIN table : S # {} => \E x \in S : Operands(x) \cap S = {}

\* a new two-input gate computes what its inputs give it, as SameFunction says
\* of the multi-gates, and the latest one has the pair being replaced;
MadeCompute ==
  /\ \A n \in DOMAIN made :
       table[n] = Combine(made[n].type, {table[y] : y \in Operands(n)})
  /\ pc = "replace" => made[newGate].pair = highest

\* the output is a gate that computes the circuit's function;
OutputKept == output \in DOMAIN table /\ table[output] = goal

\* and multi-gates of a type are gone when its phase is over.
PhasesOver == /\ phase = "MULTI_OR" => OfPhase = DOMAIN inputIndex
              /\ pc = "returned" => DOMAIN inputIndex = {}

ConvertInv == Inv /\ Grounded /\ MadeCompute /\ OutputKept /\ PhasesOver

\* No step makes the circuit larger than getSize estimated it before: the
\* new gate replaces an input of every multi-gate in its list.
SizeNeverGrows == [][CircuitSize' <= CircuitSize]_convertVars

\* The conversion returns, and then no multi-gate is left: every later pass
\* casts AND and OR gates to two-input gates.
ReturnsTwoInputCircuit == <>(pc = "returned" /\ DOMAIN inputIndex = {})

\* MultiGate.cpp:62: the input lists are sorted while the pairs are recorded,
\* so the reverse of a recorded pair never occurs as a key.
NoReversedKey ==
  \A k \in DOMAIN occurrences : <<k[2], k[1]>> \notin DOMAIN occurrences
=============================================================================
