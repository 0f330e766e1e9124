---------------------------- MODULE RandomCircuit ----------------------------
(***************************************************************************)
(* Circuit(numOfInputs, numOfGates, includeConstants): a random circuit.   *)
(* At first new gates take any elements as inputs; deadEnds are those that *)
(* no gate has taken.  When there are only as many gates left to make as   *)
(* are needed to bring the dead ends together, each dead end gets a random *)
(* number, and the two with the least numbers are joined until one is      *)
(* left, the output.                                                       *)
(*                                                                         *)
(* Abstraction.  The inputs of a gate are a set: nothing here depends on   *)
(* their order.  Equal numbers are ordered by address, that is in any way. *)
(***************************************************************************)
EXTENDS GateHeap

CONSTANTS
  NumOfGates,    \* an argument, as NumOfInputs
  Number         \* what rand() can return

ASSUME SizeAssumption == NumOfInputs \in Nat \ {0} /\ NumOfGates \in Nat
ASSUME NumberAssumption == Number \subseteq Nat /\ Number # {}

VARIABLES
  elements,   \* the gates, in the order they were made
  leaves,     \* how many of them are constants and inputs
  deadEnds,   \* the gates that no gate has as an input
  ordered,    \* randomOrdered: pairs of a number and a gate
  phase       \* "free" choice, "joining" of the dead ends, "done"

vars == <<elements, leaves, deadEnds, ordered, phase>>

Gate == DOMAIN elements
IsConstant(g) == elements[g].kind \in {"TRUE", "FALSE"}
Leaf(kind) == [kind |-> kind, ins |-> {}]
Constants == << Leaf("TRUE"), Leaf("FALSE") >>

Init ==
  \E constants \in {<<>>, Constants} :     \* includeConstants
    /\ leaves = Len(constants) + NumOfInputs
    /\ elements = constants \o [i \in 1 .. NumOfInputs |-> Leaf("INPUT")]
    /\ deadEnds = Len(constants) + 1 .. leaves
    /\ ordered = {}
    /\ phase = "free"

Put(kind, ins) == Append(elements, [kind |-> kind, ins |-> ins])

made == Len(elements) - leaves      \* the loop counter i

\* Mutant: the gate that is being made is not counted.
RoomForOneMore == NumOfGates + 1 >= made + Cardinality(deadEnds)
Room == NumOfGates >= made + Cardinality(deadEnds)

Choose ==
  /\ phase = "free"
  /\ Room
  /\ \E inp1, inp2 \in Gate, kind \in {"NOT", "AND", "OR"} :
       /\ kind = "NOT" => inp1 = inp2
       /\ elements' = Put(kind, {inp1, inp2})
       /\ deadEnds' = (deadEnds \ {inp1, inp2}) \cup {Len(elements')}
  /\ UNCHANGED <<leaves, ordered, phase>>

Order ==
  /\ phase = "free"
  /\ ~Room
  /\ \E rand \in [deadEnds -> Number] : ordered' = {<<rand[g], g>> : g \in deadEnds}
  /\ phase' = "joining"
  /\ UNCHANGED <<elements, leaves, deadEnds>>

Least(pairs) == {p \in pairs : \A q \in pairs : p[1] <= q[1]}

\* Mutant: the set is keyed by the number alone.
InsertByNumber(pairs, n, g) ==
  IF \E p \in pairs : p[1] = n THEN pairs ELSE pairs \cup {<<n, g>>}
Insert(pairs, n, g) == pairs \cup {<<n, g>>}

Join ==
  /\ phase = "joining"
  /\ \E p \in Least(ordered) : \E q \in Least(ordered \ {p}) :
       \E kind \in {"AND", "OR"}, rand \in Number :
         /\ elements' = Put(kind, {p[2], q[2]})
         /\ ordered' = Insert(ordered \ {p, q}, rand, Len(elements'))
  /\ UNCHANGED <<leaves, deadEnds, phase>>

Finish ==
  /\ phase = "joining"
  /\ Cardinality(ordered) = 1
  /\ phase' = "done"
  /\ UNCHANGED <<elements, leaves, deadEnds, ordered>>

Terminated == phase = "done" /\ UNCHANGED vars

Next == Choose \/ Order \/ Join \/ Finish \/ Terminated

Spec == Init /\ [][Next]_vars

-----------------------------------------------------------------------------
(* Properties.                                                             *)

Open == IF phase = "free" THEN deadEnds ELSE {p[2] : p \in ordered}
IsInput(g) == \E p \in Gate : g \in elements[p].ins

\* A gate's inputs were made before it, so that the circuit has no cycle.
TypeOK ==
  /\ elements \in Seq([kind : {"TRUE", "FALSE", "INPUT", "NOT", "AND", "OR"}, ins : SUBSET Nat])
  /\ \A g \in Gate : elements[g].ins \subseteq 1 .. g - 1
  /\ leaves \in 1 .. Len(elements)
  /\ deadEnds \subseteq Gate
  /\ ordered \subseteq Number \X Gate
  /\ phase \in {"free", "joining", "done"}

\* Except for constants, a gate is open exactly when no other gate has it
\* as an input: neither the shared inputs of the free phase nor equal random
\* numbers lose one.
NothingLost == \A g \in Gate : ~IsConstant(g) => (g \in Open <=> ~IsInput(g))

\* The output of a circuit reaches every gate and every input: a set that
\* holds the output, and with a gate its inputs, holds all but constants.
\* The copy constructor's reset of twins relies on this.
OutputReachesAll ==
  phase = "done" =>
    \A S \in SUBSET Gate :
      (Open \subseteq S /\ \A g \in S : elements[g].ins \subseteq S)
        => \A g \in Gate : ~IsConstant(g) => g \in S

\* The circuit has one output and at most numOfGates gates and one; only as
\* many inputs as force more, do.
GateBound ==
  phase = "done" =>
    /\ \E g \in Gate : Open = {g}
    /\ made <= NumOfGates + 1 \/ made = NumOfInputs - 1
=============================================================================
