------------------------- MODULE CheckedCircuitProofs -------------------------
(***************************************************************************)
(* For every number of inputs and gates and all random choices: the random *)
(* circuit has one output, which reaches every gate and every input, and   *)
(* no more than one gate too many; and operator== answers whether the two  *)
(* circuits compute the same function.                                     *)
(*                                                                         *)
(* The argument for the random circuit.  A gate is open as long as nothing *)
(* has it as an input, and it waits in the ordered set under one number    *)
(* only.  In the free phase a gate adds at most one to the gates made and  *)
(* at most one to the dead ends; joining keeps the sum of gates made and   *)
(* gates waiting.                                                          *)
(***************************************************************************)
EXTENDS CheckedCircuit, GateHeapProofs

-----------------------------------------------------------------------------
\* The random circuit.

Kind == {"TRUE", "FALSE", "INPUT", "NOT", "AND", "OR"}

\* A gate waits under one number.
WaitsOnce == \A p, q \in ordered : p[2] = q[2] => p = q

\* Constants have no inputs.
Bare == \A g \in Gate : IsConstant(g) => elements[g].ins = {}

\* How many gates are made, and how many there can still be.
Counted ==
  /\ IsFiniteSet(deadEnds) /\ IsFiniteSet(ordered)
  /\ phase = "free" =>
       /\ Cardinality(deadEnds) > 0
       /\ \/ made = 0 /\ Cardinality(deadEnds) = NumOfInputs
          \/ made + Cardinality(deadEnds) <= NumOfGates + 2
  /\ phase # "free" =>
       /\ Cardinality(ordered) > 0
       /\ \/ made + Cardinality(ordered) = NumOfInputs
          \/ made + Cardinality(ordered) <= NumOfGates + 2
  /\ phase = "done" => Cardinality(ordered) = 1

IInv == TypeOK /\ NothingLost /\ WaitsOnce /\ Bare /\ Counted

-----------------------------------------------------------------------------
(* One more gate.                                                          *)

LEMMA PutFacts ==
  ASSUME TypeOK, NEW kind \in {"NOT", "AND", "OR"}, NEW inputs \in SUBSET Gate,
         elements' = Put(kind, inputs), leaves' = leaves
  PROVE  /\ Len(elements) \in Nat /\ leaves \in Nat /\ leaves <= Len(elements)
         /\ Gate = 1 .. Len(elements)
         /\ Gate' = Gate \cup {Len(elements')}
         /\ Len(elements') = Len(elements) + 1 /\ made' = made + 1
         /\ made \in Nat
         /\ \A g \in Gate : elements'[g] = elements[g]
         /\ elements'[Len(elements')] = [kind |-> kind, ins |-> inputs]
         /\ elements' \in Seq([kind : Kind, ins : SUBSET Nat])
         /\ \A g \in Gate' : elements'[g].ins \subseteq 1 .. g - 1
  <1>1. /\ elements \in Seq([kind : Kind, ins : SUBSET Nat])
        /\ leaves \in 1 .. Len(elements)
    BY DEF TypeOK, Kind
  <1>2. Gate = 1 .. Len(elements) /\ Len(elements) \in Nat
    BY <1>1 DEF Gate
  <1>3. [kind |-> kind, ins |-> inputs] \in [kind : Kind, ins : SUBSET Nat]
    BY <1>2 DEF Kind
  <1>4. elements' = Append(elements, [kind |-> kind, ins |-> inputs])
    BY DEF Put
  <1>5. /\ elements' \in Seq([kind : Kind, ins : SUBSET Nat])
        /\ Len(elements') = Len(elements) + 1
        /\ \A g \in 1 .. Len(elements) : elements'[g] = elements[g]
        /\ elements'[Len(elements) + 1] = [kind |-> kind, ins |-> inputs]
        /\ DOMAIN elements' = 1 .. Len(elements) + 1
    BY <1>1, <1>3, <1>4
  <1>6. Gate' = Gate \cup {Len(elements')}
    BY <1>2, <1>5 DEF Gate
  <1>7. \A g \in Gate' : elements'[g].ins \subseteq 1 .. g - 1
    <2> TAKE g \in Gate'
    <2>1. CASE g \in Gate
      BY <1>2, <1>5, <2>1 DEF TypeOK
    <2>2. CASE g = Len(elements) + 1
      <3>1. elements'[g].ins = inputs /\ g - 1 = Len(elements)
        BY <1>2, <1>5, <2>2
      <3> QED
        BY <1>2, <3>1
    <2> QED
      BY <1>5, <1>6, <2>1, <2>2
  <1> QED
    BY <1>1, <1>2, <1>5, <1>6, <1>7 DEF made

\* Who is an input after a gate was made.
LEMMA InputsAfterPut ==
  ASSUME TypeOK, NEW kind \in {"NOT", "AND", "OR"}, NEW inputs \in SUBSET Gate,
         elements' = Put(kind, inputs), leaves' = leaves,
         NEW new, new = Len(elements')
  PROVE  /\ \A g \in Gate : IsInput(g)' <=> (IsInput(g) \/ g \in inputs)
         /\ ~ IsInput(new)'
         /\ \A g \in Gate : IsConstant(g)' <=> IsConstant(g)
         /\ ~ IsConstant(new)'
         /\ Bare => Bare'
  <1>1. /\ Gate = 1 .. Len(elements) /\ Len(elements) \in Nat /\ new = Len(elements) + 1
        /\ Gate' = Gate \cup {new} /\ \A g \in Gate : elements'[g] = elements[g]
        /\ elements'[new] = [kind |-> kind, ins |-> inputs]
        /\ \A g \in Gate' : elements'[g].ins \subseteq 1 .. g - 1
    BY PutFacts
  <1>2. \A g : IsInput(g)' <=> \E p \in Gate' : g \in elements'[p].ins
    BY <1>1 DEF IsInput
  <1>3. elements'[new].ins = inputs /\ elements'[new].kind = kind
    BY <1>1
  <1>4. \A g \in Gate : IsInput(g)' <=> (IsInput(g) \/ g \in inputs)
    BY <1>1, <1>2, <1>3 DEF IsInput
  <1>5. ~ IsInput(new)'
    <2> SUFFICES ASSUME NEW p \in Gate', new \in elements'[p].ins PROVE FALSE
      BY <1>1, <1>2
    <2>1. new \in 1 .. p - 1 /\ p \in 1 .. new
      BY <1>1
    <2> QED
      BY <1>1, <2>1
  <1>6. /\ \A g \in Gate : IsConstant(g)' <=> IsConstant(g)
        /\ ~ IsConstant(new)'
    BY <1>1, <1>3 DEF IsConstant
  <1>7. Bare => Bare'
    BY <1>1, <1>6 DEF Bare
  <1> QED
    BY <1>4, <1>5, <1>6, <1>7

-----------------------------------------------------------------------------
(* The steps.                                                              *)

LEMMA InitIInv == Init => IInv
  <1> SUFFICES ASSUME NEW constants \in {<<>>, Constants},
                      leaves = Len(constants) + NumOfInputs,
                      elements = constants \o [i \in 1 .. NumOfInputs |-> Leaf("INPUT")],
                      deadEnds = Len(constants) + 1 .. leaves, ordered = {}, phase = "free"
               PROVE  IInv
    BY DEF Init
  <1> DEFINE k == Len(constants)
             inputs == [i \in 1 .. NumOfInputs |-> Leaf("INPUT")]
             E == [kind : Kind, ins : SUBSET Nat]
  <1>1. NumOfInputs \in Nat /\ NumOfInputs > 0 /\ NumOfGates \in Nat
    BY SizeAssumption
  <1>2. Leaf("INPUT") \in E /\ Leaf("TRUE") \in E /\ Leaf("FALSE") \in E
    BY DEF Leaf, Kind
  <1>0. Leaf("INPUT").kind = "INPUT" /\ Leaf("INPUT").ins = {}
    BY DEF Leaf
  <1>3. /\ k \in {0, 2} /\ constants \in Seq(E)
        /\ \A g \in 1 .. k : constants[g].kind \in {"TRUE", "FALSE"} /\ constants[g].ins = {}
    <2>1. CASE constants = <<>>
      BY <2>1
    <2>2. CASE constants = Constants
      <3>1. constants = <<[kind |-> "TRUE", ins |-> {}], [kind |-> "FALSE", ins |-> {}]>>
        BY <2>2 DEF Constants, Leaf
      <3>2. constants = <<Leaf("TRUE"), Leaf("FALSE")>>
        BY <2>2 DEF Constants
      <3>3. k = 2
        BY <3>1
      <3>4. constants \in Seq(E)
        <4> HIDE DEF E
        <4> QED
          BY <1>2, <3>2
      <3>5. \A g \in 1 .. 2 : constants[g].kind \in {"TRUE", "FALSE"} /\ constants[g].ins = {}
        <4>1. constants[1] = [kind |-> "TRUE", ins |-> {}] /\ constants[2] = [kind |-> "FALSE", ins |-> {}]
          BY <3>1
        <4>2. \A g \in 1 .. 2 : g = 1 \/ g = 2
          OBVIOUS
        <4> QED
          BY <4>1, <4>2
      <3> QED
        BY <3>3, <3>4, <3>5
    <2> QED
      BY <2>1, <2>2
  <1>4. inputs \in Seq(E) /\ Len(inputs) = NumOfInputs
    BY <1>1, <1>2
  <1>5. /\ elements \in Seq(E) /\ Len(elements) = leaves
        /\ \A g \in 1 .. leaves :
             elements[g] = IF g <= k THEN constants[g] ELSE Leaf("INPUT")
    <2> HIDE DEF E
    <2>1. /\ elements \in Seq(E) /\ Len(elements) = leaves
          /\ \A g \in 1 .. k + NumOfInputs :
               elements[g] = IF g <= k THEN constants[g] ELSE inputs[g - k]
      <3>1. elements = constants \o inputs /\ leaves = k + NumOfInputs
        OBVIOUS
      <3>2. constants \in Seq(E) /\ inputs \in Seq(E) /\ Len(inputs) = NumOfInputs
        BY <1>3, <1>4
      <3> HIDE DEF inputs
      <3> QED
        BY <3>1, <3>2, ConcatProperties
    <2>2. \A g \in 1 .. k + NumOfInputs : ~ (g <= k) => inputs[g - k] = Leaf("INPUT")
      BY <1>1, <1>3
    <2> QED
      BY <2>1, <2>2
  <1>6. Gate = 1 .. leaves /\ leaves = k + NumOfInputs /\ leaves \in Nat
    BY <1>1, <1>3, <1>5 DEF Gate
  <1>7. \A g \in Gate : elements[g].ins = {} /\ (IsConstant(g) <=> g <= k)
    <2> TAKE g \in Gate
    <2>1. CASE g <= k
      BY <1>3, <1>5, <1>6, <2>1 DEF IsConstant
    <2>2. CASE ~ g <= k
      <3>1. elements[g] = Leaf("INPUT")
        BY <1>5, <1>6, <2>2
      <3>2. elements[g].kind = "INPUT" /\ elements[g].ins = {}
        BY <1>0, <3>1
      <3> QED
        BY <3>2, <2>2 DEF IsConstant
    <2> QED
      BY <2>1, <2>2
  <1>8. TypeOK
    <2>1. \A g \in Gate : elements[g].ins \subseteq 1 .. g - 1
      BY <1>7
    <2>2. leaves \in 1 .. Len(elements) /\ deadEnds \subseteq Gate
      BY <1>1, <1>3, <1>5, <1>6
    <2> QED
      BY <1>5, <2>1, <2>2 DEF TypeOK, Kind
  <1>9. NothingLost
    <2>1. \A g \in Gate : ~ IsInput(g)
      BY <1>7 DEF IsInput
    <2>2. \A g \in Gate : ~ IsConstant(g) => g \in deadEnds
      BY <1>3, <1>6, <1>7
    <2> QED
      BY <2>1, <2>2 DEF NothingLost, Open
  <1>10. Counted
    <2>1. IsFiniteSet(deadEnds) /\ Cardinality(deadEnds) = NumOfInputs
      BY <1>1, <1>3, <1>6, FS_Interval
    <2>2. made = 0
      <3>1. Len(elements) = leaves /\ leaves \in Nat
        BY <1>5, <1>6
      <3>2. \A n \in Nat : n - n = 0
        OBVIOUS
      <3>3. made = leaves - leaves
        BY <3>1 DEF made
      <3> QED
        BY <3>1, <3>2, <3>3
    <2> QED
      BY <1>1, <2>1, <2>2, FS_EmptySet DEF Counted
  <1>11. WaitsOnce /\ Bare
    BY <1>7 DEF WaitsOnce, Bare
  <1> QED
    BY <1>8, <1>9, <1>10, <1>11 DEF IInv

LEMMA ChooseIInv == IInv /\ Choose => IInv'
  <1> SUFFICES ASSUME IInv, Choose PROVE IInv'
    OBVIOUS
  <1>1. PICK inp1 \in Gate, inp2 \in Gate, kind \in {"NOT", "AND", "OR"} :
          /\ elements' = Put(kind, {inp1, inp2})
          /\ deadEnds' = (deadEnds \ {inp1, inp2}) \cup {Len(elements')}
    BY DEF Choose
  <1> DEFINE inputs == {inp1, inp2}
  <1>0. PICK new : new = Len(elements')
    OBVIOUS
  <1>2. phase = "free" /\ Room /\ UNCHANGED <<leaves, ordered, phase>>
    BY DEF Choose
  <1>3. TypeOK /\ inputs \in SUBSET Gate /\ leaves' = leaves /\ elements' = Put(kind, inputs)
    BY <1>1, <1>2 DEF IInv
  <1>4. /\ Len(elements) \in Nat /\ leaves \in Nat /\ leaves <= Len(elements)
        /\ Gate = 1 .. Len(elements) /\ Gate' = Gate \cup {new} /\ new = Len(elements) + 1
        /\ made' = made + 1 /\ made \in Nat
        /\ elements' \in Seq([kind : Kind, ins : SUBSET Nat])
        /\ \A g \in Gate' : elements'[g].ins \subseteq 1 .. g - 1
    BY <1>0, <1>3, PutFacts
  <1>5. /\ \A g \in Gate : IsInput(g)' <=> (IsInput(g) \/ g \in inputs)
        /\ ~ IsInput(new)'
        /\ \A g \in Gate : IsConstant(g)' <=> IsConstant(g)
        /\ Bare'
    BY <1>0, <1>3, InputsAfterPut DEF IInv
  <1>6. deadEnds' = (deadEnds \ inputs) \cup {new}
    BY <1>0, <1>1
  <1> HIDE DEF inputs
  <1>7. TypeOK'
    <2>1. leaves' \in 1 .. Len(elements')
      BY <1>0, <1>3, <1>4 DEF TypeOK
    <2>3. deadEnds' \subseteq Gate'
      BY <1>3, <1>4, <1>6 DEF TypeOK
    <2>2. ordered' \subseteq Number \X Gate' /\ phase' \in {"free", "joining", "done"}
      BY <1>2, <1>3, <1>4 DEF TypeOK
    <2> QED
      BY <1>4, <2>1, <2>2, <2>3 DEF TypeOK, Kind
  <1>8. NothingLost'
    <2> SUFFICES ASSUME NEW g \in Gate', ~ IsConstant(g)'
                 PROVE  g \in Open' <=> ~ IsInput(g)'
      BY DEF NothingLost
    <2>1. Open' = deadEnds' /\ Open = deadEnds
      BY <1>2 DEF Open
    <2>2. CASE g = new
      BY <1>5, <1>6, <2>1, <2>2
    <2>3. CASE g \in Gate /\ g # new
      BY <1>5, <1>6, <2>1, <2>3 DEF IInv, NothingLost
    <2> QED
      BY <1>4, <2>2, <2>3
  <1>9. Counted'
    <2>1. IsFiniteSet(deadEnds) /\ Cardinality(deadEnds) \in Nat
      BY FS_CardinalityType DEF IInv, Counted
    <2>2. /\ IsFiniteSet(deadEnds \ inputs)
          /\ Cardinality(deadEnds \ inputs) <= Cardinality(deadEnds)
          /\ Cardinality(deadEnds \ inputs) \in Nat
      BY <2>1, FS_Subset, FS_CardinalityType
    <2>3. new \notin deadEnds \ inputs
      BY <1>3, <1>4 DEF TypeOK
    <2>4. /\ IsFiniteSet(deadEnds')
          /\ Cardinality(deadEnds') = Cardinality(deadEnds \ inputs) + 1
      BY <1>6, <2>2, <2>3, FS_AddElement
    <2>5. made' + Cardinality(deadEnds') <= NumOfGates + 2
      <3>1. NumOfGates \in Nat /\ NumOfGates >= made + Cardinality(deadEnds)
        BY <1>2, SizeAssumption DEF Room
      <3>2. \A a, b, c \in Nat : c <= b /\ NumOfGates >= a + b => (a + 1) + (c + 1) <= NumOfGates + 2
        BY <3>1
      <3>3. (made + 1) + (Cardinality(deadEnds \ inputs) + 1) <= NumOfGates + 2
        BY <1>4, <2>1, <2>2, <3>1, <3>2
      <3> QED
        BY <1>4, <2>4, <3>3
    <2>6. IsFiniteSet(ordered')
      BY <1>2 DEF IInv, Counted
    <2> QED
      BY <1>2, <2>2, <2>4, <2>5, <2>6 DEF Counted
  <1>10. WaitsOnce'
    BY <1>2 DEF IInv, WaitsOnce
  <1> QED
    BY <1>5, <1>7, <1>8, <1>9, <1>10 DEF IInv

LEMMA OrderIInv == IInv /\ Order => IInv'
  <1> SUFFICES ASSUME IInv, Order PROVE IInv'
    OBVIOUS
  <1>1. PICK rand \in [deadEnds -> Number] : ordered' = {<<rand[g], g>> : g \in deadEnds}
    BY DEF Order
  <1>2. phase = "free" /\ phase' = "joining" /\ UNCHANGED <<elements, leaves, deadEnds>>
    BY DEF Order
  <1>3. Open' = Open
    <2>1. Open = deadEnds /\ Open' = {x[2] : x \in ordered'}
      BY <1>2 DEF Open
    <2>2. \A g \in deadEnds : <<rand[g], g>> \in ordered' /\ <<rand[g], g>>[2] = g
      BY <1>1
    <2>3. \A x \in ordered' : x[2] \in deadEnds
      BY <1>1
    <2> QED
      BY <2>1, <2>2, <2>3
  <1>4. TypeOK'
    <2>1. ordered' \subseteq Number \X Gate'
      BY <1>1, <1>2 DEF IInv, TypeOK, Gate
    <2> QED
      BY <1>2, <2>1 DEF IInv, TypeOK, Gate
  <1>5. NothingLost'
    BY <1>2, <1>3 DEF IInv, NothingLost, Gate, IsConstant, IsInput
  <1>6. WaitsOnce'
    BY <1>1 DEF WaitsOnce
  <1>7. Bare'
    BY <1>2 DEF IInv, Bare, Gate, IsConstant
  <1>8. Counted'
    <2> DEFINE pair == [g \in deadEnds |-> <<rand[g], g>>]
    <2>1. pair \in Bijection(deadEnds, ordered')
      BY <1>1 DEF Bijection, Injection, Surjection, IsInjective
    <2>2. IsFiniteSet(ordered') /\ Cardinality(ordered') = Cardinality(deadEnds)
      BY <2>1, FS_Bijection DEF ExistsBijection, IInv, Counted
    <2>3. made' = made
      BY <1>2 DEF made
    <2>4. Cardinality(deadEnds) \in Nat
      BY FS_CardinalityType DEF IInv, Counted
    <2>5. made + Cardinality(deadEnds) = NumOfInputs
            \/ made + Cardinality(deadEnds) <= NumOfGates + 2
      BY <1>2, <2>4, SizeAssumption DEF IInv, Counted
    <2>6. Cardinality(deadEnds) > 0 /\ IsFiniteSet(deadEnds')
      BY <1>2 DEF IInv, Counted
    <2> QED
      BY <1>2, <2>2, <2>3, <2>5, <2>6 DEF Counted
  <1> QED
    BY <1>4, <1>5, <1>6, <1>7, <1>8 DEF IInv

LEMMA JoinIInv == IInv /\ Join => IInv'
  <1> SUFFICES ASSUME IInv, Join PROVE IInv'
    OBVIOUS
  <1>1. PICK p \in ordered, q \in ordered, kind \in {"AND", "OR"}, rand \in Number :
          /\ p # q
          /\ elements' = Put(kind, {p[2], q[2]})
          /\ ordered' = Insert(ordered \ {p, q}, rand, Len(elements'))
    BY DEF Join, Least
  <1>0. PICK new : new = Len(elements')
    OBVIOUS
  <1>2. phase = "joining" /\ UNCHANGED <<leaves, deadEnds, phase>>
    BY DEF Join
  <1>3. /\ TypeOK /\ {p[2], q[2]} \in SUBSET Gate /\ kind \in {"NOT", "AND", "OR"}
        /\ ordered \subseteq Number \X Gate
    BY <1>1 DEF IInv, TypeOK
  <1>4. /\ Len(elements) \in Nat /\ leaves \in Nat /\ leaves <= Len(elements)
        /\ Gate = 1 .. Len(elements) /\ Gate' = Gate \cup {new} /\ new = Len(elements) + 1
        /\ made' = made + 1 /\ made \in Nat
        /\ elements' \in Seq([kind : Kind, ins : SUBSET Nat])
        /\ \A g \in Gate' : elements'[g].ins \subseteq 1 .. g - 1
    BY <1>0, <1>1, <1>2, <1>3, PutFacts
  <1>5. /\ \A g \in Gate : IsInput(g)' <=> (IsInput(g) \/ g \in {p[2], q[2]})
        /\ ~ IsInput(new)'
        /\ \A g \in Gate : IsConstant(g)' <=> IsConstant(g)
        /\ Bare'
    BY <1>0, <1>1, <1>2, <1>3, InputsAfterPut DEF IInv
  <1>6. ordered' = (ordered \ {p, q}) \cup {<<rand, new>>}
    BY <1>0, <1>1 DEF Insert
  <1>7. TypeOK'
    <2>1. leaves' \in 1 .. Len(elements')
      BY <1>0, <1>2, <1>3, <1>4 DEF TypeOK
    <2>2. ordered' \subseteq Number \X Gate'
      <3>1. ordered \subseteq Number \X Gate'
        BY <1>3, <1>4
      <3>2. <<rand, new>> \in Number \X Gate'
        BY <1>1, <1>4
      <3> QED
        BY <1>6, <3>1, <3>2
    <2>3. deadEnds' \subseteq Gate' /\ phase' \in {"free", "joining", "done"}
      BY <1>2, <1>3, <1>4 DEF TypeOK
    <2> QED
      BY <1>4, <2>1, <2>2, <2>3 DEF TypeOK, Kind
  <1>8. new \notin Gate /\ \A x \in ordered : x[2] \in Gate
    BY <1>3, <1>4
  <1>9. WaitsOnce'
    BY <1>6, <1>8 DEF IInv, WaitsOnce
  <1>10. NothingLost'
    <2> SUFFICES ASSUME NEW g \in Gate', ~ IsConstant(g)'
                 PROVE  g \in Open' <=> ~ IsInput(g)'
      BY DEF NothingLost
    <2>1. Open' = {x[2] : x \in ordered'} /\ Open = {x[2] : x \in ordered}
      BY <1>2 DEF Open
    <2>2. CASE g = new
      <3>1. <<rand, new>> \in ordered' /\ <<rand, new>>[2] = new
        BY <1>6
      <3> QED
        BY <1>5, <2>1, <2>2, <3>1
    <2>3. CASE g \in Gate /\ g # new
      <3>1. g \in Open' <=> g \in Open /\ g \notin {p[2], q[2]}
        BY <1>1, <1>6, <2>1, <2>3 DEF IInv, WaitsOnce
      <3> QED
        BY <1>5, <2>3, <3>1 DEF IInv, NothingLost
    <2> QED
      BY <1>4, <2>2, <2>3
  <1>11. Counted'
    <2>1. IsFiniteSet(ordered) /\ Cardinality(ordered) \in Nat
      BY FS_CardinalityType DEF IInv, Counted
    <2> DEFINE A == ordered \ {p}
               B == A \ {q}
    <2>2. IsFiniteSet(A) /\ Cardinality(A) = Cardinality(ordered) - 1
      BY <1>1, <2>1, FS_RemoveElement
    <2>3. q \in A /\ <<rand, new>> \notin B /\ ordered' = B \cup {<<rand, new>>}
      BY <1>1, <1>6, <1>8
    <2> HIDE DEF A
    <2>4. IsFiniteSet(B) /\ Cardinality(B) = Cardinality(A) - 1
      BY <2>2, <2>3, FS_RemoveElement
    <2>5. Cardinality(B) \in Nat
      BY <2>4, FS_CardinalityType
    <2> HIDE DEF B
    <2>11. IsFiniteSet(ordered') /\ Cardinality(ordered') = Cardinality(B) + 1
      BY <2>3, <2>4, FS_AddElement
    <2>6. Cardinality(ordered') = Cardinality(ordered) - 1
      BY <2>1, <2>2, <2>4, <2>11
    <2>7. Cardinality(ordered') > 0
      BY <2>5, <2>11
    <2>8. made' + Cardinality(ordered') = made + Cardinality(ordered)
      BY <1>4, <2>1, <2>6
    <2>9. made + Cardinality(ordered) = NumOfInputs
            \/ made + Cardinality(ordered) <= NumOfGates + 2
      BY <1>2 DEF IInv, Counted
    <2>10. IsFiniteSet(deadEnds')
      BY <1>2 DEF IInv, Counted
    <2> QED
      BY <1>2, <2>7, <2>8, <2>9, <2>10, <2>11 DEF Counted
  <1> QED
    BY <1>5, <1>7, <1>9, <1>10, <1>11 DEF IInv

LEMMA FinishIInv == IInv /\ Finish => IInv'
  <1> SUFFICES ASSUME IInv, Finish PROVE IInv'
    OBVIOUS
  <1>1. /\ phase = "joining" /\ phase' = "done" /\ Cardinality(ordered) = 1
        /\ UNCHANGED <<elements, leaves, deadEnds, ordered>>
    BY DEF Finish
  <1>2. TypeOK' /\ WaitsOnce' /\ Bare'
    BY <1>1 DEF IInv, TypeOK, WaitsOnce, Bare, Gate, IsConstant
  <1>3. NothingLost'
    BY <1>1 DEF IInv, NothingLost, Open, Gate, IsConstant, IsInput
  <1>4. Counted'
    BY <1>1 DEF IInv, Counted, made
  <1> QED
    BY <1>2, <1>3, <1>4 DEF IInv

LEMMA StutterIInv == IInv /\ UNCHANGED vars => IInv'
  BY DEF vars, IInv, TypeOK, NothingLost, WaitsOnce, Bare, Counted, Open, Gate,
         IsConstant, IsInput, made

\* The inductive invariant of the construction.
THEOREM Invariance == Spec => []IInv
  <1>1. IInv /\ [Next]_vars => IInv'
    BY StutterIInv, ChooseIInv, OrderIInv, JoinIInv, FinishIInv DEF Next, Terminated
  <1> QED
    BY InitIInv, <1>1, PTL DEF Spec

\* No gate is lost, and the circuit has no cycle.
THEOREM NoLoss == Spec => [](TypeOK /\ NothingLost)
  <1>1. IInv => TypeOK /\ NothingLost
    BY DEF IInv
  <1> QED
    BY Invariance, <1>1, PTL

\* The finished circuit's output reaches every gate and every input: the
\* last gate outside a closed set would have to be open.
THEOREM Reaching == Spec => []OutputReachesAll
  <1>1. IInv => OutputReachesAll
    <2> SUFFICES ASSUME IInv, phase = "done", NEW S \in SUBSET Gate, Open \subseteq S,
                        \A g \in S : elements[g].ins \subseteq S,
                        NEW x \in Gate, ~ IsConstant(x), x \notin S
                 PROVE  FALSE
      BY DEF OutputReachesAll
    <2> DEFINE Outside == {g \in Gate : ~ IsConstant(g) /\ g \notin S}
    <2>1. Gate = 1 .. Len(elements) /\ Len(elements) \in Nat
      BY DEF IInv, TypeOK, Gate
    <2>2. PICK g \in Outside : \A y \in Outside : ~ (g < y)
      <3>1. Outside \in SUBSET (1 .. Len(elements)) /\ Outside # {}
        BY <2>1
      <3> HIDE DEF Outside
      <3> QED
        BY <2>1, <3>1, Greatest
    <2>3. PICK p \in Gate : g \in elements[p].ins
      BY DEF IInv, NothingLost, IsInput
    <2>4. p \notin S /\ ~ IsConstant(p)
      BY <2>3 DEF IInv, Bare
    <2>5. g < p
      BY <2>1, <2>3 DEF IInv, TypeOK
    <2> QED
      BY <2>2, <2>4, <2>5
  <1> QED
    BY Invariance, <1>1, PTL

\* One output, and at most one gate more than was asked for.
THEOREM Bounded == Spec => []GateBound
  <1>1. IInv => GateBound
    <2> SUFFICES ASSUME IInv, phase = "done" PROVE GateBound
      BY DEF GateBound
    <2>1. IsFiniteSet(ordered) /\ Cardinality(ordered) = 1
      BY DEF IInv, Counted
    <2>2. PICK p : ordered = {p}
      BY <2>1, FS_Singleton
    <2>3. p[2] \in Gate
      BY <2>2 DEF IInv, TypeOK
    <2>4. Open = {p[2]}
      BY <2>2 DEF Open
    <2>5. made \in Int
      BY DEF IInv, TypeOK, made
    <2>6. made + 1 = NumOfInputs \/ made + 1 <= NumOfGates + 2
      BY <2>1 DEF IInv, Counted
    <2>7. made <= NumOfGates + 1 \/ made = NumOfInputs - 1
      BY <2>5, <2>6, SizeAssumption
    <2> QED
      BY <2>3, <2>4, <2>7 DEF GateBound
  <1> QED
    BY Invariance, <1>1, PTL

-----------------------------------------------------------------------------
\* What getValue does.

\* What it does to the marks at a gate, when eval is what it does elsewhere.
Evaluated(h, true, eval, g) ==
  [m \in Marks(h) |->
     LET one == eval[h.in[g][1]][m]
         first == ValueOf(h, true, one, h.in[g][1])
         two == eval[h.in[g][2]][one]
     IN  IF Arity(h.kind[g]) = 0 \/ g \in m.marked THEN m
         ELSE IF h.kind[g] = "NOT" THEN Store(one, g, ~first)
         ELSE IF Undecided(h.kind[g], first)
         THEN Store(two, g, ValueOf(h, true, two, h.in[g][2]))
         ELSE Store(one, g, first)]

LEMMA EvaluatedFromBelow ==
  ASSUME NEW h, Layered(h), NEW true, NEW g \in Live(h), NEW t, NEW u,
         \A x \in Live(h) : x < g => t[x] = u[x]
  PROVE  Evaluated(h, true, t, g) = Evaluated(h, true, u, g)
<1>1. h.kind[g] \in {"INPUT", "TRUE", "FALSE", "NOT", "AND", "OR"}
  BY LayeredFacts
<1>2. CASE h.kind[g] \in {"INPUT", "TRUE", "FALSE"}
  <2>1. Arity(h.kind[g]) = 0
    BY <1>2, LayeredFacts
  <2> QED
    BY <2>1 DEF Evaluated
<1>3. CASE h.kind[g] = "NOT"
  <2>1. t[h.in[g][1]] = u[h.in[g][1]]
    BY <1>3, LayeredFacts
  <2> QED
    BY <1>3, <2>1 DEF Evaluated
<1>4. CASE h.kind[g] \in {"AND", "OR"}
  <2>1. t[h.in[g][1]] = u[h.in[g][1]] /\ t[h.in[g][2]] = u[h.in[g][2]]
    BY <1>4, LayeredFacts
  <2> QED
    BY <1>4, <2>1 DEF Evaluated
<1> QED
  BY <1>1, <1>2, <1>3, <1>4

LEMMA ValueIsBoolean ==
  ASSUME NEW h, NEW true, NEW n, NEW g
  PROVE  ValueOf(h, true, n, g) \in BOOLEAN
<1>1. CASE h.kind[g] = "INPUT"
  <2>1. ValueOf(h, true, n, g) = (h.id[g] \in true)
    BY <1>1 DEF ValueOf
  <2>2. (h.id[g] \in true) \in BOOLEAN
    OBVIOUS
  <2> QED
    BY <2>1, <2>2
<1>2. CASE h.kind[g] \in {"TRUE", "FALSE"}
  BY <1>2 DEF ValueOf
<1>3. CASE h.kind[g] # "INPUT" /\ h.kind[g] \notin {"TRUE", "FALSE"}
  <2>1. ValueOf(h, true, n, g) = (g \in n.value)
    BY <1>3 DEF ValueOf
  <2>2. (g \in n.value) \in BOOLEAN
    OBVIOUS
  <2> QED
    BY <2>1, <2>2
<1> QED
  BY <1>1, <1>2, <1>3

LEMMA EvaluateEquation ==
  ASSUME NEW h, Layered(h), NEW true
  PROVE  Evaluate(h, true) = [g \in Live(h) |-> Evaluated(h, true, Evaluate(h, true), g)]
<1> DEFINE L == Live(h)
           M == Marks(h)
           V == [M -> M]
           step == [g \in L |-> [t \in [L -> V] |-> Evaluated(h, true, t, g)]]
<1>1. h.next \in Nat /\ L \subseteq 1 .. h.next
  BY LayeredFacts
<1>2. ASSUME NEW g \in L, NEW m \in M, NEW v \in BOOLEAN
      PROVE  Store(m, g, v) \in M
  BY DEF Store, Marks
<1>3. ASSUME NEW g \in L, NEW t \in [L -> V]
      PROVE  Evaluated(h, true, t, g) \in V
  <2> DEFINE one(m) == t[h.in[g][1]][m]
             first(m) == ValueOf(h, true, one(m), h.in[g][1])
             two(m) == t[h.in[g][2]][one(m)]
             second(m) == ValueOf(h, true, two(m), h.in[g][2])
             value(m) == IF Arity(h.kind[g]) = 0 \/ g \in m.marked THEN m
                         ELSE IF h.kind[g] = "NOT" THEN Store(one(m), g, ~first(m))
                         ELSE IF Undecided(h.kind[g], first(m)) THEN Store(two(m), g, second(m))
                         ELSE Store(one(m), g, first(m))
  <2>1. Evaluated(h, true, t, g) = [m \in M |-> value(m)]
    BY DEF Evaluated
  <2>2. ASSUME NEW m \in M
        PROVE  value(m) \in M
    <3>1. CASE Arity(h.kind[g]) = 0
      BY <3>1
    <3>2. CASE h.kind[g] \in {"NOT", "AND", "OR"}
      <4>1. one(m) \in M /\ first(m) \in BOOLEAN
        <5>1. h.in[g][1] \in L
          BY <3>2, LayeredFacts
        <5> QED
          BY <5>1, ValueIsBoolean
      <4>2. h.kind[g] # "NOT" => two(m) \in M /\ second(m) \in BOOLEAN
        <5> SUFFICES ASSUME h.kind[g] # "NOT" PROVE two(m) \in M /\ second(m) \in BOOLEAN
          OBVIOUS
        <5>1. h.in[g][2] \in L
          BY <3>2, LayeredFacts
        <5> HIDE DEF one
        <5>2. two(m) \in M
          BY <4>1, <5>1
        <5> QED
          BY <5>2, ValueIsBoolean
      <4> HIDE DEF M, L, one, two, first, second
      <4>3. Store(one(m), g, ~first(m)) \in M /\ Store(one(m), g, first(m)) \in M
        BY <1>2, <4>1
      <4>4. h.kind[g] # "NOT" => Store(two(m), g, second(m)) \in M
        BY <1>2, <4>2
      <4> QED
        BY <4>3, <4>4
    <3>3. Arity(h.kind[g]) = 0 \/ h.kind[g] \in {"NOT", "AND", "OR"}
      BY LayeredFacts
    <3> HIDE DEF value, M, L
    <3> QED
      BY <3>1, <3>2, <3>3
  <2> HIDE DEF value
  <2> QED
    BY <2>1, <2>2
<1>4. step \in [L -> [[L -> V] -> V]]
  BY <1>3
<1>5. ASSUME NEW g \in L, NEW t \in [L -> V], NEW u \in [L -> V],
             \A x \in L : x < g => t[x] = u[x]
      PROVE  step[g][t] = step[g][u]
  BY <1>5, EvaluatedFromBelow
<1>6. \A x \in L : \A t, u \in [L -> V] :
        (\A y \in L : y < x => t[y] = u[y]) => step[x][t] = step[x][u]
  BY <1>5
<1>7. \A g \in L : \A t \in [L -> V] : step[g][t] = Evaluated(h, true, t, g)
  OBVIOUS
<1>8. V # {}
  <2>1. [m \in M |-> m] \in V
    OBVIOUS
  <2> QED
    BY <2>1
<1> HIDE DEF step, V, L, M
<1>9. StepsUp(step, h.next, L, V)
  BY <1>1, <1>4, <1>6, <1>8 DEF StepsUp
<1>10. PICK f \in [L -> V] : \A g \in L : f[g] = step[g][f]
  BY <1>9, RecursionFromBelow
<1>11. f = [g \in L |-> Evaluated(h, true, f, g)]
  BY <1>7, <1>10
<1> DEFINE T == CHOOSE t : t = [g \in L |-> Evaluated(h, true, t, g)]
<1>12. T = [g \in L |-> Evaluated(h, true, T, g)]
  BY <1>11
<1>13. Evaluate(h, true) = T
  BY DEF Evaluate, Evaluated, L
<1> QED
  BY <1>12, <1>13 DEF L

\* Every marked gate has the value of the present assignment.
Right(h, true, m) == \A x \in m.marked : x \in m.value <=> true \in Table(h, x)

\* S has with a gate the marked gates among its inputs.
Follows(h, m, S) == \A y \in S : Children(h, y) \cap m.marked \subseteq S

\* What getValue of g makes of marks m, when it does what it should.
Gained(h, true, g, m, n) ==
  /\ n \in Marks(h) /\ m.marked \subseteq n.marked /\ Right(h, true, n)
  /\ ValueOf(h, true, n, g) <=> true \in Table(h, g)
  /\ Arity(h.kind[g]) = 0 => n = m
  /\ Arity(h.kind[g]) # 0 => g \in n.marked
  /\ g \in m.marked => n = m
  /\ \A S \in SUBSET Live(h) :
       g \in S /\ Follows(h, n, S) => n.marked \subseteq m.marked \cup S

\* The value of a gate, and its table, by its kind.
LEMMA ValueFacts ==
  ASSUME NEW h, Layered(h), NEW true \in Valuation, NEW g \in Live(h), NEW n
  PROVE  /\ h.kind[g] \in {"INPUT", "TRUE", "FALSE"} =>
              (ValueOf(h, true, n, g) <=> true \in Table(h, g))
         /\ h.kind[g] \in {"NOT", "AND", "OR"} => (ValueOf(h, true, n, g) <=> g \in n.value)
         /\ h.kind[g] = "NOT" =>
              (true \in Table(h, g) <=> true \notin Table(h, h.in[g][1]))
         /\ h.kind[g] = "AND" =>
              (true \in Table(h, g) <=> true \in Table(h, h.in[g][1]) /\ true \in Table(h, h.in[g][2]))
         /\ h.kind[g] = "OR" =>
              (true \in Table(h, g) <=> true \in Table(h, h.in[g][1]) \/ true \in Table(h, h.in[g][2]))
<1>1. Table(h, g) = Computed(h, Tables(h), g)
  BY TablesEquation DEF Table
<1>2. CASE h.kind[g] = "INPUT"
  BY <1>1, <1>2 DEF ValueOf, Computed
<1>3. CASE h.kind[g] = "TRUE"
  BY <1>1, <1>3 DEF ValueOf, Computed
<1>4. CASE h.kind[g] = "FALSE"
  BY <1>1, <1>4 DEF ValueOf, Computed
<1>5. CASE h.kind[g] = "NOT"
  BY <1>1, <1>5 DEF ValueOf, Computed, Table
<1>6. CASE h.kind[g] = "AND"
  BY <1>1, <1>6 DEF ValueOf, Computed, Table
<1>7. CASE h.kind[g] = "OR"
  BY <1>1, <1>7 DEF ValueOf, Computed, Table
<1> QED
  BY <1>2, <1>3, <1>4, <1>5, <1>6, <1>7, LayeredFacts

\* Keeping the value of a gate that has just been found.
LEMMA StoreFacts ==
  ASSUME NEW h, NEW true, NEW g \in Live(h), NEW n \in Marks(h), Right(h, true, n),
         NEW v \in BOOLEAN, v <=> true \in Table(h, g)
  PROVE  /\ Store(n, g, v) \in Marks(h) /\ Store(n, g, v).marked = n.marked \cup {g}
         /\ Right(h, true, Store(n, g, v))
         /\ g \in Store(n, g, v).value <=> v
<1> DEFINE s == Store(n, g, v)
<1>1. s.marked = n.marked \cup {g}
  BY DEF Store
<1>2. s.value = IF v THEN n.value \cup {g} ELSE n.value \ {g}
  BY DEF Store
<1>3. n.marked \subseteq Live(h) /\ n.value \subseteq Live(h)
  BY DEF Marks
<1>4. s \in Marks(h)
  BY <1>3 DEF Marks, Store
<1>5. g \in s.value <=> v
  BY <1>2
<1>6. \A x \in n.marked \ {g} : x \in s.value <=> x \in n.value
  BY <1>2
<1> HIDE DEF s
<1>7. Right(h, true, s)
  BY <1>1, <1>5, <1>6 DEF Right
<1> QED
  BY <1>1, <1>4, <1>5, <1>7 DEF s

\* What the evaluation of an input marks is reached from the gate above it.
LEMMA MarkedBelow ==
  ASSUME NEW h, NEW true, NEW g, NEW c, NEW m, NEW one, NEW n,
         Gained(h, true, c, m, one), one.marked \subseteq n.marked, c \in Children(h, g),
         NEW S \in SUBSET Live(h), g \in S, Follows(h, n, S)
  PROVE  one.marked \subseteq m.marked \cup S
<1>1. CASE Arity(h.kind[c]) = 0
  BY <1>1 DEF Gained
<1>2. CASE Arity(h.kind[c]) # 0
  <2>1. c \in S
    BY <1>2 DEF Gained, Follows
  <2>2. Follows(h, one, S)
    BY DEF Follows
  <2> QED
    BY <2>1, <2>2 DEF Gained
<1> QED
  BY <1>1, <1>2

\* A gate that keeps the value it found.
LEMMA StoreGains ==
  ASSUME NEW h, Layered(h), NEW true \in Valuation, NEW g \in Live(h),
         h.kind[g] \in {"NOT", "AND", "OR"},
         NEW m, NEW n \in Marks(h), m.marked \subseteq n.marked, Right(h, true, n),
         g \notin m.marked, NEW v \in BOOLEAN, v <=> true \in Table(h, g),
         \A S \in SUBSET Live(h) :
           g \in S /\ Follows(h, n, S) => n.marked \subseteq m.marked \cup S
  PROVE  Gained(h, true, g, m, Store(n, g, v))
<1> DEFINE s == Store(n, g, v)
<1>1. /\ s \in Marks(h) /\ s.marked = n.marked \cup {g}
      /\ Right(h, true, s) /\ (g \in s.value <=> v)
  BY StoreFacts
<1> HIDE DEF s
<1>2. Arity(h.kind[g]) # 0
  BY LayeredFacts
<1>3. ValueOf(h, true, s, g) <=> true \in Table(h, g)
  BY <1>1, ValueFacts
<1>4. ASSUME NEW S \in SUBSET Live(h), g \in S, Follows(h, s, S)
      PROVE  s.marked \subseteq m.marked \cup S
  <2>1. Follows(h, n, S)
    BY <1>1, <1>4 DEF Follows
  <2> QED
    BY <1>1, <1>4, <2>1
<1>5. Gained(h, true, g, m, s)
  BY <1>1, <1>2, <1>3, <1>4 DEF Gained
<1> QED
  BY <1>5 DEF s

\* getValue is right, from marks that are right.
LEMMA EvaluateGains ==
  ASSUME NEW h, Layered(h), NEW true \in Valuation
  PROVE  \A g \in Live(h) : \A m \in Marks(h) :
           Right(h, true, m) => Gained(h, true, g, m, Evaluate(h, true)[g][m])
<1> DEFINE E == Evaluate(h, true)
           Gains(g) == \A m \in Marks(h) : Right(h, true, m) => Gained(h, true, g, m, E[g][m])
           Good == {g \in 1 .. h.next : g \in Live(h) => Gains(g)}
<1>1. h.next \in Nat /\ Live(h) \subseteq 1 .. h.next
  BY LayeredFacts
<1> HIDE DEF E
<1>2. ASSUME NEW g \in Live(h), \A x \in Live(h) : x < g => Gains(x),
             NEW m \in Marks(h), Right(h, true, m)
      PROVE  Gained(h, true, g, m, E[g][m])
  <2> DEFINE c == h.in[g][1]
             d == h.in[g][2]
             one == E[c][m]
             first == ValueOf(h, true, one, c)
             two == E[d][one]
             second == ValueOf(h, true, two, d)
  <2>1. E[g][m] = IF Arity(h.kind[g]) = 0 \/ g \in m.marked THEN m
                  ELSE IF h.kind[g] = "NOT" THEN Store(one, g, ~first)
                  ELSE IF Undecided(h.kind[g], first) THEN Store(two, g, second)
                  ELSE Store(one, g, first)
    <3>1. E[g] = Evaluated(h, true, E, g)
      BY EvaluateEquation DEF E
    <3> QED
      BY <3>1 DEF Evaluated
  <2>2. CASE Arity(h.kind[g]) = 0 \/ g \in m.marked
    <3>1. E[g][m] = m
      BY <2>1, <2>2
    <3>2. ValueOf(h, true, m, g) <=> true \in Table(h, g)
      <4>1. CASE h.kind[g] \in {"INPUT", "TRUE", "FALSE"}
        BY <4>1, ValueFacts
      <4>2. CASE h.kind[g] \in {"NOT", "AND", "OR"}
        <5>1. g \in m.marked
          BY <2>2, <4>2, LayeredFacts
        <5> QED
          BY <1>2, <4>2, <5>1, ValueFacts DEF Right
      <4> QED
        BY <4>1, <4>2, LayeredFacts
    <3>3. Gained(h, true, g, m, m)
      BY <2>2, <3>2, <1>2 DEF Gained
    <3> QED
      BY <3>1, <3>3
  <2>3. CASE g \notin m.marked /\ h.kind[g] \in {"NOT", "AND", "OR"}
    <3>1. c < g /\ c \in Children(h, g) /\ c \in Live(h)
      BY <2>3, LayeredFacts
    <3>2. Gained(h, true, c, m, one)
      BY <1>2, <3>1
    <3>3. one \in Marks(h) /\ m.marked \subseteq one.marked /\ Right(h, true, one)
      BY <3>2 DEF Gained
    <3>4. first <=> true \in Table(h, c)
      BY <3>2 DEF Gained
    <3>5. \A S \in SUBSET Live(h) :
            g \in S /\ Follows(h, one, S) => one.marked \subseteq m.marked \cup S
      BY <3>1, <3>2, MarkedBelow
    <3>6. Arity(h.kind[g]) # 0
      BY <2>3, LayeredFacts
    <3>7. first \in BOOLEAN /\ second \in BOOLEAN
      BY ValueIsBoolean
    <3> HIDE DEF first, second, one, two, c, d
    <3>8. CASE h.kind[g] = "NOT"
      <4>1. ~first <=> true \in Table(h, g)
        BY <3>4, <3>8, ValueFacts DEF c
      <4>2. Gained(h, true, g, m, Store(one, g, ~first))
        BY <2>3, <3>3, <3>5, <3>7, <4>1, StoreGains
      <4> QED
        BY <2>1, <2>3, <3>6, <3>8, <4>2
    <3>9. CASE h.kind[g] \in {"AND", "OR"} /\ ~Undecided(h.kind[g], first)
      <4>1. first <=> true \in Table(h, g)
        BY <3>4, <3>9, ValueFacts DEF c, Undecided
      <4>2. Gained(h, true, g, m, Store(one, g, first))
        BY <2>3, <3>3, <3>5, <3>7, <4>1, StoreGains
      <4> QED
        BY <2>1, <2>3, <3>6, <3>9, <4>2
    <3>10. CASE h.kind[g] \in {"AND", "OR"} /\ Undecided(h.kind[g], first)
      <4>1. d < g /\ d \in Children(h, g) /\ d \in Live(h)
        BY <3>10, LayeredFacts DEF d
      <4>2. Gained(h, true, d, one, two)
        BY <1>2, <3>3, <4>1 DEF two
      <4>3. /\ two \in Marks(h) /\ m.marked \subseteq two.marked /\ Right(h, true, two)
            /\ one.marked \subseteq two.marked
        BY <3>3, <4>2 DEF Gained
      <4>4. second <=> true \in Table(h, d)
        BY <4>2 DEF Gained, second
      <4>5. second <=> true \in Table(h, g)
        BY <3>4, <3>10, <4>4, ValueFacts DEF c, d, Undecided
      <4>6. ASSUME NEW S \in SUBSET Live(h), g \in S, Follows(h, two, S)
            PROVE  two.marked \subseteq m.marked \cup S
        <5>1. two.marked \subseteq one.marked \cup S
          BY <4>1, <4>2, <4>6, MarkedBelow
        <5>2. one.marked \subseteq m.marked \cup S
          BY <3>1, <3>2, <4>3, <4>6, MarkedBelow
        <5> QED
          BY <5>1, <5>2
      <4>7. Gained(h, true, g, m, Store(two, g, second))
        BY <2>3, <3>7, <4>3, <4>5, <4>6, StoreGains
      <4> QED
        BY <2>1, <2>3, <3>6, <3>10, <4>7
    <3> QED
      BY <2>3, <3>8, <3>9, <3>10
  <2> QED
    BY <2>2, <2>3, LayeredFacts
<1>3. ASSUME NEW g \in 1 .. h.next, 1 .. g - 1 \subseteq Good
      PROVE  g \in Good
  <2>1. \A x \in Live(h) : x < g => x \in 1 .. g - 1
    BY <1>1
  <2>2. \A x \in Live(h) : x < g => Gains(x)
    BY <1>3, <2>1
  <2> HIDE DEF Gains
  <2>3. g \in Live(h) => Gains(g)
    BY <1>2, <2>2 DEF Gains
  <2> QED
    BY <2>3
<1> HIDE DEF Good
<1>4. 1 .. h.next \subseteq Good
  BY <1>1, <1>3, FromBelow
<1> QED
  BY <1>1, <1>4 DEF Good, E

\* getOutputValue: the value is right and no mark is left.
LEMMA EvaluatedAndReset ==
  ASSUME NEW h, Layered(h), NEW true \in Valuation, NEW g \in Live(h),
         NEW m \in Marks(h), m.marked = {}
  PROVE  LET n == Evaluate(h, true)[g][m] IN
         /\ ValueOf(h, true, n, g) <=> true \in Table(h, g)
         /\ ResetFlagRecursive(h, n, g) \in Marks(h)
         /\ ResetFlagRecursive(h, n, g).marked = {}
<1> DEFINE n == Evaluate(h, true)[g][m]
           r == ResetFlagRecursive(h, n, g)
<1>1. Gained(h, true, g, m, n)
  BY EvaluateGains DEF Right
<1> HIDE DEF n
<1>2. n \in [marked : SUBSET Live(h), value : SUBSET Live(h)]
  BY <1>1 DEF Gained, Marks
<1>3. r = [n EXCEPT !.marked = n.marked \ (Through(h, n, g) \cup {g})]
  BY DEF ResetFlagRecursive
<1>4. r \in Marks(h) /\ r.marked = n.marked \ (Through(h, n, g) \cup {g})
  BY <1>2, <1>3 DEF Marks
<1>5. ASSUME NEW x \in n.marked, x # g
      PROVE  x \in Through(h, n, g)
  <2> SUFFICES ASSUME NEW S \in SUBSET n.marked,
                      \A y \in S \cup {g} : Children(h, y) \cap n.marked \subseteq S
               PROVE  x \in S
    BY DEF Through
  <2>1. S \cup {g} \in SUBSET Live(h) /\ g \in S \cup {g} /\ Follows(h, n, S \cup {g})
    BY <1>2 DEF Follows
  <2>2. n.marked \subseteq m.marked \cup (S \cup {g})
    BY <1>1, <2>1 DEF Gained
  <2> QED
    BY <1>5, <2>2
<1> QED
  BY <1>1, <1>4, <1>5 DEF Gained, n

-----------------------------------------------------------------------------
\* What is built is layered.

\* A circuit's gates besides its inputs, each above the ones before.
GoodNetlist(netlist) ==
  /\ Len(netlist) \in Nat
  /\ \A n \in 1 .. Len(netlist) : GateAbove(netlist[n], 1 .. NumOfInputs + n - 1)

LEMMA BuildLayered ==
  ASSUME NEW netlist, GoodNetlist(netlist)
  PROVE  Layered(Build(netlist)) /\ Live(Build(netlist)) = 1 .. NumOfInputs + Len(netlist)
<1> DEFINE h == InputsOnly
<1>1. HeapRecord(h) /\ Layered(h) /\ Live(h) = 1 .. NumOfInputs /\ h.next = NumOfInputs + 1
  BY InputsOnlyFacts DEF InputGate
<1>2. Build(netlist) = AddGates(h, netlist)
  BY DEF Build
<1> HIDE DEF h
<1>3. NumOfInputs \in Nat /\ Len(netlist) \in Nat
  BY SizeAssumption DEF GoodNetlist
<1>4. \A n \in 1 .. Len(netlist) :
        Live(h) \cup h.next .. h.next + n - 2 = 1 .. NumOfInputs + n - 1
  BY <1>1, <1>3
<1>5. NetlistAbove(netlist, h)
  BY <1>4 DEF GoodNetlist, NetlistAbove
<1>6. Grown(h, AddGates(h, netlist), Len(netlist), netlist)
  BY <1>1, <1>5, AddGatesFacts
<1>7. Live(h) \cup h.next .. h.next + Len(netlist) - 1 = 1 .. NumOfInputs + Len(netlist)
  BY <1>1, <1>3
<1> QED
  BY <1>2, <1>6, <1>7 DEF Grown

-----------------------------------------------------------------------------
\* Counting.

LEMMA AllBeforeLast ==
  ASSUME NEW a \in Valuation
  PROVE  NotAfter(a, InputGate)
<1>1. InputGate = 1 .. NumOfInputs /\ NumOfInputs \in Nat /\ a \subseteq InputGate
  BY SizeAssumption DEF InputGate, Valuation
<1>2. CASE InputGate \ a = {}
  BY <1>1, <1>2 DEF NotAfter
<1>3. CASE InputGate \ a # {}
  <2>1. PICK k \in InputGate \ a : \A j \in InputGate \ a : ~ (k < j)
    BY <1>1, <1>3, Greatest
  <2>2. \A j \in InputGate : j > k => (j \in a <=> j \in InputGate)
    BY <1>1, <2>1
  <2> QED
    BY <2>1, <2>2 DEF NotAfter
<1> QED
  BY <1>2, <1>3

\* No assignment is between two that are tested one after the other: the first
\* has the inputs up to i set, the second the next one instead.
LEMMA NextNumber ==
  ASSUME NEW b \in Valuation, NEW i \in Nat, i + 1 \in InputGate, i + 1 \notin b,
         b \cap 1 .. i = {}, NEW a \in Valuation, NotAfter(a, b \cup {i + 1})
  PROVE  a = b \cup {i + 1} \/ NotAfter(a, b \cup 1 .. i)
<1> DEFINE c == b \cup 1 .. i
<1>1. InputGate = 1 .. NumOfInputs /\ NumOfInputs \in Nat /\ a \subseteq InputGate /\ b \subseteq InputGate
  BY SizeAssumption DEF InputGate, Valuation
<1> SUFFICES ASSUME a # b \cup {i + 1} PROVE NotAfter(a, c)
  OBVIOUS
<1>2. PICK k \in (b \cup {i + 1}) \ a :
        \A j \in InputGate : j > k => (j \in a <=> j \in b \cup {i + 1})
  BY DEF NotAfter
<1>3. CASE k # i + 1
  <2>1. k \in b /\ k > i + 1
    BY <1>1, <1>2, <1>3
  <2>2. \A j \in InputGate : j > k => (j \in a <=> j \in c)
    BY <1>1, <1>2, <2>1
  <2> QED
    BY <1>2, <2>1, <2>2 DEF NotAfter
<1>4. CASE k = i + 1
  <2>1. \A j \in InputGate : j > i => (j \in a <=> j \in c)
    BY <1>1, <1>2, <1>4
  <2>2. CASE 1 .. i \ a = {}
    <3>1. \A j \in InputGate : j \in a <=> j \in c
      BY <1>1, <2>1, <2>2
    <3>2. c \subseteq InputGate
      BY <1>1
    <3>3. a = c
      BY <1>1, <3>1, <3>2
    <3> QED
      BY <3>3 DEF NotAfter
  <2>3. CASE 1 .. i \ a # {}
    <3>1. PICK l \in 1 .. i \ a : \A j \in 1 .. i \ a : ~ (l < j)
      BY <2>3, Greatest
    <3>2. \A j \in InputGate : j > l => (j \in a <=> j \in c)
      BY <1>1, <2>1, <3>1
    <3> QED
      BY <3>1, <3>2 DEF NotAfter
  <2> QED
    BY <2>2, <2>3
<1> QED
  BY <1>3, <1>4

-----------------------------------------------------------------------------
\* The comparison.

\* One test of the two outputs.
LEMMA TestFacts ==
  ASSUME NEW in \in [Side -> Valuation], in["this"] = in["other"], Test(in),
         \A s \in Side : /\ Layered(heap[s]) /\ output[s] \in Live(heap[s])
                         /\ cache[s] \in Marks(heap[s]) /\ cache[s].marked = {}
  PROVE  /\ on' = in
         /\ \A s \in Side : cache'[s] \in Marks(heap[s]) /\ cache'[s].marked = {}
         /\ \/ result' = "same" /\ Agree(in["this"])
            \/ result' = "FALSE" /\ ~Agree(in["this"])
<1> DEFINE n(s) == Evaluate(heap[s], in[s])[output[s]][cache[s]]
           value(s) == ValueOf(heap[s], in[s], n(s), output[s])
           r(s) == ResetFlagRecursive(heap[s], n(s), output[s])
<1>1. ASSUME NEW s \in Side
      PROVE  /\ value(s) <=> in[s] \in Table(heap[s], output[s])
             /\ r(s) \in Marks(heap[s]) /\ r(s).marked = {}
  BY EvaluatedAndReset
<1>2. value("this") \in BOOLEAN /\ value("other") \in BOOLEAN
  BY ValueIsBoolean
<1>3. cache' = [s \in Side |-> r(s)] /\ on' = in
  BY DEF Test
<1>4. result' = IF value("this") # value("other") THEN "FALSE" ELSE "same"
  BY DEF Test, Side
<1> HIDE DEF value, r
<1>5. (value("this") <=> value("other")) <=> Agree(in["this"])
  BY <1>1 DEF Agree, Side
<1>6. result' = IF value("this") <=> value("other") THEN "same" ELSE "FALSE"
  BY <1>2, <1>4
<1> QED
  BY <1>1, <1>3, <1>5, <1>6

\* The circuits stay as they are while they are compared.
LEMMA TestKeeps ==
  ASSUME CompareInv, result # "none", UNCHANGED <<heap, output>>,
         NEW in \in [Side -> Valuation], in["this"] = in["other"], Test(in),
         index' = 0,
         \A a \in Valuation : NotAfter(a, in["this"]) => a = in["this"] \/ Agree(a)
  PROVE  CompareInv'
<1>1. /\ on' = in
      /\ \A s \in Side : cache'[s] \in Marks(heap[s]) /\ cache'[s].marked = {}
      /\ \/ result' = "same" /\ Agree(in["this"])
         \/ result' = "FALSE" /\ ~Agree(in["this"])
  BY TestFacts DEF CompareInv
<1>2. \A a : Agree(a)' <=> Agree(a)
  BY DEF Agree
<1>3. \A s \in Side : Layered(heap'[s]) /\ output'[s] \in Live(heap'[s])
  BY DEF CompareInv
<1>4. LastTested' = in["this"] /\ on'["this"] \cap 1 .. index' = {} /\ index' \in 0 .. NumOfInputs
  BY <1>1, SizeAssumption DEF LastTested
<1>5. CASE result' = "same" /\ Agree(in["this"])
  <2>1. \A a \in Valuation : NotAfter(a, LastTested') => Agree(a)'
    BY <1>2, <1>4, <1>5
  <2> QED
    BY <1>1, <1>3, <1>4, <1>5, <2>1 DEF CompareInv
<1>6. CASE result' = "FALSE" /\ ~Agree(in["this"])
  <2>1. ~(Agree(on["this"])')
    BY <1>1, <1>6 DEF Agree
  <2> QED
    BY <1>1, <1>3, <1>4, <1>6, <2>1 DEF CompareInv
<1> QED
  BY <1>1, <1>5, <1>6

LEMMA StartKeeps == CompareInv /\ Start => CompareInv'
<1> SUFFICES ASSUME CompareInv, Start PROVE CompareInv'
  OBVIOUS
<1> DEFINE in == [s \in Side |-> {}]
<1>1. /\ in \in [Side -> Valuation] /\ in["this"] = in["other"] /\ in["this"] = {}
  BY DEF Valuation, Side
<1>2. \A a \in Valuation : NotAfter(a, {}) => a = {}
  BY DEF NotAfter
<1>3. Test(in) /\ UNCHANGED <<heap, output>> /\ index' = 0 /\ result # "none"
  BY DEF Start, CompareInv
<1> HIDE DEF in
<1> QED
  BY <1>1, <1>2, <1>3, TestKeeps

LEMMA CarryKeeps == CompareInv /\ Carry => CompareInv'
<1> SUFFICES ASSUME CompareInv, Carry PROVE CompareInv'
  OBVIOUS
<1>1. /\ result = "same" /\ index < NumOfInputs /\ index + 1 \in on["this"]
      /\ on' = [s \in Side |-> on[s] \ {index + 1}] /\ index' = index + 1
      /\ UNCHANGED <<heap, output, cache, result>>
  BY DEF Carry, Counting, bit
<1>2. /\ on \in [Side -> Valuation] /\ index \in Nat /\ NumOfInputs \in Nat
      /\ on["this"] = on["other"] /\ on["this"] \cap 1 .. index = {}
  BY <1>1, SizeAssumption DEF CompareInv
<1>3. on' \in [Side -> Valuation] /\ on'["this"] = on'["other"] /\ on'["this"] = on["this"] \ {index + 1}
  BY <1>1, <1>2 DEF Valuation, Side
<1>4. LastTested' = LastTested
  BY <1>1, <1>2, <1>3 DEF LastTested
<1>5. on'["this"] \cap 1 .. index' = {}
  BY <1>1, <1>2, <1>3
<1>6. \A a : Agree(a)' <=> Agree(a)
  BY <1>1 DEF Agree
<1>7. \A a \in Valuation : NotAfter(a, LastTested') => Agree(a)'
  BY <1>1, <1>4, <1>6 DEF CompareInv
<1>8. /\ \A s \in Side : Layered(heap'[s]) /\ output'[s] \in Live(heap'[s])
      /\ \A s \in Side : cache'[s] \in Marks(heap'[s]) /\ cache'[s].marked = {}
  BY <1>1 DEF CompareInv
<1> QED
  BY <1>1, <1>2, <1>3, <1>5, <1>7, <1>8 DEF CompareInv

LEMMA AdvanceKeeps == CompareInv /\ Advance => CompareInv'
<1> SUFFICES ASSUME CompareInv, Advance PROVE CompareInv'
  OBVIOUS
<1> DEFINE in == [s \in Side |-> on[s] \cup {index + 1}]
<1>1. /\ result = "same" /\ index < NumOfInputs /\ index + 1 \notin on["this"]
      /\ Test(in) /\ index' = 0 /\ UNCHANGED <<heap, output>>
  BY DEF Advance, Counting, bit, Lowest
<1>2. /\ on \in [Side -> Valuation] /\ index \in Nat /\ NumOfInputs \in Nat
      /\ on["this"] = on["other"] /\ on["this"] \cap 1 .. index = {}
  BY <1>1, SizeAssumption DEF CompareInv
<1>3. index + 1 \in InputGate
  BY <1>1, <1>2 DEF InputGate
<1>4. /\ in \in [Side -> Valuation] /\ in["this"] = in["other"]
      /\ in["this"] = on["this"] \cup {index + 1}
  BY <1>2, <1>3 DEF Valuation, Side
<1>5. ASSUME NEW a \in Valuation, NotAfter(a, in["this"])
      PROVE  a = in["this"] \/ Agree(a)
  <2>1. on["this"] \in Valuation
    BY <1>2 DEF Side
  <2>2. a = in["this"] \/ NotAfter(a, LastTested)
    BY <1>1, <1>2, <1>3, <1>4, <1>5, <2>1, NextNumber DEF LastTested
  <2> QED
    BY <1>1, <2>2 DEF CompareInv
<1> HIDE DEF in
<1> QED
  BY <1>1, <1>4, <1>5, TestKeeps

LEMMA EndKeeps == CompareInv /\ EndCompare => CompareInv'
<1> SUFFICES ASSUME CompareInv, EndCompare PROVE CompareInv'
  OBVIOUS
<1>1. /\ result = "same" /\ index = NumOfInputs /\ result' = "TRUE"
      /\ UNCHANGED <<heap, output, on, cache, index>>
  BY DEF EndCompare
<1>2. \A a : Agree(a)' <=> Agree(a)
  BY <1>1 DEF Agree
<1>3. LastTested' = LastTested
  BY <1>1 DEF LastTested
<1>4. \A a \in Valuation : NotAfter(a, LastTested') => Agree(a)'
  BY <1>1, <1>2, <1>3 DEF CompareInv
<1> QED
  BY <1>1, <1>4 DEF CompareInv

\* The comparison keeps its invariant.
LEMMA CompareKeeps == CompareInv /\ Compare => CompareInv'
  BY StartKeeps, CarryKeeps, AdvanceKeeps, EndKeeps DEF Compare

\* The call, of two circuits as they are built.
LEMMA CallKeeps ==
  ASSUME CompareInv, NEW one, NEW two, NEW out, Call(Build(one), Build(two), out, InputGate),
         GoodNetlist(one), GoodNetlist(two),
         out \in 1 .. NumOfInputs + Len(one), out \in 1 .. NumOfInputs + Len(two)
  PROVE  CompareInv'
<1>1. /\ result = "none" /\ result' = "called"
      /\ heap' = [s \in Side |-> IF s = "this" THEN Build(one) ELSE Build(two)]
      /\ output' = [s \in Side |-> out]
      /\ on' = [on EXCEPT !["this"] = InputGate]
      /\ UNCHANGED <<cache, index>>
  BY DEF Call
<1>2. \A s \in Side : Layered(heap'[s]) /\ output'[s] \in Live(heap'[s])
  BY <1>1, BuildLayered
<1>3. on' \in [Side -> Valuation]
  BY <1>1 DEF CompareInv, Valuation
<1>4. index = 0 /\ cache = [s \in Side |-> Unmarked]
  BY <1>1 DEF CompareInv
<1>5. \A s \in Side : cache'[s] \in Marks(heap'[s]) /\ cache'[s].marked = {}
  BY <1>1, <1>4 DEF Marks, Unmarked
<1> QED
  BY <1>1, <1>2, <1>3, <1>4, <1>5, SizeAssumption DEF CompareInv

\* The answer, at the end.
LEMMA CompareInvExact == CompareInv => ResultExact
<1> SUFFICES ASSUME CompareInv PROVE ResultExact
  OBVIOUS
<1> DEFINE T(s) == Table(heap[s], output[s])
<1>1. CASE result = "TRUE"
  <2>1. LastTested = InputGate
    BY <1>1, SizeAssumption DEF CompareInv, LastTested, InputGate, Valuation, Side
  <2>2. \A a \in Valuation : Agree(a)
    BY <1>1, <2>1, AllBeforeLast DEF CompareInv
  <2>3. \A s \in Side : T(s) \subseteq Valuation
    BY <1>1, TableIsSet DEF CompareInv
  <2>4. T("this") \subseteq Valuation /\ T("other") \subseteq Valuation
    BY <2>3 DEF Side
  <2>5. \A a \in Valuation : a \in T("this") <=> a \in T("other")
    BY <2>2 DEF Agree
  <2> HIDE DEF T
  <2>6. T("this") = T("other")
    BY <2>4, <2>5
  <2> QED
    BY <1>1, <2>6 DEF ResultExact, Same, T
<1>2. CASE result = "FALSE"
  BY <1>2 DEF CompareInv, ResultExact, Same, Agree
<1>3. CASE result \notin {"TRUE", "FALSE"}
  BY <1>3 DEF ResultExact
<1> QED
  BY <1>1, <1>2, <1>3

-----------------------------------------------------------------------------
\* The random circuit and the other one.

\* Constants come first, then the inputs, then the gates, each with one or two
\* inputs.
Shape ==
  /\ leaves - NumOfInputs \in {0, 2}
  /\ \A g \in Gate :
       /\ g <= leaves - NumOfInputs => elements[g].kind \in {"TRUE", "FALSE"}
       /\ leaves - NumOfInputs < g /\ g <= leaves => elements[g].kind = "INPUT"
       /\ leaves < g => /\ elements[g].kind \in {"NOT", "AND", "OR"}
                        /\ \E x, y \in Gate : elements[g].ins = {x, y}

LEMMA InitShape == Init => Shape
<1> SUFFICES ASSUME Init PROVE Shape
  OBVIOUS
<1>1. PICK constants \in {<<>>, Constants} :
        /\ leaves = Len(constants) + NumOfInputs
        /\ elements = constants \o [i \in 1 .. NumOfInputs |-> Leaf("INPUT")]
  BY DEF Init
<1> DEFINE inputs == [i \in 1 .. NumOfInputs |-> Leaf("INPUT")]
           S == {Leaf(kind) : kind \in {"TRUE", "FALSE", "INPUT"}}
<1>2. inputs \in Seq(S) /\ Len(inputs) = NumOfInputs /\ NumOfInputs \in Nat
  BY SizeAssumption
<1>3. constants \in Seq(S) /\ Len(constants) \in {0, 2}
  <2>1. Leaf("TRUE") \in S /\ Leaf("FALSE") \in S
    OBVIOUS
  <2> HIDE DEF S
  <2>2. << Leaf("TRUE"), Leaf("FALSE") >> \in Seq(S) /\ Len(<< Leaf("TRUE"), Leaf("FALSE") >>) = 2
    BY <2>1
  <2>3. <<>> \in Seq(S) /\ Len(<<>>) = 0
    OBVIOUS
  <2> QED
    BY <2>2, <2>3 DEF Constants
<1>4. \A g \in 1 .. Len(constants) : constants[g].kind \in {"TRUE", "FALSE"}
  BY DEF Constants, Leaf
<1>5. \A i \in 1 .. NumOfInputs : inputs[i].kind = "INPUT"
  BY DEF Leaf
<1>6. elements = constants \o inputs
  BY <1>1
<1> HIDE DEF inputs, S
<1>7. /\ Gate = 1 .. leaves
      /\ \A g \in Gate : elements[g] = IF g <= Len(constants) THEN constants[g]
                                        ELSE inputs[g - Len(constants)]
  <2>1. elements \in Seq(S) /\ Len(elements) = Len(constants) + Len(inputs)
    BY <1>2, <1>3, <1>6, ConcatProperties
  <2>2. Gate = 1 .. leaves
    BY <1>1, <1>2, <1>3, <2>1 DEF Gate
  <2>3. \A g \in 1 .. Len(constants) + Len(inputs) :
          elements[g] = IF g <= Len(constants) THEN constants[g]
                        ELSE inputs[g - Len(constants)]
    BY <1>2, <1>3, <1>6, ConcatProperties
  <2> QED
    BY <1>1, <1>2, <1>3, <2>2, <2>3
<1>8. leaves - NumOfInputs = Len(constants)
  BY <1>1, <1>2, <1>3
<1>9. ASSUME NEW g \in Gate
      PROVE  /\ g <= Len(constants) => elements[g].kind \in {"TRUE", "FALSE"}
             /\ Len(constants) < g => elements[g].kind = "INPUT"
             /\ g <= leaves
  <2>1. g \in Nat /\ 1 <= g /\ g <= leaves
    BY <1>1, <1>2, <1>3, <1>7
  <2>2. CASE g <= Len(constants)
    <3>1. g \in 1 .. Len(constants)
      BY <1>3, <2>1, <2>2
    <3> QED
      BY <1>3, <1>4, <1>7, <2>1, <2>2, <3>1
  <2>3. CASE Len(constants) < g
    <3>1. g - Len(constants) \in 1 .. NumOfInputs
      BY <1>1, <1>2, <1>3, <2>1, <2>3
    <3>2. elements[g] = inputs[g - Len(constants)]
      BY <1>3, <1>7, <2>1, <2>3
    <3> QED
      BY <1>3, <1>5, <2>1, <2>3, <3>1, <3>2
  <2> QED
    BY <1>3, <2>1, <2>2, <2>3
<1>10. leaves \in Nat
  BY <1>1, <1>2, <1>3
<1>11. ASSUME NEW g \in Gate PROVE ~ (leaves < g) /\ g \in Nat
  BY <1>7, <1>10
<1> QED
  BY <1>3, <1>8, <1>9, <1>11 DEF Shape

LEMMA PutShape ==
  ASSUME TypeOK, Shape, NEW kind \in {"NOT", "AND", "OR"}, NEW x \in Gate, NEW y \in Gate,
         elements' = Put(kind, {x, y}), leaves' = leaves
  PROVE  Shape'
<1>1. /\ Len(elements) \in Nat /\ leaves \in Nat /\ leaves <= Len(elements)
      /\ Gate = 1 .. Len(elements) /\ Gate' = Gate \cup {Len(elements')}
      /\ Len(elements') = Len(elements) + 1
      /\ \A g \in Gate : elements'[g] = elements[g]
      /\ elements'[Len(elements')] = [kind |-> kind, ins |-> {x, y}]
  BY PutFacts
<1>2. ASSUME NEW g \in Gate
      PROVE  /\ g <= leaves' - NumOfInputs => elements'[g].kind \in {"TRUE", "FALSE"}
             /\ leaves' - NumOfInputs < g /\ g <= leaves' => elements'[g].kind = "INPUT"
             /\ leaves' < g => /\ elements'[g].kind \in {"NOT", "AND", "OR"}
                               /\ \E u, v \in Gate' : elements'[g].ins = {u, v}
  <2>1. elements'[g] = elements[g] /\ Gate \subseteq Gate'
    BY <1>1
  <2>2. /\ g <= leaves - NumOfInputs => elements[g].kind \in {"TRUE", "FALSE"}
        /\ leaves - NumOfInputs < g /\ g <= leaves => elements[g].kind = "INPUT"
        /\ leaves < g => /\ elements[g].kind \in {"NOT", "AND", "OR"}
                         /\ \E u, v \in Gate : elements[g].ins = {u, v}
    BY DEF Shape
  <2> QED
    BY <2>1, <2>2
<1>3. ASSUME NEW g \in Gate', g = Len(elements')
      PROVE  /\ ~ (g <= leaves' - NumOfInputs) /\ ~ (g <= leaves')
             /\ elements'[g].kind \in {"NOT", "AND", "OR"}
             /\ \E u, v \in Gate' : elements'[g].ins = {u, v}
  <2>1. elements'[g] = [kind |-> kind, ins |-> {x, y}] /\ x \in Gate' /\ y \in Gate'
    BY <1>1, <1>3
  <2>2. ~ (g <= leaves - NumOfInputs) /\ ~ (g <= leaves)
    <3> HIDE DEF Gate
    <3>1. Len(elements) \in Nat /\ leaves \in Nat /\ leaves <= Len(elements) /\ g = Len(elements) + 1
      BY <1>1, <1>3
    <3> QED
      BY <3>1, SizeAssumption
  <2> QED
    BY <2>1, <2>2
<1>4. \A g \in Gate' : g \in Gate \/ g = Len(elements')
  BY <1>1
<1>5. leaves' - NumOfInputs \in {0, 2}
  BY DEF Shape
<1>6. ASSUME NEW g \in Gate'
      PROVE  /\ g <= leaves' - NumOfInputs => elements'[g].kind \in {"TRUE", "FALSE"}
             /\ leaves' - NumOfInputs < g /\ g <= leaves' => elements'[g].kind = "INPUT"
             /\ leaves' < g => /\ elements'[g].kind \in {"NOT", "AND", "OR"}
                               /\ \E u, v \in Gate' : elements'[g].ins = {u, v}
  <2>1. CASE g \in Gate
    BY <1>2, <2>1
  <2>2. CASE g = Len(elements')
    BY <1>3, <2>2
  <2> QED
    BY <1>4, <2>1, <2>2
<1> QED
  BY <1>5, <1>6 DEF Shape

LEMMA StutterShape == Shape /\ UNCHANGED vars => Shape'
  BY DEF vars, Shape, Gate

LEMMA NextShape == IInv /\ Shape /\ Next => Shape'
<1> SUFFICES ASSUME IInv, Shape, Next PROVE Shape'
  OBVIOUS
<1>0. TypeOK
  BY DEF IInv
<1>1. CASE Choose
  BY <1>0, <1>1, PutShape DEF Choose
<1>2. CASE Join
  <2>1. PICK p \in Least(ordered) : \E q \in Least(ordered \ {p}) :
          \E kind \in {"AND", "OR"} : elements' = Put(kind, {p[2], q[2]})
    BY <1>2 DEF Join
  <2>2. PICK q \in Least(ordered \ {p}) :
          \E kind \in {"AND", "OR"} : elements' = Put(kind, {p[2], q[2]})
    BY <2>1
  <2>3. p[2] \in Gate /\ q[2] \in Gate
    BY <1>0, <2>1, <2>2 DEF TypeOK, Least
  <2> QED
    BY <1>0, <1>2, <2>2, <2>3, PutShape DEF Join
<1>3. CASE Order \/ Finish \/ Terminated
  BY <1>3 DEF Order, Finish, Terminated, vars, Shape, Gate
<1> QED
  BY <1>1, <1>2, <1>3 DEF Next

\* Numbers in Nat have a least and, when they are two, a greatest.
LEMMA MinMaxOfTwo ==
  ASSUME NEW a \in Nat, NEW b \in Nat
  PROVE  Min({a, b}) \in {a, b} /\ Max({a, b}) \in {a, b}
<1>1. \E x \in {a, b} : \A y \in {a, b} : x <= y
  OBVIOUS
<1>2. \E x \in {a, b} : \A y \in {a, b} : x >= y
  OBVIOUS
<1> QED
  BY <1>1, <1>2 DEF Min, Max

LEMMA MinOfSet ==
  ASSUME NEW n \in Nat, NEW S \in SUBSET (1 .. n), S # {}
  PROVE  Min(S) \in S
<1> DEFINE Above == {k \in 1 .. n : k \notin S}
<1>1. \E x \in S : \A y \in S : x <= y
  <2> SUFFICES ASSUME ~ \E x \in S : \A y \in S : x <= y PROVE FALSE
    OBVIOUS
  <2>1. \A k \in 1 .. n : 1 .. k - 1 \subseteq Above => k \in Above
    OBVIOUS
  <2> HIDE DEF Above
  <2>2. 1 .. n \subseteq Above
    BY <2>1, FromBelow
  <2> QED
    BY <2>2 DEF Above
<1> QED
  BY <1>1 DEF Min

\* The gate of an element comes before the gates above the element.
LEMMA GateOfFacts ==
  ASSUME TypeOK, Shape, NEW e \in Gate
  PROVE  /\ GateOf(e) \in 1 .. Len(elements)
         /\ e <= leaves => GateOf(e) <= leaves
         /\ leaves < e => GateOf(e) = e
<1>1. /\ Gate = 1 .. Len(elements) /\ Len(elements) \in Nat /\ leaves \in Nat
      /\ leaves <= Len(elements) /\ NumOfInputs \in Nat /\ NumOfInputs <= leaves
  <2>1. elements \in Seq([kind : Kind, ins : SUBSET Nat]) /\ leaves \in 1 .. Len(elements)
    BY DEF TypeOK, Kind
  <2>2. leaves - NumOfInputs >= 0
    BY DEF Shape
  <2> QED
    BY <2>1, <2>2, SizeAssumption DEF Gate
<1>2. CASE e <= leaves - NumOfInputs
  <2>1. GateOf(e) = NumOfInputs + e
    BY <1>2 DEF Shape, GateOf, IsConstant
  <2> QED
    BY <1>1, <1>2, <2>1
<1>3. CASE leaves - NumOfInputs < e /\ e <= leaves
  <2>1. GateOf(e) = e - (leaves - NumOfInputs)
    BY <1>3 DEF Shape, GateOf, IsConstant
  <2> QED
    BY <1>1, <1>3, <2>1
<1>4. CASE leaves < e
  <2>1. GateOf(e) = e
    BY <1>4 DEF Shape, GateOf, IsConstant
  <2> QED
    BY <1>1, <1>4, <2>1
<1> QED
  BY <1>1, <1>2, <1>3, <1>4

\* A gate of the list has its inputs before it.
LEMMA GateSpecFacts ==
  ASSUME TypeOK, Shape, NEW e \in Gate, e <= leaves - NumOfInputs \/ leaves < e,
         NEW earlierFirst \in BOOLEAN
  PROVE  /\ leaves < e => GateAbove(GateSpec(e, earlierFirst), 1 .. e - 1)
         /\ ~ (leaves < e) => GateAbove(GateSpec(e, earlierFirst), 1 .. NumOfInputs + e - 1)
<1> DEFINE spec == GateSpec(e, earlierFirst)
<1>1. CASE e <= leaves - NumOfInputs
  <2>1. elements[e].kind \in {"TRUE", "FALSE"}
    BY <1>1 DEF Shape
  <2>2. spec = <<elements[e].kind>>
    BY <2>1 DEF GateSpec, IsConstant
  <2>3. Arity(elements[e].kind) = 0
    BY <2>1 DEF Arity
  <2>4. spec[1] = elements[e].kind /\ spec = [i \in DOMAIN spec |-> spec[i]]
        /\ DOMAIN spec = 1 .. 1
    BY <2>2
  <2> QED
    BY <2>1, <2>3, <2>4 DEF GateAbove
<1>2. CASE leaves < e
  <2>1. /\ elements[e].kind \in {"NOT", "AND", "OR"}
        /\ \E x, y \in Gate : elements[e].ins = {x, y}
    BY <1>2 DEF Shape
  <2>2. PICK x \in Gate, y \in Gate : elements[e].ins = {x, y}
    BY <2>1
  <2>3. /\ Gate = 1 .. Len(elements) /\ Len(elements) \in Nat /\ leaves \in Nat
        /\ x \in 1 .. e - 1 /\ y \in 1 .. e - 1
    BY <2>2 DEF TypeOK, Gate
  <2>4. GateOf(x) \in 1 .. e - 1 /\ GateOf(y) \in 1 .. e - 1
    <3>1. ASSUME NEW z \in 1 .. e - 1
          PROVE  GateOf(z) \in 1 .. e - 1
      <4>1. z \in Gate /\ e \in Nat /\ z \in Nat /\ z < e
        BY <2>3
      <4>2. CASE z <= leaves
        <5>1. GateOf(z) \in 1 .. Len(elements) /\ GateOf(z) <= leaves
          BY <4>1, <4>2, GateOfFacts
        <5> QED
          BY <1>2, <2>3, <4>1, <5>1
      <4>3. CASE leaves < z
        <5>1. GateOf(z) = z
          BY <4>1, <4>3, GateOfFacts
        <5> QED
          BY <5>1
      <4> QED
        BY <2>3, <4>1, <4>2, <4>3
    <3> QED
      BY <2>3, <3>1
  <2> DEFINE ins == {GateOf(z) : z \in elements[e].ins}
             first == IF earlierFirst THEN Min(ins) ELSE Max(ins)
             second == IF earlierFirst THEN Max(ins) ELSE Min(ins)
  <2>5. ins = {GateOf(x), GateOf(y)}
    BY <2>2
  <2>6. first \in 1 .. e - 1 /\ second \in 1 .. e - 1
    <3>1. GateOf(x) \in Nat /\ GateOf(y) \in Nat
      BY <2>4
    <3>2. Min(ins) \in ins /\ Max(ins) \in ins
      BY <2>5, <3>1, MinMaxOfTwo
    <3> HIDE DEF ins
    <3>3. ins \subseteq 1 .. e - 1
      BY <2>4, <2>5
    <3> QED
      BY <3>2, <3>3
  <2>7. /\ elements[e].kind = "NOT" => spec = <<"NOT", first>>
        /\ elements[e].kind # "NOT" => spec = <<elements[e].kind, first, second>>
    BY <2>1 DEF GateSpec, IsConstant
  <2> HIDE DEF first, second, spec
  <2>8. CASE elements[e].kind = "NOT"
    <3>1. spec[1] = "NOT" /\ spec[2] = first /\ DOMAIN spec = 1 .. 2
          /\ spec = [i \in DOMAIN spec |-> spec[i]]
      BY <2>7, <2>8
    <3>2. \A i \in 1 .. 1 : spec[i + 1] \in 1 .. e - 1
      BY <2>6, <3>1
    <3>3. Arity("NOT") = 1
      BY DEF Arity
    <3> QED
      BY <1>2, <3>1, <3>2, <3>3 DEF GateAbove, spec
  <2>9. CASE elements[e].kind # "NOT"
    <3>1. /\ spec[1] = elements[e].kind /\ spec[2] = first /\ spec[3] = second
          /\ spec = [i \in DOMAIN spec |-> spec[i]] /\ DOMAIN spec = 1 .. 3
      BY <2>7, <2>9
    <3>2. \A i \in 1 .. 2 : spec[i + 1] \in 1 .. e - 1
      BY <2>6, <3>1
    <3>3. Arity("AND") = 2 /\ Arity("OR") = 2
      BY DEF Arity
    <3> QED
      BY <1>2, <2>1, <2>9, <3>1, <3>2, <3>3 DEF GateAbove, spec
  <2> QED
    BY <2>8, <2>9
<1> QED
  BY <1>1, <1>2

LEMMA NetlistIsGood ==
  ASSUME TypeOK, Shape, NEW earlierFirst \in BOOLEAN
  PROVE  /\ GoodNetlist(Netlist(earlierFirst))
         /\ Len(Netlist(earlierFirst)) = Len(elements) - NumOfInputs
<1> DEFINE N == Len(elements) - NumOfInputs
           constants == leaves - NumOfInputs
           Made(n) == IF n <= constants THEN n ELSE n + NumOfInputs
           netlist == Netlist(earlierFirst)
<1>1. /\ Gate = 1 .. Len(elements) /\ Len(elements) \in Nat /\ leaves \in Nat
      /\ leaves <= Len(elements) /\ NumOfInputs \in Nat /\ NumOfInputs <= leaves
  <2>1. elements \in Seq([kind : Kind, ins : SUBSET Nat]) /\ leaves \in 1 .. Len(elements)
    BY DEF TypeOK, Kind
  <2>2. leaves - NumOfInputs >= 0
    BY DEF Shape
  <2> QED
    BY <2>1, <2>2, SizeAssumption DEF Gate
<1>2. netlist = [n \in 1 .. N |-> GateSpec(Made(n), earlierFirst)]
  BY DEF Netlist
<1>3. N \in Nat
  BY <1>1
<1>4. Len(netlist) = N
  <2> HIDE DEF N, Made, netlist
  <2>1. netlist \in Seq({GateSpec(Made(n), earlierFirst) : n \in 1 .. N})
    BY <1>2, <1>3
  <2> QED
    BY <1>2, <1>3, <2>1
<1>5. ASSUME NEW n \in 1 .. N
      PROVE  GateAbove(netlist[n], 1 .. NumOfInputs + n - 1)
  <2>1. netlist[n] = GateSpec(Made(n), earlierFirst)
    BY <1>2
  <2>2. CASE n <= constants
    <3>1. n \in Gate /\ ~ (leaves < n)
      BY <1>1, <2>2
    <3>2. GateAbove(GateSpec(n, earlierFirst), 1 .. NumOfInputs + n - 1)
      BY <2>2, <3>1, GateSpecFacts
    <3> QED
      BY <2>1, <2>2, <3>2
  <2>3. CASE constants < n
    <3> DEFINE e == n + NumOfInputs
    <3>1. e \in Gate /\ leaves < e
      BY <1>1, <2>3
    <3>2. GateAbove(GateSpec(e, earlierFirst), 1 .. e - 1)
      <4> HIDE DEF e
      <4> QED
        BY <3>1, GateSpecFacts
    <3>3. Made(n) = e /\ e = NumOfInputs + n
      BY <1>1, <2>3
    <3> HIDE DEF e
    <3>4. GateAbove(netlist[n], 1 .. e - 1)
      BY <2>1, <3>2, <3>3
    <3>5. e - 1 = NumOfInputs + n - 1
      BY <1>1, <1>3, <3>3
    <3> QED
      BY <3>4, <3>5
  <2> QED
    BY <1>1, <2>2, <2>3
<1> QED
  BY <1>3, <1>4, <1>5 DEF GoodNetlist

LEMMA DualOfGate ==
  ASSUME NEW S, NEW spec, GateAbove(spec, S), spec[1] \in {"AND", "OR"}
  PROVE  GateAbove([spec EXCEPT ![1] = Dual(@)], S)
<1> DEFINE dual == [spec EXCEPT ![1] = Dual(spec[1])]
<1>1. Arity("AND") = 2 /\ Arity("OR") = 2 /\ Dual(spec[1]) \in {"AND", "OR"}
  BY DEF Arity, Dual
<1>2. Arity(spec[1]) = 2
  BY <1>1
<1>3. spec = [i \in DOMAIN spec |-> spec[i]] /\ DOMAIN spec = 1 .. Arity(spec[1]) + 1
  BY DEF GateAbove
<1>4. \A i \in 1 .. 2 : spec[i + 1] \in S
  BY <1>2 DEF GateAbove
<1>5. DOMAIN spec = 1 .. 3
  <2>1. DOMAIN spec = 1 .. 2 + 1
    BY <1>2, <1>3
  <2> QED
    BY <2>1
<1>6. dual = [i \in 1 .. 3 |-> IF i = 1 THEN Dual(spec[1]) ELSE spec[i]]
  BY <1>3, <1>5
<1> HIDE DEF dual
<1>7. dual[1] = Dual(spec[1]) /\ dual[2] = spec[2] /\ dual[3] = spec[3] /\ DOMAIN dual = 1 .. 3
  BY <1>6
<1>8. Arity(dual[1]) = 2 /\ dual[1] \in {"AND", "OR"}
  BY <1>1, <1>7
<1>9. \A i \in 1 .. 2 : dual[i + 1] \in S
  <2>1. spec[2] \in S /\ spec[3] \in S
    <3>1. spec[1 + 1] \in S /\ spec[2 + 1] \in S
      BY <1>4
    <3> QED
      BY <3>1
  <2> QED
    BY <1>7, <2>1
<1>10. dual = [i \in DOMAIN dual |-> dual[i]]
  BY <1>6
<1>11. DOMAIN dual = 1 .. Arity(dual[1]) + 1
  BY <1>7, <1>8
<1>12. \A i \in 1 .. Arity(dual[1]) : dual[i + 1] \in S
  BY <1>8, <1>9
<1>13. GateAbove(dual, S)
  BY <1>8, <1>10, <1>11, <1>12 DEF GateAbove
<1> QED
  BY <1>13 DEF dual

LEMMA DualIsGood ==
  ASSUME NEW netlist, GoodNetlist(netlist), DOMAIN netlist = 1 .. Len(netlist),
         NEW other \in DualOfFirst(netlist)
  PROVE  GoodNetlist(other) /\ Len(other) = Len(netlist)
<1> DEFINE bivariate == {n \in DOMAIN netlist : netlist[n][1] \in {"AND", "OR"}}
           m == Min(bivariate)
<1>1. other = [netlist EXCEPT ![m][1] = Dual(@)] /\ bivariate # {}
  BY DEF DualOfFirst
<1>2. Len(netlist) \in Nat
  BY DEF GoodNetlist
<1>3. m \in DOMAIN netlist /\ netlist[m][1] \in {"AND", "OR"}
  <2>1. m \in bivariate
    BY <1>1, <1>2, MinOfSet
  <2> QED
    BY <2>1
<1> HIDE DEF m
<1>4. /\ DOMAIN other = 1 .. Len(netlist)
      /\ \A n \in DOMAIN netlist \ {m} : other[n] = netlist[n]
      /\ other[m] = [netlist[m] EXCEPT ![1] = Dual(@)]
  BY <1>1, <1>3
<1>5. GateAbove(other[m], 1 .. NumOfInputs + m - 1)
  <2>1. GateAbove(netlist[m], 1 .. NumOfInputs + m - 1)
    BY <1>3 DEF GoodNetlist
  <2> DEFINE spec == netlist[m]
             k == 1 .. NumOfInputs + m - 1
  <2>2. GateAbove(spec, k) /\ spec[1] \in {"AND", "OR"} /\ other[m] = [spec EXCEPT ![1] = Dual(@)]
    BY <1>3, <1>4, <2>1
  <2> HIDE DEF spec, k
  <2>3. GateAbove([spec EXCEPT ![1] = Dual(@)], k)
    BY <2>2, DualOfGate
  <2>4. GateAbove(other[m], k)
    BY <2>2, <2>3
  <2> QED
    BY <2>4 DEF k
<1>6. Len(other) = Len(netlist)
  BY <1>2, <1>4
<1> QED
  BY <1>2, <1>4, <1>5, <1>6 DEF GoodNetlist

-----------------------------------------------------------------------------
\* The whole.

CheckedInv == IInv /\ Shape /\ CompareInv

LEMMA OneCompared ==
  ASSUME CheckedInv, CompareWithOther
  PROVE  CompareInv'
<1>1. TypeOK /\ Shape /\ CompareInv /\ phase = "done"
  BY DEF CheckedInv, IInv, CompareWithOther
<1>2. PICK other \in {Netlist(FALSE)} \cup DualOfFirst(Netlist(TRUE)) :
        Call(Build(Netlist(TRUE)), Build(other), Output, InputGate)
  BY DEF CompareWithOther
<1>3. /\ GoodNetlist(Netlist(TRUE)) /\ Len(Netlist(TRUE)) = Len(elements) - NumOfInputs
      /\ DOMAIN Netlist(TRUE) = 1 .. Len(Netlist(TRUE))
  <2>1. GoodNetlist(Netlist(TRUE)) /\ Len(Netlist(TRUE)) = Len(elements) - NumOfInputs
    BY <1>1, NetlistIsGood
  <2>2. DOMAIN Netlist(TRUE) = 1 .. Len(elements) - NumOfInputs
    BY DEF Netlist
  <2> QED
    BY <2>1, <2>2
<1>4. GoodNetlist(other) /\ Len(other) = Len(Netlist(TRUE))
  <2>1. GoodNetlist(Netlist(FALSE)) /\ Len(Netlist(FALSE)) = Len(elements) - NumOfInputs
    BY <1>1, NetlistIsGood
  <2> QED
    BY <1>2, <1>3, <2>1, DualIsGood
<1>5. Output \in 1 .. Len(elements)
  <2>1. ordered # {}
    BY <1>1, FS_EmptySet DEF CheckedInv, IInv, Counted
  <2>2. PICK p \in ordered : p = CHOOSE q \in ordered : TRUE
    BY <2>1
  <2>3. p[2] \in Gate
    BY <1>1 DEF TypeOK
  <2> QED
    BY <1>1, <2>2, <2>3, GateOfFacts DEF Output
<1>6. NumOfInputs + Len(Netlist(TRUE)) = Len(elements)
  <2>1. elements \in Seq([kind : Kind, ins : SUBSET Nat])
    BY <1>1 DEF TypeOK, Kind
  <2>2. Len(elements) \in Nat
    BY <2>1
  <2> DEFINE one == Netlist(TRUE)
  <2>3. Len(one) = Len(elements) - NumOfInputs /\ NumOfInputs \in Nat
    BY <1>3, SizeAssumption
  <2> HIDE DEF one
  <2>4. NumOfInputs + Len(one) = Len(elements)
    BY <2>2, <2>3
  <2> QED
    BY <2>4 DEF one
<1> QED
  BY <1>1, <1>2, <1>3, <1>4, <1>5, <1>6, CallKeeps

\* The circuit stays as it is made, and no value of one test is seen in the
\* next.
THEOREM CheckedInvariance == CheckedSpec => []CheckedInv
<1>1. CheckedInit => CheckedInv
  <2> SUFFICES ASSUME CheckedInit PROVE CheckedInv
    OBVIOUS
  <2>1. IInv /\ Shape
    BY InitIInv, InitShape DEF CheckedInit
  <2>2. CompareInv
    BY SizeAssumption DEF CheckedInit, CompareInit, CompareInv, Marks, Unmarked, Valuation, Side
  <2> QED
    BY <2>1, <2>2 DEF CheckedInv
<1>2. ASSUME CheckedInv, [CheckedNext]_<<vars, compareVars>>
      PROVE  CheckedInv'
  <2>1. UNCHANGED vars => IInv' /\ Shape'
    BY <1>2, StutterIInv, StutterShape DEF CheckedInv
  <2>2. UNCHANGED compareVars => CompareInv'
    BY <1>2 DEF CheckedInv, compareVars, CompareInv, LastTested, Agree
  <2>3. CASE Next /\ UNCHANGED compareVars
    <3>1. IInv'
      BY <1>2, <2>1, <2>3, ChooseIInv, OrderIInv, JoinIInv, FinishIInv
         DEF CheckedInv, Next, Terminated
    <3>2. Shape'
      BY <1>2, <2>3, NextShape DEF CheckedInv
    <3> QED
      BY <2>2, <2>3, <3>1, <3>2 DEF CheckedInv
  <2>4. CASE (CompareWithOther \/ Compare) /\ UNCHANGED vars
    <3>1. CompareInv'
      BY <1>2, <2>4, OneCompared, CompareKeeps DEF CheckedInv
    <3> QED
      BY <2>1, <2>4, <3>1 DEF CheckedInv
  <2>5. CASE UNCHANGED <<vars, compareVars>>
    BY <2>1, <2>2, <2>5 DEF CheckedInv
  <2> QED
    BY <1>2, <2>3, <2>4, <2>5 DEF CheckedNext
<1> QED
  BY <1>1, <1>2, PTL DEF CheckedSpec

\* operator== answers whether the two circuits compute the same function: the
\* counter passes over no assignment, and an evaluation leaves no value
\* behind that the next would take for its own.
THEOREM Exactness == CheckedSpec => []ResultExact
<1>1. CheckedInv => ResultExact
  BY CompareInvExact DEF CheckedInv
<1> QED
  BY CheckedInvariance, <1>1, PTL
=============================================================================
