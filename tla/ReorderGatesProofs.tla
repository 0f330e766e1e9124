------------------------- MODULE ReorderGatesProofs -------------------------
(***************************************************************************)
(* What getMultiTwin builds from any two-input circuit is a network that   *)
(* the conversion may start from: PairExtraction and ConvertToSingle       *)
(* assume of their networks what is proved of MultiTwins here.             *)
(***************************************************************************)
EXTENDS ReorderGates, ConvertToSingleProofs, GateHeapProofs

-----------------------------------------------------------------------------
(* The inputs of a tree.                                                   *)

\* What getMultiInputs collects below the gate g, from what inputs says of
\* its children.
Collected(h, inputs, g) ==
  UNION {IF h.kind[x] = h.kind[g] THEN inputs[x] ELSE {x} : x \in Children(h, g)}

\* The recursion of getMultiInputs has a solution.
LEMMA MultiInputsEquation ==
  ASSUME NEW h, Layered(h)
  PROVE  MultiInputs(h) = [g \in Live(h) |-> Collected(h, MultiInputs(h), g)]
<1> DEFINE L == Live(h)
           V == SUBSET L
           step == [g \in L |-> [t \in [L -> V] |-> Collected(h, t, g)]]
<1>1. h.next \in Nat /\ L \subseteq 1 .. h.next
  BY LayeredFacts
<1>2. ASSUME NEW g \in L
      PROVE  \A x \in Children(h, g) : x \in L /\ x < g
  BY DEF Layered
<1>3. ASSUME NEW g \in L, NEW t \in [L -> V]
      PROVE  Collected(h, t, g) \in V
  <2>1. \A x \in Children(h, g) : t[x] \subseteq L /\ {x} \subseteq L
    BY <1>2
  <2> QED
    BY <2>1 DEF Collected
<1>4. step \in [L -> [[L -> V] -> V]]
  BY <1>3
<1>5. ASSUME NEW g \in L, NEW t \in [L -> V], NEW u \in [L -> V],
             \A x \in L : x < g => t[x] = u[x]
      PROVE  Collected(h, t, g) = Collected(h, u, g)
  <2>1. \A x \in Children(h, g) : t[x] = u[x]
    BY <1>2, <1>5
  <2> QED
    BY <2>1 DEF Collected
<1>6. \A g \in L : \A t \in [L -> V] : step[g][t] = Collected(h, t, g)
  OBVIOUS
<1>7. V # {}
  OBVIOUS
<1> HIDE DEF step
<1>8. StepsUp(step, h.next, L, V)
  <2>1. \A g \in L : \A t, u \in [L -> V] :
          (\A x \in L : x < g => t[x] = u[x]) => step[g][t] = step[g][u]
    BY <1>5, <1>6
  <2> HIDE DEF V, L
  <2> QED
    BY <1>1, <1>4, <1>7, <2>1 DEF StepsUp
<1> HIDE DEF V, L
<1>9. PICK f \in [L -> V] : \A g \in L : f[g] = step[g][f]
  BY <1>8, RecursionFromBelow
<1>10. f = [g \in L |-> Collected(h, f, g)]
  BY <1>6, <1>9
<1> DEFINE T == CHOOSE t : t = [g \in L |-> Collected(h, t, g)]
<1>11. T = [g \in L |-> Collected(h, T, g)]
  BY <1>10
<1>12. MultiInputs(h) = T
  BY DEF MultiInputs, Collected, L
<1> QED
  BY <1>11, <1>12 DEF L

\* A multi-gate's inputs are older gates, at least one, and it combines them
\* to what the tree of two-input gates computes.
Combines(h, g) ==
  LET inputs == MultiInputs(h)[g] IN
  /\ inputs \subseteq Live(h) /\ \A x \in inputs : x < g
  /\ Bivariate(h, g) =>
       inputs # {} /\ Table(h, g) = Combine(TwinType(h.kind[g]), {Table(h, x) : x \in inputs})

\* AND and OR are associative.
LEMMA CombineOfUnion ==
  ASSUME NEW S, NEW T, \A s \in S \cup T : s \subseteq Assignment
  PROVE  /\ Combine("MULTI_AND", S \cup T) = Combine("MULTI_AND", S) \cap Combine("MULTI_AND", T)
         /\ Combine("MULTI_OR", S \cup T) = Combine("MULTI_OR", S) \cup Combine("MULTI_OR", T)
<1>1. Combine("MULTI_AND", S \cup T) = Combine("MULTI_AND", S) \cap Combine("MULTI_AND", T)
  BY DEF Combine
<1>2. Combine("MULTI_OR", S \cup T) = Combine("MULTI_OR", S) \cup Combine("MULTI_OR", T)
  BY DEF Combine
<1> QED
  BY <1>1, <1>2

LEMMA CombineOfOne ==
  ASSUME NEW s \in SUBSET Assignment, NEW type
  PROVE  Combine(type, {s}) = s
BY DEF Combine

LEMMA MultiInputsFacts ==
  ASSUME NEW h, Layered(h)
  PROVE  \A g \in Live(h) : Combines(h, g)
<1> DEFINE inputs == MultiInputs(h)
           Good == {g \in 1 .. h.next : g \in Live(h) => Combines(h, g)}
<1>1. h.next \in Nat /\ Live(h) \subseteq 1 .. h.next /\ Live(h) \subseteq Nat
  BY LayeredFacts
<1>2. ASSUME NEW g \in 1 .. h.next, 1 .. g - 1 \subseteq Good, g \in Live(h)
      PROVE  Combines(h, g)
  <2> DEFINE Part(x) == IF h.kind[x] = h.kind[g] THEN inputs[x] ELSE {x}
             type == TwinType(h.kind[g])
             Of(S) == {Table(h, x) : x \in S}
  <2>1. inputs[g] = UNION {Part(x) : x \in Children(h, g)}
    BY <1>2, MultiInputsEquation DEF Collected
  <2>2. ASSUME NEW x \in Children(h, g)
        PROVE  x \in Live(h) /\ x < g /\ Combines(h, x)
    <3>1. x \in Live(h) /\ x \in 1 .. g - 1
      BY <1>2 DEF Layered
    <3> QED
      BY <1>1, <1>2, <3>1
  <2>3. ASSUME NEW x \in Children(h, g)
        PROVE  /\ Part(x) \subseteq Live(h) /\ \A y \in Part(x) : y < g
               /\ Bivariate(h, g) => Part(x) # {} /\ Table(h, x) = Combine(type, Of(Part(x)))
    <3>1. CASE h.kind[x] = h.kind[g]
      <4>1. Part(x) = inputs[x] /\ (Bivariate(h, g) => Bivariate(h, x))
        BY <3>1 DEF Bivariate
      <4>2. Part(x) \subseteq Live(h) /\ \A y \in Part(x) : y < x
        BY <2>2, <4>1 DEF Combines
      <4>3. \A y \in Part(x) : y < g
        BY <1>1, <1>2, <2>2, <4>2
      <4>4. Bivariate(h, g) => Part(x) # {} /\ Table(h, x) = Combine(type, Of(Part(x)))
        BY <2>2, <3>1, <4>1 DEF Combines
      <4> QED
        BY <4>2, <4>3, <4>4
    <3>2. CASE h.kind[x] # h.kind[g]
      <4>1. Part(x) = {x} /\ Of(Part(x)) = {Table(h, x)}
        BY <3>2
      <4>2. Table(h, x) \in SUBSET Assignment
        BY <2>2, TableIsSet, NamesAssumption
      <4> HIDE DEF Part, Of
      <4> QED
        BY <2>2, <4>1, <4>2, CombineOfOne
    <3> QED
      BY <3>1, <3>2
  <2> HIDE DEF Part
  <2>4. inputs[g] \subseteq Live(h) /\ \A x \in inputs[g] : x < g
    BY <2>1, <2>3
  <2>5. CASE Bivariate(h, g)
    <3> DEFINE a == h.in[g][1]
               b == h.in[g][2]
    <3>1. Children(h, g) = {a, b} /\ h.kind[g] \in {"AND", "OR"}
      BY <1>2, <2>5, LayeredFacts DEF Bivariate
    <3>2. inputs[g] = Part(a) \cup Part(b)
      BY <2>1, <3>1
    <3>3. /\ Part(a) # {} /\ Table(h, a) = Combine(type, Of(Part(a)))
          /\ Part(b) # {} /\ Table(h, b) = Combine(type, Of(Part(b)))
          /\ Part(a) \subseteq Live(h) /\ Part(b) \subseteq Live(h)
      BY <2>3, <2>5, <3>1
    <3>4. Of(inputs[g]) = Of(Part(a)) \cup Of(Part(b))
      BY <3>2
    <3>5. \A s \in Of(Part(a)) \cup Of(Part(b)) : s \subseteq Assignment
      BY <3>3, TableIsSet, NamesAssumption
    <3>6. /\ h.kind[g] = "AND" => Table(h, g) = Table(h, a) \cap Table(h, b)
          /\ h.kind[g] = "OR" => Table(h, g) = Table(h, a) \cup Table(h, b)
      BY <1>2, TableOf
    <3> DEFINE A == Of(Part(a))
               B == Of(Part(b))
    <3>7. Table(h, g) = Combine(type, Of(inputs[g]))
      <4>1. /\ Combine("MULTI_AND", A \cup B) = Combine("MULTI_AND", A) \cap Combine("MULTI_AND", B)
            /\ Combine("MULTI_OR", A \cup B) = Combine("MULTI_OR", A) \cup Combine("MULTI_OR", B)
        <5> HIDE DEF Of
        <5>1. \A s \in A \cup B : s \subseteq Assignment
          BY <3>5
        <5> HIDE DEF A, B
        <5> QED
          BY <5>1, CombineOfUnion
      <4>2. Of(inputs[g]) = A \cup B /\ Table(h, a) = Combine(type, A) /\ Table(h, b) = Combine(type, B)
        BY <3>3, <3>4
      <4> HIDE DEF Of, a, b, inputs, A, B
      <4>3. CASE h.kind[g] = "AND"
        <5>1. type = "MULTI_AND"
          BY <4>3 DEF TwinType
        <5> HIDE DEF type
        <5> QED
          BY <3>6, <4>1, <4>2, <4>3, <5>1
      <4>4. CASE h.kind[g] = "OR"
        <5>1. type = "MULTI_OR"
          BY <4>4 DEF TwinType
        <5> HIDE DEF type
        <5> QED
          BY <3>6, <4>1, <4>2, <4>4, <5>1
      <4> QED
        BY <3>1, <4>3, <4>4
    <3> QED
      BY <2>4, <3>2, <3>3, <3>7 DEF Combines
  <2> QED
    BY <2>4, <2>5 DEF Combines
<1>3. \A g \in 1 .. h.next : 1 .. g - 1 \subseteq Good => g \in Good
  BY <1>2
<1>4. 1 .. h.next \subseteq Good
  <2> HIDE DEF Good
  <2> QED
    BY <1>1, <1>3, FromBelow
<1> QED
  BY <1>1, <1>4

\* getMultiTwin is called on the output, and on the inputs of the
\* multi-gates it makes.
LEMMA VisitedFacts ==
  ASSUME NEW h, Layered(h), NEW out \in Live(h)
  PROVE  /\ out \in Visited(h, out) /\ Visited(h, out) \subseteq Live(h)
         /\ \A g \in Visited(h, out) : Bivariate(h, g) => MultiInputs(h)[g] \subseteq Visited(h, out)
<1> DEFINE L == Live(h)
           next == [x \in L |-> IF Bivariate(h, x) THEN MultiInputs(h)[x] ELSE {}]
<1>1. \A x \in L : MultiInputs(h)[x] \subseteq L
  BY MultiInputsFacts DEF Combines
<1>2. next \in [L -> SUBSET L]
  BY <1>1
<1>3. \A x \in L : Bivariate(h, x) => next[x] = MultiInputs(h)[x]
  OBVIOUS
<1>4. IsFiniteSet(L) /\ {out} \in SUBSET L
  BY LiveIsFinite
<1>5. Visited(h, out) = Closure(next, {out})
  BY DEF Visited
<1>6. DOMAIN next = L
  OBVIOUS
<1> HIDE DEF L, next
<1>7. /\ {out} \subseteq Closure(next, {out}) /\ Closure(next, {out}) \subseteq L
      /\ Closed(next, Closure(next, {out}))
  BY <1>2, <1>4, ClosureFacts
<1>8. \A g \in Visited(h, out) : next[g] \subseteq Visited(h, out)
  BY <1>5, <1>6, <1>7 DEF Closed
<1> QED
  BY <1>3, <1>5, <1>7, <1>8 DEF L

-----------------------------------------------------------------------------
(* The network.                                                            *)

\* Among numbers there is a least one.
LEMMA LeastNumber ==
  ASSUME NEW S \in SUBSET Nat, S # {}
  PROVE  \E x \in S : \A y \in S : x <= y
<1>1. PICK x \in S : \A y \in S : <<y, x>> \notin OpToRel(<, Nat)
  BY NatLessThanWellFounded, WFMin
<1>2. \A y \in S : ~ (y < x)
  BY <1>1, Zenon DEF OpToRel
<1> QED
  BY <1>2

\* For every two-input circuit and every order of addresses, getMultiTwin
\* builds a network as convertToSingleOptimized needs it: the multi-gates
\* compute what their inputs give them, no gates use each other in a circle,
\* and at the output is the function of the circuit.
THEOREM TwinsAreNetworks ==
  \A netlist \in Circuits, address \in Addresses :
    LET h == Build(netlist)
        net == MultiNetwork(h, OutputOf(h), address)
    IN  /\ WellFormed(net) /\ IsCircuit(net)
        /\ net.table[net.output] = Table(h, OutputOf(h))
<1> SUFFICES ASSUME NEW netlist \in Circuits, NEW address \in Addresses
             PROVE  LET h == Build(netlist)
                        net == MultiNetwork(h, OutputOf(h), address)
                    IN  /\ WellFormed(net) /\ IsCircuit(net)
                        /\ net.table[net.output] = Table(h, OutputOf(h))
  OBVIOUS
<1> DEFINE h == Build(netlist)
           out == OutputOf(h)
           net == MultiNetwork(h, out, address)
           V == Visited(h, out)
           G == {g \in V : Bivariate(h, g)}
           T(g) == MultiTwin(h, g)
           Lists == {T(g) : g \in G}
           Twins == {T(g) : g \in V}
           Ins(g) == {T(y) : y \in MultiInputs(h)[g]}
<1>1. Layered(h) /\ out \in Live(h)
  BY CircuitsAssumption, BuiltFacts DEF OutputOf
<1>2. /\ Assignment = Valuation /\ \A t \in Gate : Kind[t] = t[1]
      /\ \A g \in Live(h) : T(g) \in Gate
  BY NamesAssumption
<1>3. /\ \A g \in Live(h) : address[g] \in 1 .. Cardinality(Gate)
      /\ \A g, x \in Live(h) : address[g] = address[x] => g = x
  BY AddressesAssumption
<1>4. \A g : T(g)[1] = TwinType(h.kind[g]) /\ T(g)[2] = g
  BY DEF MultiTwin
<1>5. /\ net.inputIndex = [t \in Lists |-> [x \in Ins(t[2]) |-> address[x[2]]]]
      /\ net.table = [t \in Twins |-> Table(h, t[2])] /\ net.output = T(out)
  BY DEF MultiNetwork
<1> HIDE DEF h, net, out, T
<1>6. out \in V /\ V \subseteq Live(h) /\ \A g \in G : MultiInputs(h)[g] \subseteq V
  BY <1>1, VisitedFacts
<1>7. \A g \in Live(h) : Combines(h, g)
  BY <1>1, MultiInputsFacts
<1> HIDE DEF V
<1>8. ASSUME NEW g \in V
      PROVE  T(g) \in Gate /\ (T(g) \in MultiGate <=> g \in G)
  <2>1. h.kind[g] \in {"INPUT", "TRUE", "FALSE", "NOT", "AND", "OR"}
    BY <1>1, <1>6, LayeredFacts
  <2>2. TwinType(h.kind[g]) \in MultiType <=> h.kind[g] \in {"AND", "OR"}
    BY <2>1 DEF TwinType, MultiType
  <2>3. T(g) \in Gate /\ Kind[T(g)] = TwinType(h.kind[g])
    BY <1>2, <1>4, <1>6
  <2> QED
    BY <2>2, <2>3 DEF MultiGate, Bivariate
<1>9. ASSUME NEW g \in G
      PROVE  /\ Ins(g) \subseteq Twins /\ Ins(g) # {}
             /\ net.inputIndex[T(g)] = [x \in Ins(g) |-> address[x[2]]]
             /\ \A x \in Ins(g) : /\ x[2] \in Live(h) /\ x = T(x[2]) /\ x[2] < g
                                  /\ net.table[x] = Table(h, x[2])
  <2>1. g \in V /\ g \in Live(h) /\ MultiInputs(h)[g] \subseteq V /\ MultiInputs(h)[g] # {}
    BY <1>6, <1>7 DEF Combines
  <2>2. T(g) \in Lists /\ T(g)[2] = g
    BY <1>4
  <2>3. net.inputIndex[T(g)] = [x \in Ins(g) |-> address[x[2]]]
    BY <1>5, <2>2
  <2>4. Ins(g) \subseteq Twins /\ Ins(g) # {}
    BY <2>1
  <2>5. ASSUME NEW x \in Ins(g)
        PROVE  x[2] \in Live(h) /\ x = T(x[2]) /\ x[2] < g /\ net.table[x] = Table(h, x[2])
    <3>1. PICK y \in MultiInputs(h)[g] : x = T(y)
      OBVIOUS
    <3>2. x[2] = y /\ y < g /\ y \in Live(h)
      BY <1>4, <1>6, <1>7, <2>1, <3>1 DEF Combines
    <3>3. net.table[x] = Table(h, x[2])
      BY <1>5, <2>4
    <3> QED
      BY <3>1, <3>2, <3>3
  <2> QED
    BY <2>3, <2>4, <2>5
<1>10. DOMAIN net.table = Twins /\ DOMAIN net.inputIndex = Lists
  BY <1>5
<1>11. net.output \in Twins /\ net.table[net.output] = Table(h, out)
  BY <1>4, <1>5, <1>6
<1>12. WellFormed(net)
  <2>1. Twins \subseteq Gate /\ Lists = MultiGate \cap Twins
    BY <1>8
  <2>2. net.table \in [Twins -> SUBSET Assignment]
    <3>1. \A g \in V : Table(h, g) \in SUBSET Assignment
      BY <1>1, <1>2, <1>6, TableIsSet
    <3>2. \A t \in Twins : Table(h, t[2]) \in SUBSET Assignment
      BY <1>4, <3>1
    <3> QED
      BY <1>5, <3>2
  <2>3. net.inputIndex = [t \in DOMAIN net.inputIndex |-> net.inputIndex[t]]
    BY <1>5
  <2>4. ASSUME NEW t \in Lists
        PROVE  /\ DOMAIN net.inputIndex[t] \in (SUBSET Twins) \ {{}}
               /\ net.inputIndex[t] \in [DOMAIN net.inputIndex[t] -> 1 .. Cardinality(Gate)]
               /\ \A x, y \in DOMAIN net.inputIndex[t] :
                    net.inputIndex[t][x] = net.inputIndex[t][y] => x = y
               /\ net.table[t] = Combine(Kind[t], {net.table[x] : x \in DOMAIN net.inputIndex[t]})
    <3>1. PICK g \in G : t = T(g)
      OBVIOUS
    <3> DEFINE f == [x \in Ins(g) |-> address[x[2]]]
    <3>2. net.inputIndex[t] = f /\ DOMAIN f = Ins(g)
      BY <1>9, <3>1
    <3>3. f \in [Ins(g) -> 1 .. Cardinality(Gate)]
      BY <1>3, <1>9
    <3>4. \A x, y \in Ins(g) : f[x] = f[y] => x = y
      BY <1>3, <1>9
    <3>5. {net.table[x] : x \in Ins(g)} = {Table(h, y) : y \in MultiInputs(h)[g]}
      <4>1. \A x \in Ins(g) : net.table[x] = Table(h, x[2])
        BY <1>9
      <4>2. \A y \in MultiInputs(h)[g] : net.table[T(y)] = Table(h, y)
        BY <1>4, <4>1
      <4> QED
        BY <4>2
    <3>6. Kind[t] = TwinType(h.kind[g]) /\ net.table[t] = Table(h, g)
      BY <1>2, <1>4, <1>5, <1>6, <3>1
    <3>7. Table(h, g) = Combine(TwinType(h.kind[g]), {Table(h, y) : y \in MultiInputs(h)[g]})
      BY <1>6, <1>7 DEF Combines
    <3> HIDE DEF f
    <3> QED
      BY <1>9, <3>2, <3>3, <3>4, <3>5, <3>6, <3>7
  <2> QED
    BY <1>10, <2>1, <2>2, <2>3, <2>4 DEF WellFormed
<1>13. IsCircuit(net)
  <2> SUFFICES ASSUME NEW S \in (SUBSET Twins) \ {{}}
               PROVE  \E x \in S : x \in MultiGate => DOMAIN net.inputIndex[x] \cap S = {}
    BY <1>10, <1>11 DEF IsCircuit
  <2> DEFINE Numbers == {g \in V : T(g) \in S}
  <2>1. Numbers # {} /\ Numbers \subseteq Nat
    BY <1>1, <1>6, LayeredFacts
  <2>2. PICK g \in Numbers : \A y \in Numbers : g <= y
    <3> HIDE DEF Numbers
    <3> QED
      BY <2>1, LeastNumber
  <2>3. ASSUME T(g) \in MultiGate
        PROVE  DOMAIN net.inputIndex[T(g)] \cap S = {}
    <3>1. g \in G
      BY <1>8, <2>3
    <3> DEFINE f == [x \in Ins(g) |-> address[x[2]]]
    <3>2. DOMAIN net.inputIndex[T(g)] = Ins(g)
      <4>1. net.inputIndex[T(g)] = f /\ DOMAIN f = Ins(g)
        BY <1>9, <3>1
      <4> HIDE DEF f
      <4> QED
        BY <4>1
    <3>3. ASSUME NEW x \in Ins(g), x \in S PROVE FALSE
      <4>1. x[2] < g /\ x = T(x[2]) /\ x[2] \in Nat /\ g \in Nat
        BY <1>1, <1>6, <1>9, <3>1, LayeredFacts
      <4>2. x[2] \in V
        <5>1. x \in Twins
          BY <1>9, <3>1
        <5> QED
          BY <1>4, <5>1
      <4> QED
        BY <2>2, <3>3, <4>1, <4>2
    <3> QED
      BY <3>2, <3>3
  <2> QED
    BY <2>3
<1> QED
  BY <1>11, <1>12, <1>13 DEF h, out, net

\* Reordering keeps the function of a circuit: started from the network of one
\* of the circuits, the conversion has that circuit's function at the output
\* after every step of both phases and copies.
THEOREM ReorderedComputes ==
  ASSUME Network = MultiTwins
  PROVE  ConvertSpec =>
           [](\E netlist \in Circuits :
                LET h == Build(netlist) IN computes[output] = Table(h, OutputOf(h)))
<1> DEFINE Functions == {Table(Build(netlist), OutputOf(Build(netlist))) : netlist \in Circuits}
           OneOfThem == goal \in Functions
<1>1. ConvertInit => OneOfThem
  <2> SUFFICES ASSUME ConvertInit PROVE goal \in Functions
    OBVIOUS
  <2>1. PICK net \in Network : goal = net.table[net.output]
    BY DEF ConvertInit
  <2>2. PICK netlist \in Circuits, address \in Addresses :
          net = MultiNetwork(Build(netlist), OutputOf(Build(netlist)), address)
    BY DEF MultiTwins
  <2> QED
    BY <2>1, <2>2, TwinsAreNetworks
<1>2. OneOfThem /\ [ConvertNext]_convertVars => OneOfThem'
  BY DEF ConvertNext, ConvertStep, TakeSingleTwin, Returned, convertVars
<1>3. ConvertSpec => []OneOfThem
  BY <1>1, <1>2, PTL DEF ConvertSpec
<1>4. OneOfThem /\ OutputPreserved =>
        \E netlist \in Circuits : LET h == Build(netlist) IN computes[output] = Table(h, OutputOf(h))
  BY DEF OutputPreserved
<1> QED
  BY <1>3, <1>4, FunctionOfOutput, PTL
=============================================================================
