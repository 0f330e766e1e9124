-------------------------- MODULE DnfConversionProofs --------------------------
(***************************************************************************)
(* For every number of inputs and all circuits: conversion to a normal     *)
(* form and minimisation keep the function, the implicants that a circuit  *)
(* was built from can be read back from its gates, and no gate is met that *)
(* they could not be read from.                                            *)
(***************************************************************************)
EXTENDS DnfConversion, GateHeapProofs, FunctionTheorems

-----------------------------------------------------------------------------
(* Sorting.                                                                *)

\* before is a strict and total order on S.
Orders(before, S) ==
  /\ \A x \in S : <<x, x>> \notin before
  /\ \A x, y, z \in S : <<x, y>> \in before /\ <<y, z>> \in before => <<x, z>> \in before
  /\ \A x, y \in S : x # y => <<x, y>> \in before \/ <<y, x>> \in before

\* The members of S that are before x.
Earlier(S, before, x) == {y \in S : <<y, x>> \in before}

\* What is sorted has the members of S, each after those that are before it.
LEMMA SortedFacts ==
  ASSUME NEW S, IsFiniteSet(S), NEW before, Orders(before, S)
  PROVE  /\ Sorted(S, before) \in Seq(S) /\ Len(Sorted(S, before)) = Cardinality(S)
         /\ Cardinality(S) \in Nat /\ Range(Sorted(S, before)) = S
         /\ DOMAIN Sorted(S, before) = 1 .. Cardinality(S)
         /\ \A x \in S : Cardinality(Earlier(S, before, x)) + 1 \in DOMAIN Sorted(S, before)
                         /\ Sorted(S, before)[Cardinality(Earlier(S, before, x)) + 1] = x
<1> DEFINE N == Cardinality(S)
           rank == [x \in S |-> Cardinality(Earlier(S, before, x))]
           list == Sorted(S, before)
<1>1. N \in Nat
  BY FS_CardinalityType
<1>2. ASSUME NEW x \in S
      PROVE  /\ IsFiniteSet(Earlier(S, before, x)) /\ Earlier(S, before, x) \subseteq S
             /\ x \notin Earlier(S, before, x)
  <2>1. Earlier(S, before, x) \in SUBSET S /\ x \notin Earlier(S, before, x)
    BY DEF Earlier, Orders
  <2> QED
    BY <2>1, FS_Subset
<1>3. ASSUME NEW x \in S
      PROVE  rank[x] \in 0 .. N - 1
  <2>1. Cardinality(Earlier(S, before, x)) <= N /\ Cardinality(Earlier(S, before, x)) # N
    BY <1>2, FS_Subset
  <2>2. Cardinality(Earlier(S, before, x)) \in Nat
    BY <1>2, FS_CardinalityType
  <2> QED
    BY <1>1, <2>1, <2>2
<1>4. ASSUME NEW x \in S, NEW y \in S, <<x, y>> \in before
      PROVE  rank[x] # rank[y]
  <2>1. Earlier(S, before, x) \in SUBSET Earlier(S, before, y)
    BY <1>4 DEF Earlier, Orders
  <2>2. x \in Earlier(S, before, y) /\ x \notin Earlier(S, before, x)
    BY <1>2, <1>4 DEF Earlier
  <2>3. Cardinality(Earlier(S, before, x)) # Cardinality(Earlier(S, before, y))
    BY <1>2, <2>1, <2>2, FS_Subset
  <2> QED
    BY <2>3
<1>5. \A x, y \in S : rank[x] = rank[y] => x = y
  BY <1>4 DEF Orders
<1>6. rank \in [S -> 0 .. N - 1]
  BY <1>3
<1> HIDE DEF rank
<1>7. rank \in Injection(S, 0 .. N - 1)
  BY <1>5, <1>6, Fun_IsInj
<1>8. IsFiniteSet(0 .. N - 1) /\ Cardinality(0 .. N - 1) = N
  <2>1. 0 \in Int /\ N - 1 \in Int /\ (N - 1) - 0 + 1 = N /\ (0 > N - 1 => N = 0)
    BY <1>1
  <2> HIDE DEF N
  <2> QED
    BY <2>1, FS_Interval
<1>9. rank \in Surjection(S, 0 .. N - 1)
  BY <1>7, <1>8, FS_Injection
<1>10. \A k \in 0 .. N - 1 : \E x \in S : rank[x] = k
  BY <1>9 DEF Surjection
<1>11. list = [n \in 1 .. N |-> CHOOSE x \in S : Cardinality(Earlier(S, before, x)) = n - 1]
  BY DEF Sorted, Earlier
<1>12. ASSUME NEW n \in 1 .. N
       PROVE  list[n] \in S /\ rank[list[n]] = n - 1
  <2>1. n - 1 \in 0 .. N - 1
    BY <1>1
  <2>2. \E x \in S : Cardinality(Earlier(S, before, x)) = n - 1
    BY <1>10, <2>1 DEF rank
  <2>3. list[n] \in S /\ Cardinality(Earlier(S, before, list[n])) = n - 1
    BY <1>11, <2>2
  <2> QED
    BY <2>3 DEF rank
<1>13. list \in [1 .. N -> S] /\ DOMAIN list = 1 .. N
  BY <1>11, <1>12
<1> HIDE DEF list, N
<1>14. list \in Seq(S) /\ Len(list) = N
  BY <1>1, <1>13
<1>15. \A x \in S : rank[x] + 1 \in 1 .. N /\ list[rank[x] + 1] = x
  <2> TAKE x \in S
  <2>1. rank[x] + 1 \in 1 .. N /\ (rank[x] + 1) - 1 = rank[x]
    BY <1>1, <1>3
  <2>2. list[rank[x] + 1] \in S /\ rank[list[rank[x] + 1]] = rank[x]
    BY <1>12, <2>1
  <2> QED
    BY <1>5, <2>1, <2>2
<1>16. Range(list) = S
  BY <1>13, <1>15 DEF Range
<1>17. \A x \in S : Cardinality(Earlier(S, before, x)) + 1 \in DOMAIN list
                    /\ list[Cardinality(Earlier(S, before, x)) + 1] = x
  BY <1>13, <1>15 DEF rank
<1> QED
  BY <1>1, <1>13, <1>14, <1>16, <1>17 DEF list, N

LEMMA LessOrders ==
  ASSUME NEW S \in SUBSET InputGate
  PROVE  Orders(Less, S) /\ IsFiniteSet(S)
<1>1. InputGate = 1 .. NumOfInputs /\ NumOfInputs \in Nat
  BY CircuitsAssumption DEF InputGate
<1>2. IsFiniteSet(S)
  <2>1. IsFiniteSet(1 .. NumOfInputs)
    BY <1>1, FS_Interval
  <2> QED
    BY <1>1, <2>1, FS_Subset
<1>3. \A x, y \in S : <<x, y>> \in Less <=> x < y
  BY DEF Less
<1>4. S \subseteq Nat
  BY <1>1
<1> QED
  BY <1>2, <1>3, <1>4 DEF Orders

-----------------------------------------------------------------------------
(* Implicants.                                                             *)

LEMMA ValueFacts ==
  /\ \A v \in Value : v = {} \/ v = {0} \/ v = {1} \/ v = {0, 1}
  /\ \A v \in Value : Rank(v) \in Nat
  /\ \A v, w \in Value : Rank(v) = Rank(w) => v = w
<1>1. ASSUME NEW v \in Value
      PROVE  v = {} \/ v = {0} \/ v = {1} \/ v = {0, 1}
  <2>1. v \subseteq {0, 1}
    BY DEF Value
  <2> QED
    BY <2>1
<1>2. {} # {0} /\ {} # {1} /\ {} # {0, 1} /\ {0} # {1} /\ {0} # {0, 1} /\ {1} # {0, 1}
  <2>1. 0 \in {0} /\ 1 \in {1} /\ 0 \in {0, 1} /\ 1 \in {0, 1} /\ 0 \notin {1} /\ 1 \notin {0}
    OBVIOUS
  <2> QED
    BY <2>1
<1>3. Rank({}) = 0 /\ Rank({1}) = 1 /\ Rank({0}) = 2 /\ Rank({0, 1}) = 3
  BY <1>2 DEF Rank
<1>4. \A v \in Value : Rank(v) \in {0, 1, 2, 3}
  BY <1>1, <1>3
<1>5. ASSUME NEW v \in Value, NEW w \in Value, Rank(v) = Rank(w)
      PROVE  v = w
  <2>1. (v = {} \/ v = {0} \/ v = {1} \/ v = {0, 1}) /\ (w = {} \/ w = {0} \/ w = {1} \/ w = {0, 1})
    BY <1>1
  <2>2. 0 # 1 /\ 0 # 2 /\ 0 # 3 /\ 1 # 2 /\ 1 # 3 /\ 2 # 3
    OBVIOUS
  <2> QED
    BY <1>3, <1>5, <2>1, <2>2
<1>6. {0, 1, 2, 3} \subseteq Nat
  OBVIOUS
<1> QED
  BY <1>1, <1>4, <1>5, <1>6

LEMMA OneIsInput == 1 \in InputGate /\ NumOfInputs \in Nat /\ InputGate = 1 .. NumOfInputs
BY CircuitsAssumption DEF InputGate

LEMMA ConstantValues ==
  /\ DontCares \in [InputGate -> Value] /\ Valid(DontCares)
  /\ Invalid \in [InputGate -> Value] /\ ~Valid(Invalid) /\ Invalid # DontCares
<1>1. {0, 1} \in Value /\ {} \in Value /\ {0, 1} # {}
  BY DEF Value
<1> QED
  BY <1>1, OneIsInput DEF DontCares, Invalid, Valid

LEMMA ImplicantOf ==
  ASSUME NEW v \in [InputGate -> Value]
  PROVE  /\ Implicant(v) \in Implicants
         /\ Valid(v) => Implicant(v).values = v
         /\ ~Valid(v) => Implicant(v).values = Invalid
BY DEF Implicant, Implicants

\* An implicant is told by its values, which are valid or all INVALID.
LEMMA ImplicantFacts ==
  ASSUME NEW p \in Implicants
  PROVE  /\ p.values \in [InputGate -> Value]
         /\ p.full \in BOOLEAN /\ (p.full <=> p.values = DontCares)
         /\ Valid(p.values) \/ p.values = Invalid
         /\ p = [values |-> p.values, full |-> p.full]
         /\ p = Implicant(p.values)
<1>1. PICK v \in [InputGate -> Value] : p = Implicant(v)
  BY DEF Implicants
<1>2. p = [values |-> IF Valid(v) THEN v ELSE Invalid, full |-> v = DontCares]
  BY <1>1 DEF Implicant
<1>3. p = [values |-> p.values, full |-> p.full]
  BY <1>2
<1>4. /\ Valid(v) => p.values = v
      /\ ~Valid(v) => p.values = Invalid
      /\ p.full = (v = DontCares)
  BY <1>2
<1>5. p.full \in BOOLEAN /\ (p.full <=> v = DontCares)
  BY <1>4
<1>6. CASE Valid(v)
  BY <1>1, <1>3, <1>4, <1>5, <1>6
<1>7. CASE ~Valid(v)
  <2>1. p.values = Invalid /\ v # DontCares /\ ~p.full
    BY <1>4, <1>5, <1>7, ConstantValues
  <2>2. Implicant(Invalid) = [values |-> Invalid, full |-> FALSE]
    BY ConstantValues DEF Implicant
  <2>3. p = [values |-> Invalid, full |-> FALSE]
    BY <1>3, <1>5, <2>1
  <2> QED
    BY <1>3, <1>5, <2>1, <2>2, <2>3, ConstantValues
<1> QED
  BY <1>6, <1>7

LEMMA FiniteValues == IsFiniteSet([InputGate -> Value])
<1> DEFINE Pairs == InputGate \X {0, 1}
           F == [v \in [InputGate -> Value] |-> {pair \in Pairs : pair[2] \in v[pair[1]]}]
<1>1. IsFiniteSet(InputGate)
  BY LessOrders
<1>2. IsFiniteSet({0, 1})
  <2>1. {0, 1} = {0} \cup {1}
    OBVIOUS
  <2>2. IsFiniteSet({0} \cup {1})
    BY FS_Singleton, FS_AddElement
  <2> QED
    BY <2>1, <2>2
<1>3. IsFiniteSet(SUBSET Pairs)
  BY <1>1, <1>2, FS_Product, FS_SUBSET
<1>4. F \in [[InputGate -> Value] -> SUBSET Pairs]
  OBVIOUS
<1>5. ASSUME NEW v \in [InputGate -> Value], NEW w \in [InputGate -> Value], F[v] = F[w]
      PROVE  v = w
  <2>1. ASSUME NEW i \in InputGate, NEW x \in {0, 1}
        PROVE  x \in v[i] <=> x \in w[i]
    <3>1. <<i, x>> \in F[v] <=> x \in v[i]
      OBVIOUS
    <3>2. <<i, x>> \in F[w] <=> x \in w[i]
      OBVIOUS
    <3> QED
      BY <1>5, <3>1, <3>2
  <2>2. \A i \in InputGate : v[i] \subseteq {0, 1} /\ w[i] \subseteq {0, 1}
    BY DEF Value
  <2>3. \A i \in InputGate : v[i] = w[i]
    BY <2>1, <2>2
  <2> QED
    BY <2>3
<1> HIDE DEF F
<1>6. F \in Injection([InputGate -> Value], SUBSET Pairs)
  BY <1>4, <1>5, Fun_IsInj
<1> QED
  BY <1>3, <1>6, FS_Injection

LEMMA FiniteImplicants == IsFiniteSet(Implicants)
<1> DEFINE F == [p \in Implicants |-> p.values]
<1>1. F \in [Implicants -> [InputGate -> Value]]
  BY ImplicantFacts
<1>2. \A p, q \in Implicants : F[p] = F[q] => p = q
  <2> SUFFICES ASSUME NEW p \in Implicants, NEW q \in Implicants, p.values = q.values
               PROVE  p = q
    OBVIOUS
  <2>1. p = Implicant(p.values) /\ q = Implicant(q.values)
    BY ImplicantFacts
  <2> QED
    BY <2>1
<1> HIDE DEF F
<1>3. F \in Injection(Implicants, [InputGate -> Value])
  BY <1>1, <1>2, Fun_IsInj
<1> QED
  BY <1>3, FiniteValues, FS_Injection

\* Two functions on the inputs that differ do so at a first input.
LEMMA FirstDifference ==
  ASSUME NEW v \in [InputGate -> Value], NEW w \in [InputGate -> Value], v # w
  PROVE  \E i \in InputGate : v[i] # w[i] /\ \A j \in 1 .. i - 1 : v[j] = w[j]
<1> DEFINE Same == {i \in InputGate : v[i] = w[i]}
<1>1. InputGate = 1 .. NumOfInputs /\ NumOfInputs \in Nat
  BY OneIsInput
<1>2. ~ (1 .. NumOfInputs \subseteq Same)
  BY <1>1
<1> HIDE DEF Same
<1>3. PICK i \in 1 .. NumOfInputs : 1 .. i - 1 \subseteq Same /\ i \notin Same
  BY <1>1, <1>2, FromBelow
<1> QED
  BY <1>1, <1>3 DEF Same

LEMMA SmallerOrders ==
  ASSUME NEW S \in SUBSET Implicants
  PROVE  Orders({pair \in S \X S : Smaller(pair[1], pair[2])}, S) /\ IsFiniteSet(S)
<1> DEFINE before == {pair \in S \X S : Smaller(pair[1], pair[2])}
<1>1. \A x, y \in S : <<x, y>> \in before <=> Smaller(x, y)
  OBVIOUS
<1>2. IsFiniteSet(S)
  BY FiniteImplicants, FS_Subset
<1>3. \A x \in S : x.values \in [InputGate -> Value] /\ x = Implicant(x.values)
                   /\ (Valid(x.values) \/ x.values = Invalid)
  BY ImplicantFacts
<1>4. InputGate = 1 .. NumOfInputs /\ NumOfInputs \in Nat
  BY OneIsInput
<1>5. \A x \in S : \A i \in InputGate : Rank(x.values[i]) \in Nat
  BY <1>3, ValueFacts
<1>6. \A x \in S : ~Smaller(x, x)
  BY <1>5 DEF Smaller
<1>7. ASSUME NEW x \in S, NEW y \in S, NEW z \in S, Smaller(x, y), Smaller(y, z)
      PROVE  Smaller(x, z)
  <2>1. CASE ~Valid(z.values)
    BY <1>7, <2>1 DEF Smaller
  <2>2. CASE Valid(z.values)
    <3>1. Valid(x.values) /\ Valid(y.values)
      BY <1>7, <2>2 DEF Smaller
    <3>2. PICK i \in InputGate : Rank(x.values[i]) < Rank(y.values[i])
                                 /\ \A k \in 1 .. i - 1 : x.values[k] = y.values[k]
      BY <1>7, <3>1 DEF Smaller
    <3>3. PICK j \in InputGate : Rank(y.values[j]) < Rank(z.values[j])
                                 /\ \A k \in 1 .. j - 1 : y.values[k] = z.values[k]
      BY <1>7, <3>1, <2>2 DEF Smaller
    <3>4. i \in Nat /\ j \in Nat /\ i >= 1 /\ j >= 1
      BY <1>4
    <3>5. CASE i < j
      <4>1. Rank(x.values[i]) < Rank(z.values[i])
        <5>1. i \in 1 .. j - 1
          BY <3>4, <3>5
        <5> QED
          BY <3>2, <3>3, <5>1
      <4>2. \A k \in 1 .. i - 1 : x.values[k] = z.values[k]
        BY <3>2, <3>3, <3>4, <3>5
      <4> QED
        BY <2>2, <3>1, <4>1, <4>2 DEF Smaller
    <3>6. CASE j < i
      <4>1. Rank(x.values[j]) < Rank(z.values[j])
        <5>1. j \in 1 .. i - 1
          BY <3>4, <3>6
        <5> QED
          BY <3>2, <3>3, <5>1
      <4>2. \A k \in 1 .. j - 1 : x.values[k] = z.values[k]
        BY <3>2, <3>3, <3>4, <3>6
      <4> QED
        BY <2>2, <3>1, <4>1, <4>2 DEF Smaller
    <3>7. CASE i = j
      <4>1. Rank(x.values[i]) < Rank(z.values[i])
        BY <1>5, <3>2, <3>3, <3>7
      <4>2. \A k \in 1 .. i - 1 : x.values[k] = z.values[k]
        BY <3>2, <3>3, <3>7
      <4> QED
        BY <2>2, <3>1, <4>1, <4>2 DEF Smaller
    <3> QED
      BY <3>4, <3>5, <3>6, <3>7
  <2> QED
    BY <2>1, <2>2
<1>8. ASSUME NEW x \in S, NEW y \in S, x # y
      PROVE  Smaller(x, y) \/ Smaller(y, x)
  <2>1. x.values # y.values
    BY <1>3, <1>8
  <2>2. CASE Valid(x.values) /\ Valid(y.values)
    <3>1. PICK i \in InputGate : x.values[i] # y.values[i]
                                 /\ \A j \in 1 .. i - 1 : x.values[j] = y.values[j]
      BY <1>3, <2>1, FirstDifference
    <3>2. x.values[i] \in Value /\ y.values[i] \in Value
      BY <1>3
    <3>3. Rank(x.values[i]) # Rank(y.values[i])
      BY <3>1, <3>2, ValueFacts
    <3>4. Rank(x.values[i]) < Rank(y.values[i]) \/ Rank(y.values[i]) < Rank(x.values[i])
      BY <1>5, <3>3
    <3> QED
      BY <2>2, <3>1, <3>4 DEF Smaller
  <2> QED
    BY <1>3, <2>1, <2>2 DEF Smaller
<1> HIDE DEF before
<1>9. Orders(before, S)
  BY <1>1, <1>6, <1>7, <1>8 DEF Orders
<1> QED
  BY <1>2, <1>9 DEF before

\* A form in order has the implicants of the form.
LEMMA InOrderFacts ==
  ASSUME NEW S \in SUBSET Implicants
  PROVE  InOrder(S) \in Seq(Implicants) /\ Range(InOrder(S)) = S
<1> DEFINE before == {pair \in S \X S : Smaller(pair[1], pair[2])}
<1>1. Orders(before, S) /\ IsFiniteSet(S)
  BY SmallerOrders
<1>2. InOrder(S) = Sorted(S, before)
  BY DEF InOrder
<1> HIDE DEF before
<1>3. Sorted(S, before) \in Seq(S) /\ Range(Sorted(S, before)) = S
  BY <1>1, SortedFacts
<1> QED
  BY <1>2, <1>3, SeqMonotonic

-----------------------------------------------------------------------------
(* The points of implicants.                                               *)

LEMMA PointsFacts ==
  /\ \A v \in [InputGate -> Value] : ~Valid(v) => Points(v) = {}
  /\ \A v \in [InputGate -> Value] : Valid(v) => Points(v) # {}
  /\ Points(DontCares) = Valuation
  /\ \A v, w \in [InputGate -> Value] :
       Points([i \in InputGate |-> v[i] \cap w[i]]) = Points(v) \cap Points(w)
<1>1. ASSUME NEW v \in [InputGate -> Value], ~Valid(v)
      PROVE  Points(v) = {}
  BY <1>1 DEF Points, Valid
<1>2. ASSUME NEW v \in [InputGate -> Value], Valid(v)
      PROVE  Points(v) # {}
  <2> DEFINE a == {i \in InputGate : 1 \in v[i]}
  <2>1. ASSUME NEW i \in InputGate
        PROVE  (IF i \in a THEN 1 ELSE 0) \in v[i]
    <3>1. v[i] # {} /\ v[i] \in Value
      BY <1>2 DEF Valid
    <3>2. 1 \in v[i] \/ 0 \in v[i]
      BY <3>1 DEF Value
    <3> QED
      BY <3>2
  <2>2. a \in Points(v)
    <3>1. a \in Valuation
      BY DEF Valuation
    <3> HIDE DEF a
    <3> QED
      BY <2>1, <3>1 DEF Points
  <2> QED
    BY <2>2
<1>3. Points(DontCares) = Valuation
  BY DEF Points, DontCares
<1>4. ASSUME NEW v \in [InputGate -> Value], NEW w \in [InputGate -> Value]
      PROVE  Points([i \in InputGate |-> v[i] \cap w[i]]) = Points(v) \cap Points(w)
  BY DEF Points
<1> QED
  BY <1>1, <1>2, <1>3, <1>4

\* An implicant has the points of the values it was made from.
LEMMA PointsOfImplicant ==
  ASSUME NEW v \in [InputGate -> Value]
  PROVE  Points(Implicant(v).values) = Points(v)
<1>1. CASE Valid(v)
  BY <1>1, ImplicantOf
<1>2. CASE ~Valid(v)
  BY <1>2, ImplicantOf, PointsFacts, ConstantValues
<1> QED
  BY <1>1, <1>2

LEMMA CoveredFacts ==
  ASSUME NEW a
  PROVE  /\ \A S : a \in Covered(S) <=> \E p \in S : a \in Points(p.values)
         /\ Covered({}) = {}
BY DEF Covered

\* INVALID implicants cover nothing.
LEMMA CoveredByValid ==
  ASSUME NEW S \in SUBSET Implicants, NEW T \in SUBSET Implicants,
         {p.values : p \in T} = ValidValues(S)
  PROVE  Covered(T) = Covered(S)
<1>1. ASSUME NEW a \in Covered(T)
      PROVE  a \in Covered(S)
  <2>1. PICK p \in T : a \in Points(p.values)
    BY CoveredFacts
  <2>2. PICK q \in S : q.values = p.values
    BY <2>1 DEF ValidValues
  <2> QED
    BY <2>1, <2>2, CoveredFacts
<1>2. ASSUME NEW a \in Covered(S)
      PROVE  a \in Covered(T)
  <2>1. PICK p \in S : a \in Points(p.values)
    BY CoveredFacts
  <2>2. p.values \in [InputGate -> Value]
    BY ImplicantFacts
  <2>3. Valid(p.values)
    BY <2>1, <2>2, PointsFacts
  <2>4. p.values \in ValidValues(S)
    BY <2>3 DEF ValidValues, IsValid
  <2>5. PICK q \in T : q.values = p.values
    BY <2>4
  <2> QED
    BY <2>1, <2>5, CoveredFacts
<1> QED
  BY <1>1, <1>2

-----------------------------------------------------------------------------
(* The forms that getDnf collects.                                         *)

\* What may be in a form: the full flag is not known to be right.
Terms == [values : [InputGate -> Value], full : BOOLEAN]

LEMMA ImplicantsAreTerms == Implicants \subseteq Terms
BY ImplicantFacts DEF Terms

LEMMA SameTerm ==
  ASSUME NEW p \in Terms, NEW q \in Terms, p.values = q.values, p.full <=> q.full
  PROVE  p = q
<1>1. p.full = q.full
  BY DEF Terms
<1> QED
  BY <1>1 DEF Terms

LEMMA LiteralFacts ==
  ASSUME NEW i \in InputGate, NEW v \in {0, 1}
  PROVE  /\ Literal(i, v) \in Implicants
         /\ Literal(i, v).values = [DontCares EXCEPT ![i] = {v}]
         /\ [DontCares EXCEPT ![i] = {v}] \in [InputGate -> Value]
         /\ Points([DontCares EXCEPT ![i] = {v}]) = {a \in Valuation : v = 1 <=> i \in a}
         /\ Literal(i, v).values # DontCares
<1> DEFINE w == [DontCares EXCEPT ![i] = {v}]
<1>1. /\ w \in [InputGate -> Value] /\ w[i] = {v} /\ \A j \in InputGate : j # i => w[j] = {0, 1}
      /\ DontCares[i] = {0, 1}
  BY ConstantValues DEF DontCares, Value
<1>2. Literal(i, v) = Implicant(w)
  BY DEF Literal
<1> HIDE DEF w
<1>3. Valid(w)
  BY <1>1 DEF Valid
<1>4. w # DontCares
  <2>1. {v} # {0, 1}
    <3>1. 0 \in {0, 1} /\ 1 \in {0, 1} /\ 0 # 1
      OBVIOUS
    <3> QED
      BY <3>1
  <2> QED
    BY <1>1, <2>1
<1>5. ASSUME NEW a \in Valuation
      PROVE  a \in Points(w) <=> (v = 1 <=> i \in a)
  <2>1. a \in Points(w) <=> (IF i \in a THEN 1 ELSE 0) \in w[i]
    <3>1. \A j \in InputGate : j # i => (IF j \in a THEN 1 ELSE 0) \in w[j]
      BY <1>1
    <3> QED
      BY <3>1 DEF Points
  <2> QED
    BY <1>1, <2>1
<1>6. Points(w) = {a \in Valuation : v = 1 <=> i \in a}
  BY <1>5 DEF Points
<1> QED
  BY <1>1, <1>2, <1>3, <1>4, <1>6, ImplicantOf DEF w

\* The two literals of an input.
LEMMA LiteralMeans ==
  ASSUME NEW i \in InputGate
  PROVE  /\ Literal(i, 1) \in Implicants /\ Literal(i, 0) \in Implicants
         /\ Points(Literal(i, 1).values) = {a \in Valuation : i \in a}
         /\ Points(Literal(i, 0).values) = {a \in Valuation : i \notin a}
         /\ ~Literal(i, 1).full /\ ~Literal(i, 0).full
<1>1. ASSUME NEW v \in {0, 1}
      PROVE  /\ Literal(i, v) \in Implicants /\ ~Literal(i, v).full
             /\ Points(Literal(i, v).values) = {a \in Valuation : v = 1 <=> i \in a}
  <2> DEFINE l == Literal(i, v)
             w == [DontCares EXCEPT ![i] = {v}]
  <2>0. /\ l \in Implicants /\ l.values # DontCares /\ l.values = w
        /\ Points(w) = {a \in Valuation : v = 1 <=> i \in a}
    BY LiteralFacts
  <2> HIDE DEF l, w
  <2>1. /\ l \in Implicants /\ l.values # DontCares
        /\ Points(l.values) = {a \in Valuation : v = 1 <=> i \in a}
    BY <2>0
  <2>2. ~l.full
    BY <2>1, ImplicantFacts
  <2> QED
    BY <2>1, <2>2 DEF l
<1> QED
  BY <1>1

\* What the meet of two implicants covers.
LEMMA MeetFacts ==
  ASSUME NEW p \in Terms, NEW q \in Terms
  PROVE  /\ Meet(p, q).values \in [InputGate -> Value]
         /\ Meet(p, q).values = Implicant(Meet(p, q).values).values
         /\ Points(Meet(p, q).values) = Points(p.values) \cap Points(q.values)
         /\ p.values # DontCares => Meet(p, q).values # DontCares
<1> DEFINE v == [i \in InputGate |-> p.values[i] \cap q.values[i]]
<1>1. v \in [InputGate -> Value]
  BY DEF Terms, Value
<1>2. Meet(p, q).values = Implicant(v).values
  BY DEF Meet, Implicant
<1>3. Points(v) = Points(p.values) \cap Points(q.values)
  BY PointsFacts DEF Terms
<1>4. p.values # DontCares => v # DontCares
  <2> SUFFICES ASSUME v = DontCares PROVE p.values = DontCares
    OBVIOUS
  <2>1. \A i \in InputGate : p.values[i] \cap q.values[i] = {0, 1} /\ p.values[i] \subseteq {0, 1}
    BY DEF DontCares, Terms, Value
  <2>2. \A i \in InputGate : p.values[i] = {0, 1}
    BY <2>1
  <2> QED
    BY <2>2 DEF DontCares, Terms
<1> HIDE DEF v
<1>5. Implicant(v) \in Implicants
  BY <1>1, ImplicantOf
<1>6. Implicant(v).values \in [InputGate -> Value] /\ Implicant(v) = Implicant(Implicant(v).values)
  BY <1>5, ImplicantFacts
<1>7. Implicant(v).values # DontCares <=> v # DontCares
  BY <1>1, ImplicantOf, ConstantValues
<1>8. Points(Implicant(v).values) = Points(v)
  BY <1>1, PointsOfImplicant
<1> QED
  BY <1>2, <1>3, <1>4, <1>6, <1>7, <1>8

\* What a product has.
LEMMA ProductFacts ==
  ASSUME NEW first \in SUBSET Terms, NEW second \in SUBSET Terms
  PROVE  /\ Product(first, second) \in SUBSET Terms
         /\ Covered(Product(first, second)) = Covered(first) \cap Covered(second)
         /\ (\A p \in first : p \in Implicants /\ ~p.full) =>
              /\ Product(first, second) \subseteq Implicants
              /\ \A p \in Product(first, second) : ~p.full
<1> DEFINE values == {Meet(p, q).values : p \in first, q \in second}
           Full(v) == \E p \in {p \in first : \E q \in second : Meet(p, q).values = v} :
                        p.full /\ \A q \in {r \in first : \E s \in second : Meet(r, s).values = v} : ~Smaller(q, p)
           P == Product(first, second)
<1>1. P = {[values |-> v, full |-> Full(v)] : v \in values}
  BY DEF Product
<1>2. \A v : Full(v) \in BOOLEAN
  OBVIOUS
<1>3. \A v : Full(v) => \E p \in first : p.full
  OBVIOUS
<1>4. \A v \in values : v \in [InputGate -> Value] /\ v = Implicant(v).values
  BY MeetFacts
<1> HIDE DEF P, Full
<1>5. P \in SUBSET Terms
  BY <1>1, <1>2, <1>4 DEF Terms
<1>6. \A p \in P : p.values \in values
  BY <1>1
<1>7. \A v \in values : \E p \in P : p.values = v
  <2> TAKE v \in values
  <2>1. [values |-> v, full |-> Full(v)] \in P
    BY <1>1
  <2> QED
    BY <2>1
<1>8. ASSUME NEW a \in Covered(P)
      PROVE  a \in Covered(first) /\ a \in Covered(second)
  <2>1. PICK r \in P : a \in Points(r.values)
    BY CoveredFacts
  <2>2. PICK p \in first, q \in second : r.values = Meet(p, q).values
    BY <1>6, <2>1
  <2>3. a \in Points(p.values) /\ a \in Points(q.values)
    BY <2>1, <2>2, MeetFacts
  <2> QED
    BY <2>3, CoveredFacts
<1>9. ASSUME NEW a, a \in Covered(first), a \in Covered(second)
      PROVE  a \in Covered(P)
  <2>1. PICK p \in first : a \in Points(p.values)
    BY <1>9, CoveredFacts
  <2>2. PICK q \in second : a \in Points(q.values)
    BY <1>9, CoveredFacts
  <2>3. a \in Points(Meet(p, q).values)
    BY <2>1, <2>2, MeetFacts
  <2>4. PICK r \in P : r.values = Meet(p, q).values
    BY <1>7
  <2> QED
    BY <2>3, <2>4, CoveredFacts
<1>10. ASSUME \A p \in first : p \in Implicants /\ ~p.full
       PROVE  P \subseteq Implicants /\ \A p \in P : ~p.full
  <2> SUFFICES ASSUME NEW p \in P PROVE p \in Implicants /\ ~p.full
    OBVIOUS
  <2> DEFINE v == p.values
  <2>1. PICK x \in first, y \in second : v = Meet(x, y).values
    BY <1>6
  <2>2. ~p.full
    <3>1. PICK w \in values : p = [values |-> w, full |-> Full(w)]
      BY <1>1
    <3>2. p.full <=> Full(w)
      BY <3>1
    <3> QED
      BY <1>3, <1>10, <3>2
  <2>3. v # DontCares
    <3>1. x.values # DontCares
      BY <1>10, ImplicantFacts
    <3> QED
      BY <2>1, <3>1, MeetFacts
  <2>4. v \in [InputGate -> Value] /\ v = Implicant(v).values
    BY <1>4, <1>6
  <2> HIDE DEF v
  <2>5. Implicant(v) \in Implicants /\ ~Implicant(v).full
    <3>1. Implicant(v) \in Implicants
      BY <2>4, ImplicantOf
    <3>2. Implicant(v).full <=> Implicant(v).values = DontCares
      BY <3>1, ImplicantFacts
    <3> QED
      BY <2>3, <2>4, <3>1, <3>2
  <2>6. p = Implicant(v)
    <3>1. p \in Terms /\ Implicant(v) \in Terms
      BY <1>5, <2>5, ImplicantsAreTerms
    <3>2. p.values = Implicant(v).values
      BY <2>4 DEF v
    <3> QED
      BY <2>2, <2>5, <3>1, <3>2, SameTerm
  <2> QED
    BY <2>2, <2>5, <2>6
<1>11. Covered(P) = Covered(first) \cap Covered(second)
  BY <1>8, <1>9
<1> QED
  BY <1>5, <1>10, <1>11 DEF P

LEMMA UnionFacts ==
  ASSUME NEW first \in SUBSET Terms, NEW second \in SUBSET Terms
  PROVE  /\ Union(first, second) \subseteq first \cup second
         /\ Covered(Union(first, second)) = Covered(first) \cup Covered(second)
<1> DEFINE U == Union(first, second)
<1>1. U \subseteq first \cup second /\ first \subseteq U
      /\ \A q \in second : \E p \in U : p.values = q.values
  BY DEF Union
<1> HIDE DEF U
<1>2. \A a : a \in Covered(U) <=> a \in Covered(first) \/ a \in Covered(second)
  <2> TAKE a
  <2>1. \A S : a \in Covered(S) <=> \E p \in S : a \in Points(p.values)
    BY CoveredFacts
  <2> QED
    BY <1>1, <2>1
<1> QED
  BY <1>1, <1>2 DEF U

\* The form of g, when form has those of its inputs and cache the ones known.
FormStep(h, cache, form, g) ==
  LET first == form[h.in[g][1]]
      second == form[h.in[g][2]]
  IN  IF g \in DOMAIN cache THEN cache[g]
      ELSE CASE h.kind[g] = "TRUE" -> {Implicant(DontCares)}
             [] h.kind[g] = "FALSE" -> {}
             [] h.kind[g] = "INPUT" -> {Literal(h.id[g], 1)}
             [] h.kind[g] = "NOT" -> {Literal(h.id[h.in[g][1]], 0)}
             [] h.kind[g] = "AND" -> Product(first, second)
             [] OTHER -> Union(first, second)

\* What a gate without a known form gets.
LEMMA FormStepFacts ==
  ASSUME NEW h, NEW cache, NEW form, NEW g, g \notin DOMAIN cache
  PROVE  /\ h.kind[g] = "TRUE" => FormStep(h, cache, form, g) = {Implicant(DontCares)}
         /\ h.kind[g] = "FALSE" => FormStep(h, cache, form, g) = {}
         /\ h.kind[g] = "INPUT" => FormStep(h, cache, form, g) = {Literal(h.id[g], 1)}
         /\ h.kind[g] = "NOT" => FormStep(h, cache, form, g) = {Literal(h.id[h.in[g][1]], 0)}
         /\ h.kind[g] = "AND" =>
              FormStep(h, cache, form, g) = Product(form[h.in[g][1]], form[h.in[g][2]])
         /\ h.kind[g] = "OR" =>
              FormStep(h, cache, form, g) = Union(form[h.in[g][1]], form[h.in[g][2]])
BY DEF FormStep

LEMMA SuitableFacts ==
  ASSUME NEW h, Suitable(h)
  PROVE  /\ HeapRecord(h) /\ Layered(h)
         /\ \A g \in Live(h) : h.kind[g] = "NOT" => h.in[g][1] \in InputGate
         /\ \A g \in Live(h) : h.kind[g] = "AND" =>
              \A x \in ReachableFrom(h, {g}) : h.kind[x] # "TRUE"
BY DEF Suitable, HeapRecord

\* A form depends on those of older gates only.
LEMMA FormStepFromBelow ==
  ASSUME NEW h, Layered(h), NEW cache, NEW g \in Live(h), g \notin DOMAIN cache, NEW t, NEW u,
         \A x \in Live(h) : x < g => t[x] = u[x]
  PROVE  FormStep(h, cache, t, g) = FormStep(h, cache, u, g)
<1>1. CASE h.kind[g] = "TRUE"
  BY <1>1, FormStepFacts
<1>2. CASE h.kind[g] = "FALSE"
  BY <1>2, FormStepFacts
<1>3. CASE h.kind[g] = "INPUT"
  <2>1. /\ FormStep(h, cache, t, g) = {Literal(h.id[g], 1)}
        /\ FormStep(h, cache, u, g) = {Literal(h.id[g], 1)}
    BY <1>3, FormStepFacts
  <2> QED
    BY <2>1
<1>4. CASE h.kind[g] = "NOT"
  <2>1. /\ FormStep(h, cache, t, g) = {Literal(h.id[h.in[g][1]], 0)}
        /\ FormStep(h, cache, u, g) = {Literal(h.id[h.in[g][1]], 0)}
    BY <1>4, FormStepFacts
  <2> QED
    BY <2>1
<1>5. CASE h.kind[g] = "AND"
  <2>1. t[h.in[g][1]] = u[h.in[g][1]] /\ t[h.in[g][2]] = u[h.in[g][2]]
    BY <1>5, LayeredFacts
  <2>2. /\ FormStep(h, cache, t, g) = Product(t[h.in[g][1]], t[h.in[g][2]])
        /\ FormStep(h, cache, u, g) = Product(u[h.in[g][1]], u[h.in[g][2]])
    BY <1>5, FormStepFacts
  <2> QED
    BY <2>1, <2>2
<1>6. CASE h.kind[g] = "OR"
  <2>1. t[h.in[g][1]] = u[h.in[g][1]] /\ t[h.in[g][2]] = u[h.in[g][2]]
    BY <1>6, LayeredFacts
  <2>2. /\ FormStep(h, cache, t, g) = Union(t[h.in[g][1]], t[h.in[g][2]])
        /\ FormStep(h, cache, u, g) = Union(u[h.in[g][1]], u[h.in[g][2]])
    BY <1>6, FormStepFacts
  <2> QED
    BY <2>1, <2>2
<1> QED
  BY <1>1, <1>2, <1>3, <1>4, <1>5, <1>6, LayeredFacts

LEMMA FormsEquation ==
  ASSUME NEW h, Suitable(h), NEW cache, DOMAIN cache = {}
  PROVE  /\ Forms(h, cache) = [g \in Live(h) |-> FormStep(h, cache, Forms(h, cache), g)]
         /\ \A g \in Live(h) : Forms(h, cache)[g] \in SUBSET Terms
<1> DEFINE L == Live(h)
           V == SUBSET Terms
           step == [g \in L |-> [t \in [L -> V] |-> FormStep(h, cache, t, g)]]
<1>0. Layered(h) /\ \A g \in L : g \notin DOMAIN cache
  BY SuitableFacts
<1>1. h.next \in Nat /\ L \subseteq 1 .. h.next
  BY <1>0, LayeredFacts
<1>2. ASSUME NEW g \in L, NEW t \in [L -> V]
      PROVE  FormStep(h, cache, t, g) \in V
  <2>1. CASE h.kind[g] = "TRUE"
    <3>1. Implicant(DontCares) \in Terms
      BY ConstantValues, ImplicantOf, ImplicantsAreTerms
    <3> QED
      BY <1>0, <2>1, <3>1, FormStepFacts
  <2>2. CASE h.kind[g] = "FALSE"
    BY <1>0, <2>2, FormStepFacts
  <2>3. CASE h.kind[g] = "INPUT"
    <3>1. h.id[g] \in InputGate
      BY <1>0, <2>3, LayeredFacts
    <3>2. Literal(h.id[g], 1) \in Terms
      BY <3>1, LiteralFacts, ImplicantsAreTerms
    <3> QED
      BY <1>0, <2>3, <3>2, FormStepFacts
  <2>4. CASE h.kind[g] = "NOT"
    <3>1. h.in[g][1] \in InputGate
      BY <2>4, SuitableFacts
    <3>2. h.id[h.in[g][1]] \in InputGate
      BY <1>0, <3>1, LayeredFacts
    <3>3. Literal(h.id[h.in[g][1]], 0) \in Terms
      BY <3>2, LiteralFacts, ImplicantsAreTerms
    <3> QED
      BY <1>0, <2>4, <3>3, FormStepFacts
  <2>5. CASE h.kind[g] \in {"AND", "OR"}
    <3>1. h.in[g][1] \in L /\ h.in[g][2] \in L
      BY <1>0, <2>5, LayeredFacts
    <3> DEFINE a == t[h.in[g][1]]
               b == t[h.in[g][2]]
    <3>2. a \in SUBSET Terms /\ b \in SUBSET Terms
      BY <3>1
    <3>3. /\ h.kind[g] = "AND" => FormStep(h, cache, t, g) = Product(a, b)
          /\ h.kind[g] = "OR" => FormStep(h, cache, t, g) = Union(a, b)
      BY <1>0, FormStepFacts
    <3> HIDE DEF a, b
    <3>4. Product(a, b) \in SUBSET Terms
      BY <3>2, ProductFacts
    <3>5. Union(a, b) \subseteq a \cup b
      BY <3>2, UnionFacts
    <3>6. Union(a, b) \in SUBSET Terms
      BY <3>2, <3>5
    <3> QED
      BY <2>5, <3>3, <3>4, <3>6
  <2> QED
    BY <1>0, <2>1, <2>2, <2>3, <2>4, <2>5, LayeredFacts
<1>3. step \in [L -> [[L -> V] -> V]]
  BY <1>2
<1>4. ASSUME NEW g \in L, NEW t \in [L -> V], NEW u \in [L -> V],
             \A x \in L : x < g => t[x] = u[x]
      PROVE  step[g][t] = step[g][u]
  <2>1. FormStep(h, cache, t, g) = FormStep(h, cache, u, g)
    BY <1>0, <1>4, FormStepFromBelow
  <2> QED
    BY <2>1
<1>5. \A x \in L : \A t, u \in [L -> V] :
        (\A y \in L : y < x => t[y] = u[y]) => step[x][t] = step[x][u]
  BY <1>4
<1>6. \A g \in L : \A t \in [L -> V] : step[g][t] = FormStep(h, cache, t, g)
  OBVIOUS
<1>7. V # {}
  OBVIOUS
<1> HIDE DEF step, V, L
<1>8. StepsUp(step, h.next, L, V)
  BY <1>1, <1>3, <1>5, <1>7 DEF StepsUp
<1>9. PICK f \in [L -> V] : \A g \in L : f[g] = step[g][f]
  BY <1>8, RecursionFromBelow
<1>10. f = [g \in L |-> FormStep(h, cache, f, g)]
  BY <1>6, <1>9
<1> DEFINE T == CHOOSE t : t = [g \in L |-> FormStep(h, cache, t, g)]
<1>11. T = [g \in L |-> FormStep(h, cache, T, g)]
  BY <1>10
<1>12. Forms(h, cache) = T
  BY DEF Forms, FormStep, L
<1> HIDE DEF T
<1>13. \A g \in L : T[g] = FormStep(h, cache, T, g)
  BY <1>11
<1> DEFINE Good == {g \in 1 .. h.next : g \in L => T[g] = f[g]}
<1>14. ASSUME NEW g \in L, \A x \in L : x < g => T[x] = f[x]
       PROVE  T[g] = f[g]
  <2>1. f[g] = FormStep(h, cache, f, g) /\ T[g] = FormStep(h, cache, T, g)
    BY <1>6, <1>9, <1>13
  <2>2. FormStep(h, cache, T, g) = FormStep(h, cache, f, g)
    BY <1>0, <1>14, FormStepFromBelow DEF L
  <2> QED
    BY <2>1, <2>2
<1>15. ASSUME NEW g \in 1 .. h.next, 1 .. g - 1 \subseteq Good
       PROVE  g \in Good
  <2>1. \A x \in L : x < g => x \in 1 .. g - 1
    BY <1>1
  <2> QED
    BY <1>14, <1>15, <2>1
<1> HIDE DEF Good
<1>16. 1 .. h.next \subseteq Good
  BY <1>1, <1>15, FromBelow
<1>17. \A g \in L : T[g] \in V
  BY <1>1, <1>9, <1>16 DEF Good
<1> QED
  BY <1>11, <1>12, <1>17 DEF L, V

\* The form of a gate covers what makes the gate true, its full flags are
\* right, and no TRUE is in it unless one is below the gate.
FormRight(h, form, g) ==
  /\ form \in SUBSET Implicants /\ Covered(form) = Table(h, g)
  /\ (\A x \in ReachableFrom(h, {g}) : h.kind[x] # "TRUE") => \A p \in form : ~p.full

\* What is reached from an input of a gate is reached from the gate.
LEMMA ReachBelow ==
  ASSUME NEW h, Layered(h), NEW g \in Live(h)
  PROVE  /\ g \in ReachableFrom(h, {g}) /\ ReachableFrom(h, {g}) \subseteq Live(h)
         /\ \A x \in Children(h, g) :
              x \in Live(h) /\ ReachableFrom(h, {x}) \subseteq ReachableFrom(h, {g})
<1> DEFINE R == ReachableFrom(h, {g})
<1>1. {g} \in SUBSET Live(h)
  OBVIOUS
<1>2. {g} \subseteq R /\ R \subseteq Live(h) /\ Downward(h, R)
  BY <1>1, ReachFacts
<1> HIDE DEF R
<1>3. ASSUME NEW x \in Children(h, g)
      PROVE  x \in Live(h) /\ ReachableFrom(h, {x}) \subseteq R
  <2>1. x \in R
    BY <1>2 DEF Downward
  <2>2. {x} \in SUBSET Live(h) /\ {x} \subseteq R
    BY <1>2, <2>1
  <2>3. ReachableFrom(h, {x}) \subseteq R
    BY <1>2, <2>2, ReachFacts
  <2> QED
    BY <2>2, <2>3
<1> QED
  BY <1>2, <1>3 DEF R

LEMMA FormsRight ==
  ASSUME NEW h, Suitable(h), NEW cache, DOMAIN cache = {}, NEW gate \in Live(h)
  PROVE  FormRight(h, Forms(h, cache)[gate], gate)
<1> DEFINE F == Forms(h, cache)
           Good == {g \in 1 .. h.next : g \in Live(h) => FormRight(h, F[g], g)}
           NoTrue(g) == \A x \in ReachableFrom(h, {g}) : h.kind[x] # "TRUE"
<1>0. Layered(h) /\ h.next \in Nat /\ Live(h) \subseteq 1 .. h.next
  BY SuitableFacts, LayeredFacts
<1>1. \A g \in Live(h) : F[g] = FormStep(h, cache, F, g) /\ F[g] \in SUBSET Terms
  BY FormsEquation
<1> HIDE DEF F
<1>2. ASSUME NEW g \in Live(h), \A x \in Live(h) : x < g => FormRight(h, F[x], x)
      PROVE  FormRight(h, F[g], g)
  <2>0. g \notin DOMAIN cache /\ g \in ReachableFrom(h, {g})
    BY <1>0, ReachBelow
  <2>1. CASE h.kind[g] = "TRUE"
    <3>1. F[g] = {Implicant(DontCares)}
      BY <1>1, <2>0, <2>1, FormStepFacts
    <3>2. Implicant(DontCares) \in Implicants /\ Implicant(DontCares).values = DontCares
      BY ConstantValues, ImplicantOf
    <3>3. Covered(F[g]) = Valuation
      BY <3>1, <3>2, PointsFacts DEF Covered
    <3>4. Table(h, g) = Valuation
      BY <1>0, <2>1, TableOf
    <3> QED
      BY <2>0, <2>1, <3>1, <3>2, <3>3, <3>4 DEF FormRight
  <2>2. CASE h.kind[g] = "FALSE"
    <3>1. F[g] = {}
      BY <1>1, <2>0, <2>2, FormStepFacts
    <3>2. Table(h, g) = {}
      BY <1>0, <2>2, TableOf
    <3> QED
      BY <3>1, <3>2, CoveredFacts DEF FormRight
  <2>3. CASE h.kind[g] = "INPUT"
    <3>1. F[g] = {Literal(h.id[g], 1)} /\ h.id[g] \in InputGate
      BY <1>0, <1>1, <2>0, <2>3, FormStepFacts, LayeredFacts
    <3> DEFINE l == Literal(h.id[g], 1)
    <3>2. l \in Implicants /\ Points(l.values) = {a \in Valuation : h.id[g] \in a} /\ ~l.full
      BY <3>1, LiteralMeans
    <3>3. Table(h, g) = {a \in Valuation : h.id[g] \in a}
      BY <1>0, <2>3, TableOf
    <3>4. F[g] = {l}
      BY <3>1
    <3> HIDE DEF l
    <3>5. Covered(F[g]) = Points(l.values)
      BY <3>4 DEF Covered
    <3> QED
      BY <3>2, <3>3, <3>4, <3>5 DEF FormRight
  <2>4. CASE h.kind[g] = "NOT"
    <3> DEFINE i == h.in[g][1]
    <3>1. i \in InputGate /\ i \in Live(h) /\ h.id[i] = i /\ h.kind[i] = "INPUT"
      BY <1>0, <2>4, SuitableFacts, LayeredFacts
    <3>2. F[g] = {Literal(i, 0)}
      BY <1>1, <2>0, <2>4, <3>1, FormStepFacts
    <3> DEFINE l == Literal(i, 0)
    <3>3. l \in Implicants /\ Points(l.values) = {a \in Valuation : i \notin a} /\ ~l.full
      BY <3>1, LiteralMeans
    <3>4. Table(h, g) = Valuation \ Table(h, i)
      BY <1>0, <2>4, TableOf
    <3> HIDE DEF i
    <3>5. Table(h, i) = {a \in Valuation : i \in a}
      BY <1>0, <3>1, TableOf
    <3>6. F[g] = {l}
      BY <3>2
    <3> HIDE DEF l
    <3>7. Covered(F[g]) = Points(l.values)
      BY <3>6 DEF Covered
    <3>8. Covered(F[g]) = Table(h, g)
      BY <3>3, <3>4, <3>5, <3>7
    <3> QED
      BY <3>3, <3>6, <3>8 DEF FormRight
  <2>5. CASE h.kind[g] \in {"AND", "OR"}
    <3> DEFINE c == h.in[g][1]
               d == h.in[g][2]
    <3>1. /\ c \in Live(h) /\ c < g /\ d \in Live(h) /\ d < g
          /\ c \in Children(h, g) /\ d \in Children(h, g)
      BY <1>0, <2>5, LayeredFacts
    <3>2. FormRight(h, F[c], c) /\ FormRight(h, F[d], d)
      BY <1>2, <3>1
    <3>3. F[c] \in SUBSET Terms /\ F[d] \in SUBSET Terms
      BY <1>1, <3>1
    <3>4. NoTrue(g) => NoTrue(c) /\ NoTrue(d)
      BY <1>0, <3>1, ReachBelow
    <3>5. /\ h.kind[g] = "AND" => F[g] = Product(F[c], F[d])
          /\ h.kind[g] = "OR" => F[g] = Union(F[c], F[d])
      BY <1>1, <2>0, FormStepFacts
    <3>6. /\ h.kind[g] = "AND" => Table(h, g) = Table(h, c) \cap Table(h, d)
          /\ h.kind[g] = "OR" => Table(h, g) = Table(h, c) \cup Table(h, d)
      BY <1>0, TableOf
    <3> HIDE DEF c, d, NoTrue
    <3>7. CASE h.kind[g] = "AND"
      <4>1. NoTrue(g)
        BY <3>7, SuitableFacts DEF NoTrue
      <4>2. \A p \in F[c] : p \in Implicants /\ ~p.full
        BY <3>2, <3>4, <4>1 DEF FormRight, NoTrue
      <4>3. /\ F[g] \subseteq Implicants /\ \A p \in F[g] : ~p.full
            /\ Covered(F[g]) = Covered(F[c]) \cap Covered(F[d])
        <5> DEFINE X == F[c]
                   Y == F[d]
        <5>1. X \in SUBSET Terms /\ Y \in SUBSET Terms /\ F[g] = Product(X, Y)
          BY <3>3, <3>5, <3>7
        <5>2. \A p \in X : p \in Implicants /\ ~p.full
          BY <4>2
        <5> HIDE DEF X, Y
        <5>3. /\ Product(X, Y) \subseteq Implicants /\ \A p \in Product(X, Y) : ~p.full
              /\ Covered(Product(X, Y)) = Covered(X) \cap Covered(Y)
          BY <5>1, <5>2, ProductFacts
        <5> QED
          BY <5>1, <5>3 DEF X, Y
      <4> QED
        BY <3>2, <3>6, <3>7, <4>3 DEF FormRight
    <3>8. CASE h.kind[g] = "OR"
      <4>1. /\ F[g] \subseteq F[c] \cup F[d]
            /\ Covered(F[g]) = Covered(F[c]) \cup Covered(F[d])
        <5> DEFINE X == F[c]
                   Y == F[d]
        <5>1. X \in SUBSET Terms /\ Y \in SUBSET Terms /\ F[g] = Union(X, Y)
          BY <3>3, <3>5, <3>8
        <5> HIDE DEF X, Y
        <5>2. Union(X, Y) \subseteq X \cup Y /\ Covered(Union(X, Y)) = Covered(X) \cup Covered(Y)
          BY <5>1, UnionFacts
        <5> QED
          BY <5>1, <5>2 DEF X, Y
      <4>2. F[c] \subseteq Implicants /\ F[d] \subseteq Implicants
        BY <3>2 DEF FormRight
      <4>3. NoTrue(g) => \A p \in F[g] : ~p.full
        BY <3>2, <3>4, <4>1 DEF FormRight, NoTrue
      <4>4. Covered(F[g]) = Table(h, g)
        BY <3>2, <3>6, <3>8, <4>1 DEF FormRight
      <4> QED
        BY <4>1, <4>2, <4>3, <4>4 DEF FormRight, NoTrue
    <3> QED
      BY <2>5, <3>7, <3>8
  <2> QED
    BY <1>0, <2>1, <2>2, <2>3, <2>4, <2>5, LayeredFacts
<1>3. ASSUME NEW g \in 1 .. h.next, 1 .. g - 1 \subseteq Good
      PROVE  g \in Good
  <2>1. \A x \in Live(h) : x < g => x \in 1 .. g - 1
    BY <1>0
  <2> QED
    BY <1>2, <1>3, <2>1
<1> HIDE DEF Good
<1>4. 1 .. h.next \subseteq Good
  BY <1>0, <1>3, FromBelow
<1> QED
  BY <1>0, <1>4 DEF Good, F

\* What getDnf leaves at the gate it was asked for, and that resetting the
\* flags from there resets all.
LEMMA WithFormFacts ==
  ASSUME NEW h, Suitable(h), NEW cache, DOMAIN cache = {}, NEW gate \in Live(h)
  PROVE  /\ FormOf(WithForm(h, cache, gate), gate) = Forms(h, cache)[gate]
         /\ DOMAIN ResetForms(h, WithForm(h, cache, gate), gate) = {}
<1> DEFINE L == Live(h)
           Asked(x) == IF Bivariate(h, x) /\ x \notin DOMAIN cache THEN Children(h, x) ELSE {}
           asking == [x \in L |-> Asked(x)]
           asked == Closure(asking, {gate})
           W == WithForm(h, cache, gate)
           D == {y \in asked : h.kind[y] # "FALSE"}
           flagged == [x \in L |-> Children(h, x) \cap DOMAIN W]
           R == Closure(flagged, {gate})
<1>1. Layered(h) /\ IsFiniteSet(L) /\ {gate} \in SUBSET L
  BY SuitableFacts, LiveIsFinite
<1>2. asking \in [L -> SUBSET L] /\ flagged \in [L -> SUBSET L]
  BY <1>1, ChildrenAreLive
<1>3. W = [x \in D |-> Forms(h, cache)[x]]
  BY DEF WithForm
<1>4. DOMAIN W = D
  BY <1>3
<1>5. ResetForms(h, W, gate) = [x \in D \ R |-> W[x]]
  BY <1>4 DEF ResetForms
<1>6. /\ \A x \in L : asking[x] = Asked(x)
      /\ \A x \in L : flagged[x] = Children(h, x) \cap D
  BY <1>4
<1> HIDE DEF asking, flagged, W
<1>7. {gate} \subseteq asked /\ asked \subseteq L /\ Closed(asking, asked)
  BY <1>1, <1>2, ClosureFacts
<1>8. {gate} \subseteq R /\ R \subseteq L /\ Closed(flagged, R)
  BY <1>1, <1>2, ClosureFacts
<1>9. FormOf(W, gate) = Forms(h, cache)[gate]
  <2>1. CASE h.kind[gate] = "FALSE"
    <3>1. Forms(h, cache)[gate] = FormStep(h, cache, Forms(h, cache), gate)
      BY FormsEquation
    <3>2. Forms(h, cache)[gate] = {}
      BY <2>1, <3>1, FormStepFacts
    <3> QED
      BY <1>4, <2>1, <3>2 DEF FormOf
  <2>2. CASE h.kind[gate] # "FALSE"
    BY <1>3, <1>4, <1>7, <2>2 DEF FormOf
  <2> QED
    BY <2>1, <2>2
<1> DEFINE T == {x \in asked : h.kind[x] = "FALSE" \/ x \in R}
<1>10. {gate} \subseteq T
  BY <1>7, <1>8
<1>11. ASSUME NEW x \in T, x \in DOMAIN asking
       PROVE  asking[x] \subseteq T
  <2>1. x \in L /\ x \in asked /\ asking[x] = Asked(x)
    BY <1>2, <1>6, <1>11
  <2>2. asking[x] \subseteq asked
    BY <1>2, <1>7, <2>1 DEF Closed
  <2>3. CASE h.kind[x] = "FALSE"
    BY <2>1, <2>3 DEF Bivariate
  <2>4. CASE x \in R
    <3>1. flagged[x] \subseteq R /\ flagged[x] = Children(h, x) \cap D
      BY <1>2, <1>6, <1>8, <2>1, <2>4 DEF Closed
    <3>2. asking[x] \subseteq Children(h, x)
      BY <2>1
    <3> QED
      BY <2>2, <3>1, <3>2
  <2> QED
    BY <2>3, <2>4
<1> HIDE DEF T, asked, R
<1>12. Closed(asking, T)
  BY <1>11 DEF Closed
<1>13. asked \subseteq T
  BY <1>1, <1>2, <1>10, <1>12, ClosureFacts DEF asked
<1>14. D \ R = {}
  BY <1>13 DEF T
<1>15. DOMAIN ResetForms(h, W, gate) = {}
  BY <1>5, <1>14
<1> QED
  BY <1>9, <1>15 DEF W

-----------------------------------------------------------------------------
(* Gates of one kind: what Within is.                                      *)

Through(h, kind) == [x \in Live(h) |-> IF h.kind[x] = kind THEN Children(h, x) ELSE {}]

LEMMA ThroughFacts ==
  ASSUME NEW h, Layered(h), NEW kind
  PROVE  /\ Through(h, kind) \in [Live(h) -> SUBSET Live(h)] /\ IsFiniteSet(Live(h))
         /\ \A x \in Live(h) : Through(h, kind)[x] = IF h.kind[x] = kind THEN Children(h, x) ELSE {}
         /\ \A g : Within(h, kind, g) = Closure(Through(h, kind), {g})
<1>1. \A x \in Live(h) : (IF h.kind[x] = kind THEN Children(h, x) ELSE {}) \subseteq Live(h)
  BY ChildrenAreLive
<1>2. IsFiniteSet(Live(h))
  BY LiveIsFinite
<1> QED
  BY <1>1, <1>2 DEF Through, Within

LEMMA WithinFacts ==
  ASSUME NEW h, Layered(h), NEW kind, NEW g \in Live(h)
  PROVE  /\ g \in Within(h, kind, g) /\ Within(h, kind, g) \subseteq Live(h)
         /\ Within(h, kind, g) \subseteq ReachableFrom(h, {g})
         /\ \A x \in Within(h, kind, g) :
              h.kind[x] = kind => Children(h, x) \subseteq Within(h, kind, g)
         /\ \A T : /\ g \in T
                   /\ \A x \in T \cap Live(h) : h.kind[x] = kind => Children(h, x) \subseteq T
                   => Within(h, kind, g) \subseteq T
         /\ h.kind[g] # kind => Within(h, kind, g) = {g}
         /\ h.kind[g] = kind =>
              \A z : z \in Within(h, kind, g) <=>
                     z = g \/ \E y \in Children(h, g) : z \in Within(h, kind, y)
<1> DEFINE L == Live(h)
           next == Through(h, kind)
           W == Within(h, kind, g)
           Least(T) == g \in T /\ (\A x \in T \cap L : h.kind[x] = kind => Children(h, x) \subseteq T)
<1>1. /\ next \in [L -> SUBSET L] /\ IsFiniteSet(L) /\ {g} \in SUBSET L
      /\ \A x \in L : next[x] = IF h.kind[x] = kind THEN Children(h, x) ELSE {}
      /\ \A x : Within(h, kind, x) = Closure(next, {x})
      /\ W = Closure(next, {g}) /\ g \in L
  BY ThroughFacts
<1> HIDE DEF next, L, W
<1>2. {g} \subseteq W /\ W \subseteq L /\ Closed(next, W)
  <2>1. /\ {g} \subseteq Closure(next, {g}) /\ Closure(next, {g}) \subseteq L
        /\ Closed(next, Closure(next, {g}))
    BY <1>1, ClosureFacts
  <2> QED
    BY <1>1, <2>1
<1>3. ASSUME NEW T, Least(T)
      PROVE  W \subseteq T
  <2>1. {g} \subseteq T /\ Closed(next, T)
    BY <1>1, <1>3 DEF Closed
  <2>2. Closure(next, {g}) \subseteq T
    BY <1>1, <2>1, ClosureFacts
  <2> QED
    BY <1>1, <2>2
<1>4. \A z : z \in W <=> z = g \/ \E y \in next[g] : z \in Within(h, kind, y)
  <2>1. IsFiniteSet(L) /\ next \in [L -> SUBSET L] /\ g \in L
    BY <1>1
  <2>2. \A z : z \in Closure(next, {g}) <=>
               z = g \/ \E y \in next[g] : z \in Closure(next, {y})
    BY <2>1, ClosureOfOne
  <2>3. W = Closure(next, {g}) /\ \A y : Within(h, kind, y) = Closure(next, {y})
    BY <1>1
  <2> QED
    BY ONLY <2>2, <2>3
<1>5. h.kind[g] # kind => W = {g}
  BY <1>1, <1>4
<1>6. h.kind[g] = kind =>
        \A z : z \in W <=> z = g \/ \E y \in Children(h, g) : z \in Within(h, kind, y)
  BY <1>1, <1>4
<1>7. \A x \in W : h.kind[x] = kind => Children(h, x) \subseteq W
  BY <1>1, <1>2 DEF Closed
<1> DEFINE R == ReachableFrom(h, {g})
<1>8. {g} \subseteq R /\ Downward(h, R)
  BY <1>1, ReachFacts DEF L
<1> HIDE DEF R
<1>9. Least(R)
  BY <1>8 DEF Downward, L
<1>10. W \subseteq R
  BY <1>3, <1>9
<1> HIDE DEF W
<1> QED
  BY <1>2, <1>3, <1>5, <1>6, <1>7, <1>10 DEF L, W, R

LEMMA SameWithin ==
  ASSUME NEW h, NEW j, NEW T, AgreeOn(h, j, T), NEW kind, NEW g \in T
  PROVE  Within(h, kind, g) = Within(j, kind, g) /\ Within(h, kind, g) \subseteq T
<1> DEFINE L == Live(h)
           M == Live(j)
           next == Through(h, kind)
           other == Through(j, kind)
<1>1. Layered(h) /\ Layered(j) /\ T \subseteq L /\ T \subseteq M /\ Downward(h, T)
  BY DEF AgreeOn
<1>2. /\ next \in [L -> SUBSET L] /\ IsFiniteSet(L)
      /\ \A x \in L : next[x] = IF h.kind[x] = kind THEN Children(h, x) ELSE {}
      /\ \A x : Within(h, kind, x) = Closure(next, {x})
  BY <1>1, ThroughFacts
<1>3. /\ other \in [M -> SUBSET M] /\ IsFiniteSet(M)
      /\ \A x \in M : other[x] = IF j.kind[x] = kind THEN Children(j, x) ELSE {}
      /\ \A x : Within(j, kind, x) = Closure(other, {x})
  BY <1>1, ThroughFacts
<1>4. \A x \in T : h.kind[x] = j.kind[x] /\ Children(h, x) = Children(j, x)
  BY DEF AgreeOn, Children
<1> HIDE DEF next, other
<1>5. Closed(next, T) /\ \A x \in T : next[x] = other[x]
  BY <1>1, <1>2, <1>3, <1>4 DEF Closed, Downward
<1>6. {g} \in SUBSET T
  OBVIOUS
<1>7. Closure(next, {g}) = Closure(other, {g})
  BY <1>1, <1>2, <1>3, <1>5, <1>6, ClosureWithin
<1>8. Closure(next, {g}) \subseteq T
  BY <1>1, <1>2, <1>5, <1>6, ClosureFacts
<1> QED
  BY <1>2, <1>3, <1>7, <1>8

\* What is read off the gates in T is the same in both heaps.
LEMMA SameReadings ==
  ASSUME NEW h, NEW j, NEW T, AgreeOn(h, j, T)
  PROVE  /\ \A c \in T : Collect(h, c) = Collect(j, c) /\ (Plain(h, c) <=> Plain(j, c))
         /\ \A g \in T : /\ ClauseGates(h, g) = ClauseGates(j, g) /\ ClauseGates(h, g) \subseteq T
                         /\ ImplicantList(h, g) = ImplicantList(j, g)
         /\ \A g \in T : \A list : BuiltFrom(h, g, list) <=> BuiltFrom(j, g, list)
<1>1. \A x \in T : h.kind[x] = j.kind[x] /\ h.in[x] = j.in[x]
  BY DEF AgreeOn
<1>2. \A x \in T : Allowed(h, x) = Allowed(j, x)
  BY <1>1 DEF Allowed
<1>3. ASSUME NEW c \in T
      PROVE  Collect(h, c) = Collect(j, c) /\ (Plain(h, c) <=> Plain(j, c))
  <2> DEFINE W == Within(h, "AND", c)
  <2>1. W = Within(j, "AND", c) /\ W \subseteq T
    BY SameWithin
  <2>2. /\ Collect(h, c) = [i \in InputGate |-> {v \in {0, 1} : \A x \in W : v \in Allowed(h, x)[i]}]
        /\ Collect(j, c) = [i \in InputGate |-> {v \in {0, 1} : \A x \in W : v \in Allowed(j, x)[i]}]
    BY <2>1 DEF Collect
  <2> HIDE DEF W
  <2>3. \A x \in W : Allowed(h, x) = Allowed(j, x)
    BY <1>2, <2>1
  <2>4. Collect(h, c) = Collect(j, c)
    BY <2>2, <2>3
  <2> DEFINE R == ReachableFrom(h, {c})
  <2>5. R = ReachableFrom(j, {c}) /\ R \subseteq T
    BY SameReach
  <2>6. Plain(h, c) <=> \A g \in R : h.kind[g] # "OR"
    BY DEF Plain
  <2>7. Plain(j, c) <=> \A g \in R : j.kind[g] # "OR"
    BY <2>5 DEF Plain
  <2> HIDE DEF R
  <2> QED
    BY <1>1, <2>4, <2>5, <2>6, <2>7
<1>4. ASSUME NEW g \in T
      PROVE  /\ ClauseGates(h, g) = ClauseGates(j, g) /\ ClauseGates(h, g) \subseteq T
             /\ ImplicantList(h, g) = ImplicantList(j, g)
             /\ \A list : BuiltFrom(h, g, list) <=> BuiltFrom(j, g, list)
  <2> DEFINE W == Within(h, "OR", g)
             C == ClauseGates(h, g)
  <2>1. W = Within(j, "OR", g) /\ W \subseteq T
    BY SameWithin
  <2>2. C = {x \in W : h.kind[x] # "OR"} /\ ClauseGates(j, g) = {x \in W : j.kind[x] # "OR"}
    BY <2>1 DEF ClauseGates
  <2> HIDE DEF W
  <2>3. C = ClauseGates(j, g) /\ C \subseteq T
    BY <1>1, <2>1, <2>2
  <2>4. /\ ImplicantList(h, g) = {p \in {Implicant(Collect(h, c)) : c \in C} : IsValid(p)}
        /\ ImplicantList(j, g) = {p \in {Implicant(Collect(j, c)) : c \in C} : IsValid(p)}
    BY <2>3 DEF ImplicantList
  <2> HIDE DEF C
  <2>5. {Implicant(Collect(h, c)) : c \in C} = {Implicant(Collect(j, c)) : c \in C}
    BY <1>3, <2>3
  <2>6. ImplicantList(h, g) = ImplicantList(j, g)
    BY <2>4, <2>5
  <2>7. (\A c \in C : Plain(h, c)) <=> (\A c \in C : Plain(j, c))
    BY <1>3, <2>3
  <2>8. \A list : BuiltFrom(h, g, list) <=> BuiltFrom(j, g, list)
    BY <2>3, <2>6, <2>7 DEF BuiltFrom, C
  <2> QED
    BY <2>3, <2>6, <2>8 DEF C
<1> QED
  BY <1>3, <1>4

-----------------------------------------------------------------------------
(* What is read off the gates covers what they compute.                    *)

LEMMA ClauseFacts ==
  ASSUME NEW h, Layered(h), NEW g \in Live(h)
  PROVE  /\ ClauseGates(h, g) \subseteq Live(h)
         /\ h.kind[g] # "OR" => ClauseGates(h, g) = {g}
         /\ h.kind[g] = "OR" =>
              \A c : c \in ClauseGates(h, g) <=> \E x \in Children(h, g) : c \in ClauseGates(h, x)
<1>1. \A x : ClauseGates(h, x) = {c \in Within(h, "OR", x) : h.kind[c] # "OR"}
  BY DEF ClauseGates
<1>2. /\ Within(h, "OR", g) \subseteq Live(h)
      /\ h.kind[g] # "OR" => Within(h, "OR", g) = {g}
      /\ h.kind[g] = "OR" =>
           \A z : z \in Within(h, "OR", g) <=>
                    z = g \/ \E y \in Children(h, g) : z \in Within(h, "OR", y)
  BY WithinFacts
<1> QED
  BY <1>1, <1>2

\* A circuit computes the disjunction of its clauses.
LEMMA TableOfClauses ==
  ASSUME NEW h, Layered(h), NEW out \in Live(h)
  PROVE  \A a : a \in Table(h, out) <=> \E c \in ClauseGates(h, out) : a \in Table(h, c)
<1> DEFINE L == Live(h)
           Right(g) == \A a : a \in Table(h, g) <=> \E c \in ClauseGates(h, g) : a \in Table(h, c)
           Good == {g \in 1 .. h.next : g \in L => Right(g)}
<1>1. h.next \in Nat /\ L \subseteq 1 .. h.next
  BY LayeredFacts
<1>2. ASSUME NEW g \in L, \A x \in L : x < g => Right(x)
      PROVE  Right(g)
  <2>1. CASE h.kind[g] # "OR"
    BY <2>1, ClauseFacts
  <2>2. CASE h.kind[g] = "OR"
    <3> DEFINE c == h.in[g][1]
               d == h.in[g][2]
    <3>1. /\ c \in L /\ c < g /\ d \in L /\ d < g /\ Children(h, g) = {c, d}
          /\ Table(h, g) = Table(h, c) \cup Table(h, d)
      BY <2>2, LayeredFacts, TableOf
    <3> HIDE DEF c, d
    <3>2. \A x : x \in ClauseGates(h, g) <=> x \in ClauseGates(h, c) \/ x \in ClauseGates(h, d)
      BY <2>2, <3>1, ClauseFacts
    <3>3. Right(c) /\ Right(d)
      BY <1>2, <3>1
    <3> QED
      BY <3>1, <3>2, <3>3
  <2> QED
    BY <2>1, <2>2
<1>3. ASSUME NEW g \in 1 .. h.next, 1 .. g - 1 \subseteq Good
      PROVE  g \in Good
  <2>1. \A x \in L : x < g => x \in 1 .. g - 1
    BY <1>1
  <2> HIDE DEF Right
  <2> QED
    BY <1>2, <1>3, <2>1
<1> HIDE DEF Good
<1>4. 1 .. h.next \subseteq Good
  BY <1>1, <1>3, FromBelow
<1> QED
  BY <1>1, <1>4 DEF Good

LEMMA CollectFacts ==
  ASSUME NEW h, NEW g
  PROVE  /\ Collect(h, g) \in [InputGate -> Value]
         /\ \A i \in InputGate : \A v :
              v \in Collect(h, g)[i] <=>
                v \in {0, 1} /\ \A x \in Within(h, "AND", g) : v \in Allowed(h, x)[i]
<1> DEFINE W == Within(h, "AND", g)
<1>1. Collect(h, g) = [i \in InputGate |-> {v \in {0, 1} : \A x \in W : v \in Allowed(h, x)[i]}]
  BY DEF Collect
<1> HIDE DEF W
<1>2. Collect(h, g) \in [InputGate -> Value]
  BY <1>1 DEF Value
<1>3. \A i \in InputGate : \A v :
        v \in Collect(h, g)[i] <=> v \in {0, 1} /\ \A x \in W : v \in Allowed(h, x)[i]
  BY <1>1
<1> QED
  BY <1>2, <1>3 DEF W

\* A clause with no AND at its top is a literal or a constant.
LEMMA CollectOfLeaf ==
  ASSUME NEW h, Suitable(h), NEW g \in Live(h), h.kind[g] \notin {"AND", "OR"}
  PROVE  /\ Collect(h, g) = Allowed(h, g) /\ Points(Collect(h, g)) = Table(h, g)
         /\ h.kind[g] = "FALSE" => ~Valid(Collect(h, g))
<1> DEFINE A == Allowed(h, g)
<1>1. Layered(h) /\ Within(h, "AND", g) = {g}
  BY SuitableFacts, WithinFacts
<1>2. A \in [InputGate -> Value] /\ Points(A) = Table(h, g) /\ (h.kind[g] = "FALSE" => ~Valid(A))
  <2>1. CASE h.kind[g] = "INPUT"
    <3>1. g \in InputGate /\ h.id[g] = g /\ Table(h, g) = {a \in Valuation : h.id[g] \in a}
      BY <1>1, <2>1, LayeredFacts, TableOf
    <3>2. A = [DontCares EXCEPT ![g] = {1}]
      BY <2>1 DEF Allowed
    <3> DEFINE w == [DontCares EXCEPT ![g] = {1}]
    <3>3. w \in [InputGate -> Value] /\ Points(w) = {a \in Valuation : 1 = 1 <=> g \in a}
      BY <3>1, LiteralFacts
    <3>4. A = w
      BY <3>2
    <3> HIDE DEF w, A
    <3> QED
      BY <2>1, <3>1, <3>3, <3>4
  <2>2. CASE h.kind[g] = "NOT"
    <3> DEFINE i == h.in[g][1]
    <3>1. i \in InputGate
      BY <2>2, SuitableFacts
    <3>2. Table(h, g) = Valuation \ Table(h, i)
      BY <1>1, <2>2, TableOf
    <3>3. A = [DontCares EXCEPT ![i] = {0}]
      BY <2>2 DEF Allowed
    <3> HIDE DEF i
    <3>4. Table(h, i) = {a \in Valuation : i \in a}
      <4>1. i \in Live(h) /\ h.kind[i] = "INPUT" /\ h.id[i] = i
        BY <1>1, <3>1, LayeredFacts
      <4> QED
        BY <1>1, <4>1, TableOf
    <3> DEFINE w == [DontCares EXCEPT ![i] = {0}]
    <3>5. w \in [InputGate -> Value] /\ Points(w) = {a \in Valuation : 0 = 1 <=> i \in a}
      BY <3>1, LiteralFacts
    <3>6. A = w
      BY <3>3
    <3> HIDE DEF w, A
    <3> QED
      BY <2>2, <3>2, <3>4, <3>5, <3>6
  <2>3. CASE h.kind[g] = "TRUE"
    <3>1. A = DontCares /\ Table(h, g) = Valuation
      BY <1>1, <2>3, TableOf DEF Allowed
    <3> QED
      BY <2>3, <3>1, ConstantValues, PointsFacts
  <2>4. CASE h.kind[g] = "FALSE"
    <3>1. A = [DontCares EXCEPT ![1] = {}] /\ Table(h, g) = {}
      BY <1>1, <2>4, TableOf DEF Allowed
    <3>2. A \in [InputGate -> Value] /\ A[1] = {}
      BY <3>1, ConstantValues, OneIsInput DEF Value
    <3> HIDE DEF A
    <3>3. ~Valid(A)
      BY <3>2, OneIsInput DEF Valid
    <3> QED
      BY <3>1, <3>2, <3>3, PointsFacts
  <2> QED
    BY <1>1, <2>1, <2>2, <2>3, <2>4, LayeredFacts
<1> HIDE DEF A
<1>3. ASSUME NEW i \in InputGate
      PROVE  Collect(h, g)[i] = A[i]
  <2>1. \A v : v \in Collect(h, g)[i] <=> v \in {0, 1} /\ v \in A[i]
    BY <1>1, CollectFacts DEF A
  <2>2. A[i] \subseteq {0, 1}
    BY <1>2 DEF Value
  <2> QED
    BY <2>1, <2>2
<1>4. Collect(h, g) = A
  BY <1>2, <1>3, CollectFacts
<1> QED
  BY <1>2, <1>4 DEF A

\* An AND takes the literals of both its inputs.
LEMMA CollectOfAnd ==
  ASSUME NEW h, Layered(h), NEW g \in Live(h), h.kind[g] = "AND"
  PROVE  /\ Points(Collect(h, g)) = Points(Collect(h, h.in[g][1])) \cap Points(Collect(h, h.in[g][2]))
         /\ \A i \in InputGate :
              Collect(h, g)[i] = Collect(h, h.in[g][1])[i] \cap Collect(h, h.in[g][2])[i]
<1> DEFINE c == h.in[g][1]
           d == h.in[g][2]
           v == Collect(h, c)
           w == Collect(h, d)
           W(x) == Within(h, "AND", x)
<1>1. c \in Live(h) /\ d \in Live(h) /\ Children(h, g) = {c, d}
  BY LayeredFacts
<1>2. \A z : z \in W(g) <=> z = g \/ \E y \in Children(h, g) : z \in W(y)
  BY WithinFacts
<1> HIDE DEF c, d
<1>3. \A z : z \in W(g) <=> z = g \/ z \in W(c) \/ z \in W(d)
  BY <1>1, <1>2
<1>4. Allowed(h, g) = DontCares /\ \A i \in InputGate : DontCares[i] = {0, 1}
  BY DEF Allowed, DontCares
<1>5. /\ Collect(h, g) \in [InputGate -> Value] /\ v \in [InputGate -> Value] /\ w \in [InputGate -> Value]
      /\ \A i \in InputGate : \A x :
           /\ x \in Collect(h, g)[i] <=> x \in {0, 1} /\ \A z \in W(g) : x \in Allowed(h, z)[i]
           /\ x \in v[i] <=> x \in {0, 1} /\ \A z \in W(c) : x \in Allowed(h, z)[i]
           /\ x \in w[i] <=> x \in {0, 1} /\ \A z \in W(d) : x \in Allowed(h, z)[i]
  BY CollectFacts
<1> HIDE DEF v, w, W
<1>6. ASSUME NEW i \in InputGate
      PROVE  Collect(h, g)[i] = v[i] \cap w[i]
  <2>1. \A x : x \in Collect(h, g)[i] <=> x \in v[i] /\ x \in w[i]
    BY <1>3, <1>4, <1>5
  <2> QED
    BY <2>1
<1>7. Collect(h, g) = [i \in InputGate |-> v[i] \cap w[i]]
  BY <1>5, <1>6
<1>8. Points(Collect(h, g)) = Points(v) \cap Points(w)
  BY <1>5, <1>7, PointsFacts
<1> QED
  BY <1>6, <1>8 DEF v, w, c, d

LEMMA PlainBelow ==
  ASSUME NEW h, Layered(h), NEW g \in Live(h), Plain(h, g)
  PROVE  h.kind[g] # "OR" /\ \A x \in Children(h, g) : Plain(h, x)
BY ReachBelow DEF Plain

LEMMA PlainTable ==
  ASSUME NEW h, Suitable(h), NEW clause \in Live(h), Plain(h, clause)
  PROVE  Points(Collect(h, clause)) = Table(h, clause)
<1> DEFINE L == Live(h)
           Right(g) == Plain(h, g) => Points(Collect(h, g)) = Table(h, g)
           Good == {g \in 1 .. h.next : g \in L => Right(g)}
<1>1. Layered(h) /\ h.next \in Nat /\ L \subseteq 1 .. h.next
  BY SuitableFacts, LayeredFacts
<1>2. ASSUME NEW g \in L, \A x \in L : x < g => Right(x), Plain(h, g)
      PROVE  Points(Collect(h, g)) = Table(h, g)
  <2>1. h.kind[g] # "OR"
    BY <1>1, <1>2, PlainBelow
  <2>2. CASE h.kind[g] # "AND"
    BY <2>1, <2>2, CollectOfLeaf
  <2>3. CASE h.kind[g] = "AND"
    <3> DEFINE c == h.in[g][1]
               d == h.in[g][2]
    <3>1. /\ c \in L /\ c < g /\ d \in L /\ d < g /\ Children(h, g) = {c, d}
          /\ Table(h, g) = Table(h, c) \cap Table(h, d)
      BY <1>1, <2>3, LayeredFacts, TableOf
    <3>2. Points(Collect(h, g)) = Points(Collect(h, c)) \cap Points(Collect(h, d))
      BY <1>1, <2>3, CollectOfAnd
    <3> HIDE DEF c, d
    <3>3. Plain(h, c) /\ Plain(h, d)
      BY <1>1, <1>2, <3>1, PlainBelow
    <3> QED
      BY <1>2, <3>1, <3>2, <3>3
  <2> QED
    BY <2>2, <2>3
<1>3. ASSUME NEW g \in 1 .. h.next, 1 .. g - 1 \subseteq Good
      PROVE  g \in Good
  <2>1. \A x \in L : x < g => x \in 1 .. g - 1
    BY <1>1
  <2> QED
    BY <1>2, <1>3, <2>1
<1> HIDE DEF Good
<1>4. 1 .. h.next \subseteq Good
  BY <1>1, <1>3, FromBelow
<1> QED
  BY <1>1, <1>4 DEF Good

\* What is read off the clauses of a circuit covers what the circuit computes.
LEMMA BuiltTable ==
  ASSUME NEW h, Suitable(h), NEW out \in Live(h),
         \A clause \in ClauseGates(h, out) : Plain(h, clause)
  PROVE  /\ Table(h, out) = Covered(ImplicantList(h, out))
         /\ ImplicantList(h, out) \in SUBSET Implicants
<1> DEFINE C == ClauseGates(h, out)
           I == ImplicantList(h, out)
<1>1. Layered(h) /\ C \subseteq Live(h) /\ \A a : a \in Table(h, out) <=> \E c \in C : a \in Table(h, c)
  BY SuitableFacts, ClauseFacts, TableOfClauses
<1>2. I = {p \in {Implicant(Collect(h, c)) : c \in C} : IsValid(p)}
  BY DEF ImplicantList
<1>3. ASSUME NEW c \in C
      PROVE  /\ Implicant(Collect(h, c)) \in Implicants
             /\ Points(Implicant(Collect(h, c)).values) = Table(h, c)
  BY <1>1, CollectFacts, ImplicantOf, PointsOfImplicant, PlainTable
<1> HIDE DEF C, I
<1>4. I \in SUBSET Implicants
  BY <1>2, <1>3
<1>5. ASSUME NEW a
      PROVE  a \in Table(h, out) <=> a \in Covered(I)
  <2>1. ASSUME NEW c \in C, a \in Table(h, c)
        PROVE  a \in Covered(I)
    <3> DEFINE p == Implicant(Collect(h, c))
    <3>1. p \in Implicants /\ a \in Points(p.values)
      BY <1>3, <2>1
    <3>2. p \in {Implicant(Collect(h, x)) : x \in C}
      OBVIOUS
    <3> HIDE DEF p
    <3>3. IsValid(p)
      BY <3>1, ImplicantFacts, PointsFacts DEF IsValid
    <3> QED
      BY <1>2, <3>1, <3>2, <3>3, CoveredFacts
  <2>2. ASSUME NEW p \in I, a \in Points(p.values)
        PROVE  \E c \in C : a \in Table(h, c)
    BY <1>2, <1>3, <2>2
  <2>3. a \in Covered(I) <=> \E p \in I : a \in Points(p.values)
    BY CoveredFacts
  <2> QED
    BY <1>1, <2>1, <2>2, <2>3
<1>6. Table(h, out) = Covered(I)
  BY <1>5
<1> QED
  BY <1>4, <1>6 DEF I

-----------------------------------------------------------------------------
(* A tree of gates of one kind over a list.                                *)

\* The netlist has a gate of this kind for each member of list but one, over
\* those and the gates before; all but the last one are used by another.
TreeOver(netlist, kind, list, first) ==
  LET n == Len(list)
      Given == {list[m] : m \in 1 .. n}
  IN  /\ Len(netlist) = n - 1
      /\ \A k \in 1 .. n - 1 : \E a, b \in Given \cup first .. first + k - 2 :
           netlist[k] = <<kind, a, b>>
      /\ \A m \in 1 .. n : n = 1 \/ \E k \in 1 .. n - 1 :
           list[m] = netlist[k][2] \/ list[m] = netlist[k][3]
      /\ \A m \in 1 .. n - 2 : \E k \in 1 .. n - 1 :
           first + m - 1 = netlist[k][2] \/ first + m - 1 = netlist[k][3]

LEMMA Halves ==
  ASSUME NEW j \in Nat \ {0}
  PROVE  \E k \in Nat \ {0} : j = 2 * k - 1 \/ j = 2 * k
<1> DEFINE k == (j + 1) \div 2
<1>1. k \in Nat \ {0} /\ (j = 2 * k - 1 \/ j = 2 * k)
  OBVIOUS
<1> QED
  BY <1>1

LEMMA LinearIsTree ==
  ASSUME NEW S \in SUBSET Nat, NEW list \in Seq(S), Len(list) >= 1, NEW first \in Nat, NEW kind
  PROVE  TreeOver(Linear(kind, list, first), kind, list, first)
<1> DEFINE n == Len(list)
           N == Linear(kind, list, first)
           Top(k) == IF k = 1 THEN list[1] ELSE first + k - 2
           Given == {list[m] : m \in 1 .. n}
<1>1. n \in Nat /\ n >= 1
  OBVIOUS
<1>2. N = [k \in 1 .. n - 1 |-> IF kind = "AND" THEN <<kind, list[k + 1], Top(k)>>
                                 ELSE <<kind, Top(k), list[k + 1]>>]
  BY DEF Linear
<1>3. Len(N) = n - 1
  BY <1>1, <1>2
<1>4. \A k \in 1 .. n - 1 : Top(k) \in Given \cup first .. first + k - 2 /\ list[k + 1] \in Given
  BY <1>1
<1> HIDE DEF n, N, Top, Given
<1>5. \A k \in 1 .. n - 1 : \/ N[k] = <<kind, list[k + 1], Top(k)>>
                            \/ N[k] = <<kind, Top(k), list[k + 1]>>
  BY <1>2
<1>6. \A k \in 1 .. n - 1 : \E a, b \in Given \cup first .. first + k - 2 : N[k] = <<kind, a, b>>
  BY <1>4, <1>5
<1>7. \A k \in 1 .. n - 1 : /\ list[k + 1] = N[k][2] \/ list[k + 1] = N[k][3]
                            /\ Top(k) = N[k][2] \/ Top(k) = N[k][3]
  BY <1>5
<1>8. ASSUME NEW m \in 1 .. n, n # 1
      PROVE  \E k \in 1 .. n - 1 : list[m] = N[k][2] \/ list[m] = N[k][3]
  <2>1. CASE m = 1
    <3>1. 1 \in 1 .. n - 1 /\ Top(1) = list[1]
      BY <1>1, <1>8 DEF Top
    <3> QED
      BY <1>7, <2>1, <3>1
  <2>2. CASE m # 1
    <3>1. m - 1 \in 1 .. n - 1 /\ m - 1 + 1 = m
      BY <1>1, <2>2
    <3> QED
      BY <1>7, <3>1
  <2> QED
    BY <2>1, <2>2
<1>9. ASSUME NEW m \in 1 .. n - 2
      PROVE  \E k \in 1 .. n - 1 : first + m - 1 = N[k][2] \/ first + m - 1 = N[k][3]
  <2>1. m + 1 \in 1 .. n - 1 /\ Top(m + 1) = first + m - 1
    BY <1>1 DEF Top
  <2> QED
    BY <1>7, <2>1
<1> QED
  BY <1>3, <1>6, <1>8, <1>9 DEF TreeOver, n, N, Given

LEMMA BalancedIsTree ==
  ASSUME NEW S \in SUBSET Nat, NEW list \in Seq(S), Len(list) >= 1, NEW first \in Nat, NEW kind
  PROVE  TreeOver(Balanced(kind, list, first), kind, list, first)
<1> DEFINE n == Len(list)
           N == Balanced(kind, list, first)
           names == Names(first, list)
           queue == list \o names
           Given == {list[m] : m \in 1 .. n}
<1>1. n \in Nat /\ n >= 1 /\ list \in Seq(Nat)
  <2>1. list \in [1 .. n -> S] /\ n \in Nat /\ n >= 1
    OBVIOUS
  <2> HIDE DEF n
  <2>2. list \in [1 .. n -> Nat]
    BY <2>1
  <2> QED
    BY <2>1, <2>2
<1>2. names = [k \in 1 .. n - 1 |-> first + k - 1] /\ names \in Seq(Nat) /\ Len(names) = n - 1
  <2>1. names = [k \in 1 .. n - 1 |-> first + k - 1]
    BY DEF Names
  <2>2. names \in [1 .. n - 1 -> Nat] /\ n - 1 \in Nat
    BY <1>1, <2>1
  <2> HIDE DEF names, n
  <2> QED
    BY <2>1, <2>2
<1>3. N = [k \in 1 .. n - 1 |-> <<kind, queue[2 * k - 1], queue[2 * k]>>]
  BY DEF Balanced
<1>4. Len(N) = n - 1
  BY <1>1, <1>3
<1>5. /\ \A m \in 1 .. n : queue[m] = list[m] /\ list[m] \in Given
      /\ \A m \in n + 1 .. 2 * n - 1 : queue[m] = first + (m - n) - 1
  <2> HIDE DEF names
  <2>1. \A m \in 1 .. n : queue[m] = list[m]
    BY <1>1, <1>2
  <2>2. \A m \in n + 1 .. 2 * n - 1 : queue[m] = names[m - n] /\ m - n \in 1 .. n - 1
    BY <1>1, <1>2
  <2>3. \A m \in n + 1 .. 2 * n - 1 : names[m - n] = first + (m - n) - 1
    BY <1>2, <2>2
  <2> QED
    BY <2>1, <2>2, <2>3
<1> HIDE DEF n, N, names, queue, Given
<1>6. ASSUME NEW k \in 1 .. n - 1, NEW m \in 1 .. 2 * k
      PROVE  queue[m] \in Given \cup first .. first + k - 2
  <2>1. CASE m <= n
    BY <1>1, <1>5, <2>1
  <2>2. CASE m > n
    <3>1. m \in n + 1 .. 2 * n - 1 /\ m - n <= k - 1 /\ m - n >= 1
      BY <1>1, <2>2
    <3> QED
      BY <1>1, <1>5, <3>1
  <2> QED
    BY <1>1, <2>1, <2>2
<1>7. ASSUME NEW k \in 1 .. n - 1
      PROVE  \E a, b \in Given \cup first .. first + k - 2 : N[k] = <<kind, a, b>>
  <2>1. 2 * k - 1 \in 1 .. 2 * k /\ 2 * k \in 1 .. 2 * k
    BY <1>1
  <2> QED
    BY <1>3, <1>6, <2>1
<1>8. ASSUME NEW j \in 1 .. 2 * n - 2
      PROVE  \E k \in 1 .. n - 1 : queue[j] = N[k][2] \/ queue[j] = N[k][3]
  <2>1. PICK k \in Nat \ {0} : j = 2 * k - 1 \/ j = 2 * k
    <3>1. j \in Nat \ {0}
      BY <1>1
    <3> QED
      BY <3>1, Halves
  <2>2. k \in 1 .. n - 1
    BY <1>1, <2>1
  <2>3. N[k][2] = queue[2 * k - 1] /\ N[k][3] = queue[2 * k]
    BY <1>3, <2>2
  <2> QED
    BY <2>1, <2>2, <2>3
<1>9. \A m \in 1 .. n : n = 1 \/ \E k \in 1 .. n - 1 : list[m] = N[k][2] \/ list[m] = N[k][3]
  BY <1>1, <1>5, <1>8
<1>10. ASSUME NEW m \in 1 .. n - 2
       PROVE  \E k \in 1 .. n - 1 : first + m - 1 = N[k][2] \/ first + m - 1 = N[k][3]
  <2>1. n + m \in 1 .. 2 * n - 2 /\ n + m \in n + 1 .. 2 * n - 1 /\ n + m - n = m
    BY <1>1
  <2>2. \A x \in n + 1 .. 2 * n - 1 : queue[x] = first + (x - n) - 1
    BY <1>5
  <2> DEFINE x == n + m
  <2>3. x \in n + 1 .. 2 * n - 1 /\ x - n = m
    BY <1>1, <2>1
  <2> HIDE DEF x
  <2>4. queue[x] = first + m - 1
    BY <2>2, <2>3
  <2> QED
    BY <1>8, <2>1, <2>4 DEF x
<1> QED
  BY <1>4, <1>7, <1>9, <1>10 DEF TreeOver, n, N, Given

\* What a tree can be built over.
TreeInput(h, kind, list) ==
  /\ HeapRecord(h) /\ Layered(h) /\ kind \in {"AND", "OR"}
  /\ list \in Seq(Live(h)) /\ Len(list) >= 1

\* j has gates of this kind over those of list, and from g one comes to all
\* of them and to the members of list through gates of this kind.
TreeResult(h, kind, list, j, g) ==
  LET new == h.next .. h.next + Len(list) - 2
      members == Range(list) \cup new
  IN  /\ HeapRecord(j) /\ AgreeOn(h, j, Live(h)) /\ Live(j) = Live(h) \cup new
      /\ j.next = h.next + Len(list) - 1
      /\ g \in members /\ (Len(list) > 1 => g \in new)
      /\ \A x \in new : j.kind[x] = kind /\ Children(j, x) \subseteq members
      /\ members \subseteq Within(j, kind, g)

LEMMA TreeFacts ==
  ASSUME NEW class, NEW h, NEW kind, NEW list, TreeInput(h, kind, list)
  PROVE  TreeResult(h, kind, list, Tree(class, h, kind, list).heap, Tree(class, h, kind, list).gate)
<1> DEFINE n == Len(list)
           netlist == IF class = "Circuit" THEN Balanced(kind, list, h.next)
                      ELSE Linear(kind, list, h.next)
           j == AddGates(h, netlist)
           g == IF n = 1 THEN list[1] ELSE h.next + n - 2
           new == h.next .. h.next + n - 2
           Given == {list[m] : m \in 1 .. n}
           members == Given \cup new
           W == Within(j, kind, g)
<1>1. Tree(class, h, kind, list) = [heap |-> j, gate |-> g]
  BY DEF Tree
<1>2. /\ HeapRecord(h) /\ Layered(h) /\ kind \in {"AND", "OR"}
      /\ list \in Seq(Live(h)) /\ n \in Nat /\ n >= 1
      /\ h.next \in Nat /\ Live(h) \subseteq Nat /\ Live(h) \subseteq 1 .. h.next
  BY LayeredFacts DEF TreeInput
<1>3. Given \subseteq Live(h) /\ Given = Range(list)
  BY <1>2 DEF Range
<1>4. TreeOver(netlist, kind, list, h.next)
  BY <1>2, BalancedIsTree, LinearIsTree
<1> HIDE DEF netlist
<1>5. /\ Len(netlist) = n - 1
      /\ \A k \in 1 .. n - 1 : \E a, b \in Given \cup h.next .. h.next + k - 2 :
           netlist[k] = <<kind, a, b>>
      /\ \A m \in 1 .. n : n = 1 \/ \E k \in 1 .. n - 1 :
           list[m] = netlist[k][2] \/ list[m] = netlist[k][3]
      /\ \A m \in 1 .. n - 2 : \E k \in 1 .. n - 1 :
           h.next + m - 1 = netlist[k][2] \/ h.next + m - 1 = netlist[k][3]
  BY <1>4 DEF TreeOver
<1> HIDE DEF n, Given
<1>6. ASSUME NEW k \in 1 .. n - 1
      PROVE  /\ GateAbove(netlist[k], Live(h) \cup h.next .. h.next + k - 2)
             /\ netlist[k][1] = kind /\ netlist[k][2] \in members /\ netlist[k][3] \in members
  <2>1. PICK a \in Given \cup h.next .. h.next + k - 2, b \in Given \cup h.next .. h.next + k - 2 :
          netlist[k] = <<kind, a, b>>
    BY <1>5
  <2> DEFINE spec == netlist[k]
             S == Live(h) \cup h.next .. h.next + k - 2
  <2>2. a \in S /\ b \in S /\ a \in members /\ b \in members
    BY <1>2, <1>3
  <2>3. spec = <<kind, a, b>>
    BY <2>1
  <2> HIDE DEF spec, S
  <2>4. GateAbove(spec, S)
    BY <1>2, <2>2, <2>3, SpecsAbove
  <2>5. spec[1] = kind /\ spec[2] = a /\ spec[3] = b
    BY <2>3
  <2> QED
    BY <2>2, <2>4, <2>5 DEF spec, S
<1>7. NetlistAbove(netlist, h)
  <2>1. Len(netlist) \in Nat
    BY <1>2, <1>5
  <2>2. \A k \in 1 .. Len(netlist) : GateAbove(netlist[k], Live(h) \cup h.next .. h.next + k - 2)
    BY <1>5, <1>6
  <2> QED
    BY <2>1, <2>2 DEF NetlistAbove
<1>8. Grown(h, j, n - 1, netlist) /\ AgreeOn(h, j, Live(h))
  BY <1>2, <1>5, <1>7, AddGatesFacts, AddGatesAgrees
<1> HIDE DEF j
<1>9. /\ HeapRecord(j) /\ Layered(j) /\ j.next = h.next + n - 1
      /\ Live(j) = Live(h) \cup h.next .. h.next + (n - 1) - 1
      /\ \A k \in 1 .. n - 1 : /\ j.kind[h.next + k - 1] = netlist[k][1]
                               /\ j.in[h.next + k - 1] = Tail(netlist[k])
  BY <1>2, <1>8 DEF Grown
<1>10. Live(j) = Live(h) \cup new
  BY <1>2, <1>9
<1>11. ASSUME NEW k \in 1 .. n - 1
       PROVE  /\ h.next + k - 1 \in new /\ j.kind[h.next + k - 1] = kind
              /\ Children(j, h.next + k - 1) = {netlist[k][2], netlist[k][3]}
  <2> DEFINE x == h.next + k - 1
             spec == netlist[k]
  <2>1. x \in new /\ x \in Live(j)
    BY <1>2, <1>10
  <2>2. j.kind[x] = kind /\ j.in[x] = Tail(spec)
    BY <1>6, <1>9
  <2>3. spec[1] = kind /\ Arity(kind) = 2
    BY <1>2, <1>6 DEF Arity
  <2>4. GateAbove(spec, Live(h) \cup h.next .. h.next + k - 2)
    BY <1>6
  <2> HIDE DEF x, spec
  <2>5. Tail(spec)[1] = spec[2] /\ Tail(spec)[2] = spec[3]
    <3>1. \A i \in 1 .. 2 : Tail(spec)[i] = spec[i + 1]
      BY <2>3, <2>4, TailOfSpec
    <3>2. 1 \in 1 .. 2 /\ 2 \in 1 .. 2 /\ 1 + 1 = 2 /\ 2 + 1 = 3
      OBVIOUS
    <3> QED
      BY <3>1, <3>2
  <2>6. Children(j, x) = {j.in[x][1], j.in[x][2]}
    <3>1. Layered(j) /\ x \in Live(j) /\ j.kind[x] \in {"AND", "OR"}
      BY <1>2, <1>9, <2>1, <2>2
    <3> QED
      BY <3>1, LayeredFacts
  <2>7. Children(j, x) = {spec[2], spec[3]}
    BY <2>2, <2>5, <2>6
  <2> QED
    BY <2>1, <2>2, <2>7 DEF x, spec
<1>12. \A x \in new : \E k \in 1 .. n - 1 : x = h.next + k - 1
  <2>1. ASSUME NEW x \in new
        PROVE  x - h.next + 1 \in 1 .. n - 1 /\ x = h.next + (x - h.next + 1) - 1
    BY <1>2
  <2> QED
    BY <2>1
<1>13. ASSUME NEW x \in new
       PROVE  j.kind[x] = kind /\ Children(j, x) \subseteq members
  <2>1. PICK k \in 1 .. n - 1 : x = h.next + k - 1
    BY <1>12
  <2>2. j.kind[x] = kind /\ Children(j, x) = {netlist[k][2], netlist[k][3]}
    BY <1>11, <2>1
  <2> QED
    BY <1>6, <2>2
<1>14. g \in members /\ (n > 1 => g \in new) /\ g \in Live(j)
  <2>1. CASE n = 1
    BY <1>2, <1>3, <1>10, <2>1 DEF Given
  <2>2. CASE n # 1
    <3>1. h.next + n - 2 \in new
      BY <1>2, <2>2
    <3> QED
      BY <1>10, <2>2, <3>1
  <2> QED
    BY <2>1, <2>2
<1>15. /\ g \in W
       /\ \A x \in W : j.kind[x] = kind => Children(j, x) \subseteq W
  <2> HIDE DEF g
  <2> QED
    BY <1>9, <1>14, WithinFacts
<1>16. \A x \in members : x # g => \E y \in new : x \in Children(j, y)
  <2>1. ASSUME NEW m \in 1 .. n, list[m] # g
        PROVE  \E y \in new : list[m] \in Children(j, y)
    <3>1. n # 1
      BY <2>1
    <3>2. PICK k \in 1 .. n - 1 : list[m] = netlist[k][2] \/ list[m] = netlist[k][3]
      BY <1>5, <3>1
    <3> QED
      BY <1>11, <3>2
  <2>2. ASSUME NEW x \in new, x # g
        PROVE  \E y \in new : x \in Children(j, y)
    <3>1. PICK m \in 1 .. n - 1 : x = h.next + m - 1
      BY <1>12
    <3>2. n # 1 /\ m # n - 1
      BY <1>2, <2>2, <3>1
    <3>3. m \in 1 .. n - 2
      BY <1>2, <3>2
    <3>4. PICK k \in 1 .. n - 1 : x = netlist[k][2] \/ x = netlist[k][3]
      BY <1>5, <3>1, <3>3
    <3> QED
      BY <1>11, <3>4
  <2> QED
    BY <2>1, <2>2 DEF Given
<1> HIDE DEF g, new, W
<1>17. members \subseteq W
  <2> DEFINE Missed == members \ W
  <2>1. Missed \subseteq 1 .. j.next /\ j.next \in Nat
    BY <1>3, <1>9, <1>10, LayeredFacts
  <2>2. ASSUME Missed # {}
        PROVE  FALSE
    <3>1. Missed \in SUBSET (1 .. j.next)
      BY <2>1
    <3> HIDE DEF Missed
    <3>2. PICK x \in Missed : \A y \in Missed : ~ (x < y)
      BY <2>1, <2>2, <3>1, Greatest
    <3>3. x \in members /\ x \notin W
      BY <3>2 DEF Missed
    <3>4. PICK y \in new : x \in Children(j, y)
      BY <1>15, <1>16, <3>3
    <3>5. y \in Live(j) /\ y \in members /\ j.kind[y] = kind
      BY <1>10, <1>13
    <3>6. x < y
      <4>1. Children(j, y) \subseteq 1 .. y - 1 /\ y \in Nat
        BY <1>9, <3>5, LayeredFacts DEF Layered
      <4> QED
        BY <3>4, <4>1
    <3>7. y \in W
      BY <3>2, <3>5, <3>6 DEF Missed
    <3> QED
      BY <1>15, <3>3, <3>4, <3>5, <3>7
  <2> QED
    BY <2>2
<1>18. TreeResult(h, kind, list, j, g)
  BY <1>3, <1>8, <1>9, <1>10, <1>13, <1>14, <1>17 DEF TreeResult, new, W, n
<1> QED
  BY <1>1, <1>18

-----------------------------------------------------------------------------
(* The gates of a clause.                                                  *)

LEMMA AgreeOnBoth ==
  ASSUME NEW h, NEW j, NEW k, AgreeOn(h, j, Live(h)), AgreeOn(j, k, Live(j))
  PROVE  AgreeOn(h, k, Live(h))
BY DEF AgreeOn

\* What is added keeps a heap suitable if it has inputs only below a NOT and
\* no TRUE below an AND.
LEMMA SuitableGrown ==
  ASSUME NEW h, Suitable(h), NEW j, HeapRecord(j), AgreeOn(h, j, Live(h)),
         \A g \in Live(j) \ Live(h) :
           /\ j.kind[g] = "NOT" => j.in[g][1] \in InputGate
           /\ j.kind[g] = "AND" => \A x \in ReachableFrom(j, {g}) : j.kind[x] # "TRUE"
  PROVE  Suitable(j)
<1>1. /\ Layered(j) /\ Live(h) \subseteq Live(j)
      /\ \A g \in Live(h) : j.kind[g] = h.kind[g] /\ j.in[g] = h.in[g]
  BY DEF AgreeOn
<1>2. ASSUME NEW g \in Live(j), j.kind[g] = "NOT"
      PROVE  j.in[g][1] \in InputGate
  <2>1. CASE g \in Live(h)
    BY <1>1, <1>2, <2>1, SuitableFacts
  <2> QED
    BY <1>2, <2>1
<1>3. ASSUME NEW g \in Live(j), j.kind[g] = "AND", NEW x \in ReachableFrom(j, {g})
      PROVE  j.kind[x] # "TRUE"
  <2>1. CASE g \in Live(h)
    <3>1. {g} \in SUBSET Live(h)
      BY <2>1
    <3>2. ReachableFrom(h, {g}) = ReachableFrom(j, {g}) /\ ReachableFrom(h, {g}) \subseteq Live(h)
      BY <3>1, SameReach
    <3>3. h.kind[x] # "TRUE"
      BY <1>1, <1>3, <2>1, <3>2, SuitableFacts
    <3> QED
      BY <1>1, <1>3, <3>2, <3>3
  <2> QED
    BY <1>3, <2>1
<1> QED
  BY <1>1, <1>2, <1>3 DEF Suitable, HeapRecord

\* The gate c of j stands for v, and the gates of h are in j as they were.
Means(j, c, v) ==
  /\ c \in Live(j) /\ j.kind[c] # "OR" /\ Plain(j, c)
  /\ IF Valid(v) THEN Collect(j, c) = v ELSE ~Valid(Collect(j, c))

ClauseResult(h, j, c, v) == Suitable(j) /\ AgreeOn(h, j, Live(h)) /\ Means(j, c, v)

\* A gate with no inputs.
LEMMA PlainLeaf ==
  ASSUME NEW h, Layered(h), NEW g \in Live(h), h.kind[g] \in {"INPUT", "TRUE", "FALSE"}
  PROVE  Plain(h, g)
<1>1. Children(h, g) = {} /\ {g} \in SUBSET Live(h)
  BY LayeredFacts
<1>2. Downward(h, {g})
  BY <1>1 DEF Downward
<1>3. ReachableFrom(h, {g}) \subseteq {g}
  BY <1>1, <1>2, ReachFacts
<1> QED
  BY <1>3 DEF Plain

LEMMA ConstantFacts ==
  ASSUME NEW h, Suitable(h), NEW kind \in {"TRUE", "FALSE"}
  PROVE  LET j == Constant(h, kind).heap
             g == Constant(h, kind).gate
         IN  /\ Suitable(j) /\ AgreeOn(h, j, Live(h)) /\ g \in Live(j)
             /\ j.kind[g] = kind /\ Plain(j, g)
<1> DEFINE netlist == << <<kind>> >>
           j == AddGates(h, netlist)
           g == h.next
<1>1. Constant(h, kind).heap = j /\ Constant(h, kind).gate = g
  BY DEF Constant
<1>2. HeapRecord(h) /\ Layered(h) /\ h.next \in Nat
  BY SuitableFacts, LayeredFacts
<1>3. Len(netlist) = 1 /\ netlist[1] = <<kind>> /\ netlist[1][1] = kind
  OBVIOUS
<1> HIDE DEF netlist
<1>4. NetlistAbove(netlist, h)
  BY <1>3, ConstantAbove DEF NetlistAbove
<1>5. Grown(h, j, 1, netlist) /\ AgreeOn(h, j, Live(h))
  BY <1>2, <1>3, <1>4, AddGatesFacts, AddGatesAgrees
<1> HIDE DEF j
<1>6. /\ HeapRecord(j) /\ Layered(j) /\ Live(j) = Live(h) \cup h.next .. h.next + 1 - 1
      /\ j.kind[h.next + 1 - 1] = netlist[1][1]
  BY <1>5 DEF Grown
<1>7. Live(j) = Live(h) \cup {g} /\ j.kind[g] = kind
  BY <1>2, <1>3, <1>6
<1>8. Suitable(j)
  BY <1>5, <1>6, <1>7, SuitableGrown
<1>9. Plain(j, g)
  BY <1>6, <1>7, PlainLeaf
<1> QED
  BY <1>1, <1>5, <1>7, <1>8, <1>9

\* x is the gate of the literal that v has at i.
LiteralGate(h, v, x, i) ==
  /\ x \in Live(h)
  /\ \/ v[i] = {1} /\ x = i
     \/ v[i] = {0} /\ h.kind[x] = "NOT" /\ h.in[x][1] = i

LiteralsResult(h, p, j, lits) ==
  /\ Suitable(j) /\ AgreeOn(h, j, Live(h)) /\ lits \in Seq(Live(j)) /\ Len(lits) >= 1
  /\ \A x \in Range(lits) : \E i \in InputGate : LiteralGate(j, p.values, x, i)
  /\ \A i \in InputGate : p.values[i] # {0, 1} =>
       \E x \in Range(lits) : LiteralGate(j, p.values, x, i)

\* The NOT gates of a clause are where its literals expect them.
LEMMA LiteralsFacts ==
  ASSUME NEW h, Suitable(h), NEW p \in Implicants, Valid(p.values), p.values # DontCares
  PROVE  LiteralsResult(h, p, AddGates(h, Nots(p)), Literals(p, h.next))
<1> DEFINE v == p.values
           N == Negated(p)
           negated == Sorted(N, Less)
           m == Cardinality(N)
           j == AddGates(h, Nots(p))
           U == {i \in InputGate : v[i] # {0, 1}}
           used == Sorted(U, Less)
           Before(i) == Cardinality({k \in N : k < i})
           Gate(i) == IF i \in N THEN h.next + Before(i) ELSE i
           lits == Literals(p, h.next)
<1>1. /\ HeapRecord(h) /\ Layered(h) /\ h.next \in Nat /\ InputGate \subseteq Live(h)
      /\ v \in [InputGate -> Value]
  BY SuitableFacts, LayeredFacts, ImplicantFacts
<1>2. N \in SUBSET InputGate /\ U \in SUBSET InputGate /\ \A i \in InputGate : i \in N <=> v[i] = {0}
  BY DEF Negated
<1>3. /\ negated \in Seq(N) /\ m \in Nat /\ DOMAIN negated = 1 .. m
      /\ \A i \in N : /\ Cardinality(Earlier(N, Less, i)) + 1 \in 1 .. m
                      /\ negated[Cardinality(Earlier(N, Less, i)) + 1] = i
  BY <1>2, LessOrders, SortedFacts
<1>4. used \in Seq(U) /\ Range(used) = U
  BY <1>2, LessOrders, SortedFacts
<1>5. Nots(p) = [k \in DOMAIN negated |-> <<"NOT", negated[k]>>]
  BY DEF Nots
<1>6. lits = [k \in DOMAIN used |-> Gate(used[k])]
  BY DEF Literals
<1> HIDE DEF N, negated, m, j, U, used, lits
<1>7. Len(Nots(p)) = m /\ \A k \in 1 .. m : Nots(p)[k] = <<"NOT", negated[k]>> /\ negated[k] \in InputGate
  BY <1>2, <1>3, <1>5
<1>8. NetlistAbove(Nots(p), h)
  <2>1. ASSUME NEW k \in 1 .. m
        PROVE  GateAbove(Nots(p)[k], Live(h) \cup h.next .. h.next + k - 2)
    <3>1. negated[k] \in Live(h) \cup h.next .. h.next + k - 2
      BY <1>1, <1>7
    <3> QED
      BY <1>7, <3>1, SpecsAbove
  <2> QED
    BY <1>3, <1>7, <2>1 DEF NetlistAbove
<1>9. Grown(h, j, m, Nots(p)) /\ AgreeOn(h, j, Live(h))
  BY <1>1, <1>7, <1>8, AddGatesFacts, AddGatesAgrees DEF j
<1>10. /\ HeapRecord(j) /\ Layered(j) /\ Live(j) = Live(h) \cup h.next .. h.next + m - 1
       /\ \A k \in 1 .. m : /\ j.kind[h.next + k - 1] = Nots(p)[k][1]
                            /\ j.in[h.next + k - 1] = Tail(Nots(p)[k])
  BY <1>9 DEF Grown
<1>11. ASSUME NEW k \in 1 .. m
       PROVE  /\ h.next + k - 1 \in Live(j) /\ j.kind[h.next + k - 1] = "NOT"
              /\ j.in[h.next + k - 1][1] = negated[k]
  <2>1. h.next + k - 1 \in Live(j)
    BY <1>1, <1>3, <1>10
  <2>2. Nots(p)[k][1] = "NOT" /\ Tail(Nots(p)[k])[1] = negated[k]
    BY <1>7
  <2> QED
    BY <1>10, <2>1, <2>2
<1>12. Suitable(j)
  <2>1. ASSUME NEW g \in Live(j) \ Live(h)
        PROVE  j.kind[g] = "NOT" /\ j.in[g][1] \in InputGate
    <3>1. g - h.next + 1 \in 1 .. m /\ g = h.next + (g - h.next + 1) - 1
      BY <1>1, <1>3, <1>10
    <3> QED
      BY <1>7, <1>11, <3>1
  <2> QED
    BY <1>9, <1>10, <2>1, SuitableGrown
<1>13. ASSUME NEW i \in U
       PROVE  LiteralGate(j, v, Gate(i), i)
  <2>1. CASE i \in N
    <3>1. Earlier(N, Less, i) = {k \in N : k < i}
      BY <1>2, <2>1 DEF Earlier, Less
    <3> DEFINE k == Before(i) + 1
    <3>2. k \in 1 .. m /\ negated[k] = i
      BY <1>3, <2>1, <3>1
    <3>3. Gate(i) = h.next + Before(i)
      BY <2>1
    <3>4. Before(i) \in Nat
      <4>1. IsFiniteSet(N)
        BY <1>2, LessOrders
      <4>2. IsFiniteSet({x \in N : x < i})
        BY <4>1, FS_Subset
      <4> QED
        BY <4>2, FS_CardinalityType
    <3>5. Gate(i) = h.next + k - 1
      BY <1>1, <3>3, <3>4
    <3> HIDE DEF k, Gate
    <3>6. Gate(i) \in Live(j) /\ j.kind[Gate(i)] = "NOT" /\ j.in[Gate(i)][1] = i
      BY <1>11, <3>2, <3>5
    <3> QED
      BY <1>2, <2>1, <3>6 DEF LiteralGate
  <2>2. CASE i \notin N
    <3>1. i \in InputGate /\ v[i] \in Value /\ v[i] # {} /\ v[i] # {0, 1} /\ v[i] # {0}
      BY <1>1, <1>2, <2>2 DEF U, Valid
    <3>2. v[i] = {1}
      BY <3>1, ValueFacts
    <3>3. Gate(i) = i /\ i \in Live(j)
      BY <1>1, <1>10, <2>2, <3>1
    <3> HIDE DEF Gate
    <3> QED
      BY <3>2, <3>3 DEF LiteralGate
  <2> QED
    BY <2>1, <2>2
<1> HIDE DEF Gate, v
<1>14. /\ DOMAIN used = 1 .. Len(used) /\ Len(used) \in Nat
       /\ \A k \in 1 .. Len(used) : used[k] \in U
       /\ \A i \in U : \E k \in 1 .. Len(used) : used[k] = i
  BY <1>4 DEF Range
<1>15. U # {}
  <2>1. ASSUME U = {}
        PROVE  v = DontCares
    <3>1. \A i \in InputGate : v[i] = {0, 1}
      BY <2>1 DEF U
    <3> QED
      BY <1>1, <3>1 DEF DontCares
  <2> QED
    BY <2>1 DEF v
<1>16. Len(used) >= 1
  BY <1>14, <1>15
<1>17. lits \in Seq(Live(j)) /\ Len(lits) = Len(used)
  <2>1. lits \in [1 .. Len(used) -> Live(j)]
    BY <1>6, <1>13, <1>14 DEF LiteralGate
  <2> QED
    BY <1>14, <2>1
<1>18. ASSUME NEW x \in Range(lits)
       PROVE  \E i \in InputGate : LiteralGate(j, v, x, i)
  <2>1. PICK k \in 1 .. Len(used) : x = Gate(used[k])
    BY <1>6, <1>14 DEF Range
  <2>2. used[k] \in U /\ used[k] \in InputGate
    BY <1>2, <1>14
  <2> QED
    BY <1>13, <2>1, <2>2
<1>19. ASSUME NEW i \in InputGate, v[i] # {0, 1}
       PROVE  \E x \in Range(lits) : LiteralGate(j, v, x, i)
  <2>1. i \in U
    BY <1>19 DEF U
  <2>2. PICK k \in 1 .. Len(used) : used[k] = i
    BY <1>14, <2>1
  <2>3. Gate(i) \in Range(lits)
    BY <1>6, <1>14, <2>2 DEF Range
  <2> QED
    BY <1>13, <2>1, <2>3
<1> QED
  BY <1>9, <1>12, <1>16, <1>17, <1>18, <1>19 DEF LiteralsResult, j, lits, v

\* What the literals of a clause leave to the inputs is what the clause says.
LEMMA TreeMeans ==
  ASSUME NEW h, NEW p \in Implicants, Valid(p.values), NEW k, NEW lits, LiteralsResult(h, p, k, lits),
         NEW j, NEW g, TreeResult(k, "AND", lits, j, g)
  PROVE  ClauseResult(h, j, g, p.values)
<1> DEFINE v == p.values
           new == k.next .. k.next + Len(lits) - 2
           members == Range(lits) \cup new
           D == members \cup InputGate
           W == Within(j, "AND", g)
<1>1. /\ Suitable(k) /\ AgreeOn(h, k, Live(h))
      /\ \A x \in Range(lits) : \E i \in InputGate : LiteralGate(k, v, x, i)
      /\ \A i \in InputGate : v[i] # {0, 1} => \E x \in Range(lits) : LiteralGate(k, v, x, i)
  BY DEF LiteralsResult
<1>2. /\ HeapRecord(j) /\ AgreeOn(k, j, Live(k)) /\ Live(j) = Live(k) \cup new
      /\ g \in members /\ members \subseteq W
      /\ \A x \in new : j.kind[x] = "AND" /\ Children(j, x) \subseteq members
  BY DEF TreeResult
<1>3. v \in [InputGate -> Value]
  BY ImplicantFacts
<1> HIDE DEF v, new
<1>4. /\ Layered(j) /\ InputGate \subseteq Live(j)
      /\ \A x \in Live(k) : j.kind[x] = k.kind[x] /\ j.in[x] = k.in[x]
      /\ AgreeOn(h, j, Live(h))
  BY <1>1, <1>2, AgreeOnBoth, LayeredFacts DEF AgreeOn
<1>5. /\ \A x \in Range(lits) : \E i \in InputGate : LiteralGate(j, v, x, i)
      /\ \A i \in InputGate : v[i] # {0, 1} => \E x \in Range(lits) : LiteralGate(j, v, x, i)
  <2>1. \A x, i : LiteralGate(k, v, x, i) => LiteralGate(j, v, x, i)
    BY <1>2, <1>4 DEF LiteralGate
  <2> QED
    BY <1>1, <2>1
<1>6. ASSUME NEW x \in Range(lits)
      PROVE  x \in Live(j) /\ j.kind[x] \in {"NOT", "INPUT"} /\ Children(j, x) \subseteq InputGate
  <2>1. PICK i \in InputGate : LiteralGate(j, v, x, i)
    BY <1>5
  <2>2. CASE x = i
    <3>1. x \in Live(j) /\ j.kind[x] = "INPUT"
      BY <1>4, <2>2, LayeredFacts
    <3> QED
      BY <1>4, <3>1, LayeredFacts
  <2>3. CASE j.kind[x] = "NOT" /\ j.in[x][1] = i
    BY <1>4, <2>1, <2>3, LayeredFacts DEF LiteralGate
  <2> QED
    BY <2>1, <2>2, <2>3 DEF LiteralGate
<1>7. /\ \A x \in InputGate : j.kind[x] = "INPUT" /\ Children(j, x) = {}
      /\ \A x \in D : j.kind[x] \in {"AND", "NOT", "INPUT"} /\ x \in Live(j)
  BY <1>2, <1>4, <1>6, LayeredFacts
<1>8. Downward(j, D)
  BY <1>2, <1>6, <1>7 DEF Downward
<1>9. ASSUME NEW x \in D
      PROVE  ReachableFrom(j, {x}) \subseteq D
  <2>1. {x} \in SUBSET Live(j) /\ {x} \subseteq D
    BY <1>7
  <2> HIDE DEF D
  <2> QED
    BY <1>4, <1>8, <2>1, ReachFacts
<1>10. Suitable(j)
  <2>1. ASSUME NEW x \in Live(j) \ Live(k)
        PROVE  j.kind[x] = "AND" /\ \A y \in ReachableFrom(j, {x}) : j.kind[y] # "TRUE"
    <3>1. x \in new /\ x \in D
      BY <1>2
    <3> QED
      BY <1>2, <1>7, <1>9, <3>1
  <2> QED
    BY <1>1, <1>2, <2>1, SuitableGrown
<1>11. g \in D /\ g \in Live(j) /\ j.kind[g] # "OR"
  BY <1>2, <1>7
<1>12. Plain(j, g)
  <2>1. ReachableFrom(j, {g}) \subseteq D
    BY <1>9, <1>11
  <2> QED
    BY <1>7, <2>1 DEF Plain
<1>13. W = members
  <2>1. \A x \in members \cap Live(j) : j.kind[x] = "AND" => Children(j, x) \subseteq members
    BY <1>2, <1>6
  <2> HIDE DEF members
  <2>2. W \subseteq members
    BY <1>2, <1>4, <1>11, <2>1, WithinFacts
  <2> QED
    BY <1>2, <2>2
<1>14. \A i \in InputGate : DontCares[i] = {0, 1}
  BY DEF DontCares
<1>15. ASSUME NEW x \in Range(lits), NEW i \in InputGate, LiteralGate(j, v, x, i)
       PROVE  Allowed(j, x)[i] = v[i] /\ \A n \in InputGate \ {i} : Allowed(j, x)[n] = {0, 1}
  <2>1. DontCares \in [InputGate -> Value]
    BY ConstantValues
  <2>2. CASE v[i] = {1} /\ x = i
    <3>1. Allowed(j, x) = [DontCares EXCEPT ![i] = {1}]
      BY <1>7, <2>2 DEF Allowed
    <3> QED
      BY <1>14, <2>1, <2>2, <3>1
  <2>3. CASE v[i] = {0} /\ j.kind[x] = "NOT" /\ j.in[x][1] = i
    <3>1. Allowed(j, x) = [DontCares EXCEPT ![i] = {0}]
      BY <2>3 DEF Allowed
    <3> QED
      BY <1>14, <2>1, <2>3, <3>1
  <2> QED
    BY <1>15, <2>2, <2>3 DEF LiteralGate
<1>16. ASSUME NEW x \in members, NEW n \in InputGate
       PROVE  Allowed(j, x)[n] = {0, 1} \/ Allowed(j, x)[n] = v[n]
  <2>1. CASE x \in Range(lits)
    <3>1. PICK i \in InputGate : LiteralGate(j, v, x, i)
      BY <1>5, <2>1
    <3> QED
      BY <1>15, <2>1, <3>1
  <2>2. CASE x \in new
    <3>1. Allowed(j, x) = DontCares
      BY <1>2, <2>2 DEF Allowed
    <3> QED
      BY <1>14, <3>1
  <2> QED
    BY <2>1, <2>2
<1>17. ASSUME NEW n \in InputGate
       PROVE  Collect(j, g)[n] = v[n]
  <2>1. \A w : w \in Collect(j, g)[n] <=> w \in {0, 1} /\ \A x \in members : w \in Allowed(j, x)[n]
    BY <1>13, CollectFacts
  <2>2. v[n] \subseteq {0, 1}
    BY <1>3 DEF Value
  <2>3. v[n] # {0, 1} => \E x \in members : Allowed(j, x)[n] = v[n]
    BY <1>5, <1>15
  <2> HIDE DEF members
  <2>4. \A w : w \in Collect(j, g)[n] <=> w \in v[n]
    <3>1. CASE v[n] = {0, 1}
      BY <1>16, <2>1, <3>1
    <3>2. CASE v[n] # {0, 1}
      BY <1>16, <2>1, <2>2, <2>3, <3>2
    <3> QED
      BY <3>1, <3>2
  <2> QED
    BY <2>4
<1>18. Collect(j, g) = v
  BY <1>3, <1>17, CollectFacts
<1> QED
  BY <1>4, <1>10, <1>11, <1>12, <1>18 DEF ClauseResult, Means, v

\* buildFromImplicant: the clause of an implicant can be read back.
LEMMA ClauseMade ==
  ASSUME NEW class, NEW h, Suitable(h), NEW p \in Implicants
  PROVE  ClauseResult(h, Clause(class, h, p).heap, Clause(class, h, p).gate, p.values)
<1>1. CASE ~Valid(p.values)
  <2> DEFINE j == Constant(h, "FALSE").heap
             g == Constant(h, "FALSE").gate
  <2>1. Clause(class, h, p) = Constant(h, "FALSE")
    BY <1>1 DEF Clause
  <2>2. /\ Suitable(j) /\ AgreeOn(h, j, Live(h)) /\ g \in Live(j)
        /\ j.kind[g] = "FALSE" /\ Plain(j, g)
    BY ConstantFacts
  <2> HIDE DEF j, g
  <2>3. ~Valid(Collect(j, g))
    BY <2>2, CollectOfLeaf
  <2>4. ClauseResult(h, j, g, p.values)
    BY <1>1, <2>2, <2>3 DEF ClauseResult, Means
  <2> QED
    BY <2>1, <2>4 DEF j, g
<1>2. CASE Valid(p.values) /\ p.full
  <2> DEFINE j == Constant(h, "TRUE").heap
             g == Constant(h, "TRUE").gate
  <2>1. Clause(class, h, p) = Constant(h, "TRUE")
    BY <1>2 DEF Clause
  <2>2. /\ Suitable(j) /\ AgreeOn(h, j, Live(h)) /\ g \in Live(j)
        /\ j.kind[g] = "TRUE" /\ Plain(j, g)
    BY ConstantFacts
  <2> HIDE DEF j, g
  <2>3. p.values = DontCares
    BY <1>2, ImplicantFacts
  <2>4. Collect(j, g) = DontCares
    <3>1. Collect(j, g) = Allowed(j, g)
      BY <2>2, CollectOfLeaf
    <3> QED
      BY <2>2, <3>1 DEF Allowed
  <2>5. ClauseResult(h, j, g, p.values)
    BY <1>2, <2>2, <2>3, <2>4 DEF ClauseResult, Means
  <2> QED
    BY <2>1, <2>5 DEF j, g
<1>3. CASE Valid(p.values) /\ ~p.full
  <2> DEFINE k == AddGates(h, Nots(p))
             lits == Literals(p, h.next)
             tree == Tree(class, k, "AND", lits)
  <2>1. Clause(class, h, p) = tree
    BY <1>3 DEF Clause
  <2>2. p.values # DontCares
    BY <1>3, ImplicantFacts
  <2>3. LiteralsResult(h, p, k, lits)
    BY <1>3, <2>2, LiteralsFacts
  <2> HIDE DEF k, lits
  <2>4. TreeInput(k, "AND", lits)
    BY <2>3, SuitableFacts DEF LiteralsResult, TreeInput
  <2>5. TreeResult(k, "AND", lits, tree.heap, tree.gate)
    BY <2>4, TreeFacts
  <2> HIDE DEF tree
  <2>6. ClauseResult(h, tree.heap, tree.gate, p.values)
    BY <1>3, <2>3, <2>5, TreeMeans
  <2> QED
    BY <2>1, <2>6
<1> QED
  BY <1>1, <1>2, <1>3, ImplicantFacts

-----------------------------------------------------------------------------
(* A sum of clauses.                                                       *)

LEMMA MeansKept ==
  ASSUME NEW h, NEW j, NEW T, AgreeOn(h, j, T), NEW c \in T, NEW v, Means(h, c, v)
  PROVE  Means(j, c, v)
<1>1. /\ Collect(h, c) = Collect(j, c) /\ (Plain(h, c) <=> Plain(j, c))
      /\ h.kind[c] = j.kind[c] /\ c \in Live(j)
  BY SameReadings DEF AgreeOn
<1> QED
  BY <1>1 DEF Means

\* One clause more.
NextClause(class, made, p) ==
  LET clause == Clause(class, made.heap, p)
  IN  [heap |-> clause.heap, gates |-> Append(made.gates, clause.gate)]

\* The recursion of Clauses goes from one clause to the next.
ClauseRun(class, h, list, made) ==
  /\ made[0] = [heap |-> h, gates |-> <<>>]
  /\ \A n \in 1 .. Len(list) : made[n] = NextClause(class, made[n - 1], list[n])
  /\ Clauses(class, h, list) = made[Len(list)]

LEMMA ClausesRun ==
  ASSUME NEW class, NEW h, NEW list, Len(list) \in Nat
  PROVE  \E made : ClauseRun(class, h, list, made)
<1> DEFINE N == Len(list)
           start == [heap |-> h, gates |-> <<>>]
           Body(f, n) == [i \in 0 .. n |-> IF i = 0 THEN start ELSE NextClause(class, f[i - 1], list[i])]
           Solves(f, n) == f = Body(f, n)
           Good == {n \in 0 .. N : \E f : Solves(f, n)}
           made == CHOOSE f : Solves(f, N)
<1>0. Clauses(class, h, list) = made[N]
  BY DEF Clauses, NextClause
<1> HIDE DEF start, made
<1>1. N \in Nat
  OBVIOUS
<1>2. 0 \in Good
  <2>1. Solves([i \in 0 .. 0 |-> start], 0)
    OBVIOUS
  <2>2. 0 \in 0 .. N
    BY <1>1
  <2> HIDE DEF Solves
  <2> QED
    BY <2>1, <2>2
<1>3. ASSUME NEW n \in 1 .. N, n - 1 \in Good
      PROVE  n \in Good
  <2>1. PICK f : Solves(f, n - 1)
    BY <1>3
  <2> DEFINE new == NextClause(class, f[n - 1], list[n])
             next == [i \in 0 .. n |-> IF i = n THEN new ELSE f[i]]
  <2>2. \A i \in 0 .. n - 1 : next[i] = f[i] /\ f[i] = Body(f, n - 1)[i]
    BY <1>1, <2>1
  <2>3. ASSUME NEW i \in 0 .. n
        PROVE  next[i] = Body(next, n)[i]
    <3>1. CASE i = n
      <4>1. next[n] = new /\ next[n - 1] = f[n - 1]
        BY <1>1
      <4> QED
        BY <1>1, <3>1, <4>1
    <3>2. CASE i # n /\ i # 0
      <4>1. i \in 0 .. n - 1 /\ i - 1 \in 0 .. n - 1
        BY <1>1, <3>2
      <4>2. next[i] = NextClause(class, f[i - 1], list[i]) /\ next[i - 1] = f[i - 1]
        BY <2>2, <3>2, <4>1
      <4> QED
        BY <3>2, <4>2
    <3>3. CASE i # n /\ i = 0
      <4>1. 0 \in 0 .. n - 1
        BY <1>1, <3>3
      <4> QED
        BY <2>2, <3>3, <4>1
    <3> QED
      BY <3>1, <3>2, <3>3
  <2>4. Solves(next, n)
    BY <2>3
  <2> HIDE DEF Solves, next
  <2>5. n \in 0 .. N
    BY <1>1
  <2> QED
    BY <2>4, <2>5
<1>4. N \in Good
  <2>1. \A k \in 1 .. N : 1 .. k - 1 \subseteq Good => k \in Good
    <3> SUFFICES ASSUME NEW k \in 1 .. N, 1 .. k - 1 \subseteq Good PROVE k \in Good
      OBVIOUS
    <3>1. k - 1 \in 1 .. k - 1 \/ k - 1 = 0
      BY <1>1
    <3>2. k - 1 \in Good
      BY <1>2, <3>1
    <3> QED
      BY <1>3, <3>2
  <2> HIDE DEF Good
  <2>2. 1 .. N \subseteq Good
    BY <1>1, <2>1, FromBelow
  <2>3. N \in 1 .. N \/ N = 0
    BY <1>1
  <2> QED
    BY <1>2, <2>2, <2>3
<1>5. Solves(made, N)
  <2> HIDE DEF Solves
  <2> QED
    BY <1>4 DEF made
<1>6. made[0] = start /\ \A n \in 1 .. N : made[n] = NextClause(class, made[n - 1], list[n])
  BY <1>1, <1>5
<1>7. ClauseRun(class, h, list, made)
  BY <1>0, <1>6 DEF start, ClauseRun
<1> QED
  BY <1>7

\* The first n clauses are made.
ClausesUpTo(h, list, n, made) ==
  /\ Suitable(made.heap) /\ AgreeOn(h, made.heap, Live(h))
  /\ made.gates \in Seq(Live(made.heap)) /\ Len(made.gates) = n
  /\ \A k \in 1 .. n : Means(made.heap, made.gates[k], list[k].values)

LEMMA ClausesMade ==
  ASSUME NEW class, NEW h, Suitable(h), NEW list \in Seq(Implicants)
  PROVE  ClausesUpTo(h, list, Len(list), Clauses(class, h, list))
<1>0. Len(list) \in Nat /\ \A n \in 1 .. Len(list) : list[n] \in Implicants
  OBVIOUS
<1>run. PICK made : ClauseRun(class, h, list, made)
  BY <1>0, ClausesRun
<1> DEFINE N == Len(list)
           Good == {n \in 0 .. N : ClausesUpTo(h, list, n, made[n])}
<1>1. N \in Nat /\ \A n \in 1 .. N : list[n] \in Implicants
  BY <1>0
<1>2. /\ made[0] = [heap |-> h, gates |-> <<>>]
      /\ \A n \in 1 .. N : made[n] = NextClause(class, made[n - 1], list[n])
      /\ Clauses(class, h, list) = made[N]
  BY <1>run DEF ClauseRun
<1> HIDE DEF N
<1>3. 0 \in Good
  <2>1. AgreeOn(h, h, Live(h))
    BY SuitableFacts, ChildrenAreLive DEF AgreeOn, Downward
  <2>2. <<>> \in Seq(Live(h)) /\ Len(<<>>) = 0
    OBVIOUS
  <2>3. made[0].heap = h /\ made[0].gates = <<>>
    BY <1>2
  <2>4. ClausesUpTo(h, list, 0, made[0])
    BY <2>1, <2>2, <2>3 DEF ClausesUpTo
  <2> QED
    BY <1>1, <2>4
<1>4. ASSUME NEW n \in 1 .. N, n - 1 \in Good
      PROVE  n \in Good
  <2> DEFINE j == made[n - 1].heap
             gates == made[n - 1].gates
             k == Clause(class, j, list[n]).heap
             g == Clause(class, j, list[n]).gate
             more == Append(gates, g)
  <2>1. made[n] = [heap |-> k, gates |-> more]
    BY <1>2 DEF NextClause
  <2>2. /\ Suitable(j) /\ AgreeOn(h, j, Live(h)) /\ gates \in Seq(Live(j)) /\ Len(gates) = n - 1
        /\ \A m \in 1 .. n - 1 : Means(j, gates[m], list[m].values)
    BY <1>4 DEF ClausesUpTo
  <2> HIDE DEF j, gates
  <2>3. ClauseResult(j, k, g, list[n].values)
    BY <1>1, <2>2, ClauseMade
  <2> HIDE DEF k, g
  <2>4. /\ Suitable(k) /\ AgreeOn(j, k, Live(j)) /\ AgreeOn(h, k, Live(h))
        /\ Live(j) \subseteq Live(k) /\ g \in Live(k) /\ Means(k, g, list[n].values)
    BY <2>2, <2>3, AgreeOnBoth DEF ClauseResult, Means, AgreeOn
  <2>5. /\ more \in Seq(Live(k)) /\ Len(more) = n /\ more[n] = g
        /\ \A m \in 1 .. n - 1 : more[m] = gates[m] /\ gates[m] \in Live(j)
    <3>1. n - 1 \in Nat /\ n \in Nat /\ gates \in [1 .. n - 1 -> Live(j)]
      BY <1>1, <2>2
    <3>2. gates \in Seq(Live(k))
      <4>1. gates \in [1 .. n - 1 -> Live(k)]
        BY <2>4, <3>1
      <4> QED
        BY <3>1, <4>1
    <3> QED
      BY <2>2, <2>4, <3>1, <3>2
  <2>6. ASSUME NEW m \in 1 .. n
        PROVE  Means(k, more[m], list[m].values)
    <3>1. CASE m = n
      BY <2>4, <2>5, <3>1
    <3>2. CASE m # n
      <4>1. m \in 1 .. n - 1
        BY <1>1, <3>2
      <4> QED
        BY <2>2, <2>4, <2>5, <4>1, MeansKept
    <3> QED
      BY <3>1, <3>2
  <2> HIDE DEF more
  <2>7. ClausesUpTo(h, list, n, made[n])
    BY <2>1, <2>4, <2>5, <2>6 DEF ClausesUpTo
  <2> QED
    BY <1>1, <2>7
<1>5. N \in Good
  <2>1. \A k \in 1 .. N : 1 .. k - 1 \subseteq Good => k \in Good
    <3> SUFFICES ASSUME NEW k \in 1 .. N, 1 .. k - 1 \subseteq Good PROVE k \in Good
      OBVIOUS
    <3>1. k - 1 \in 1 .. k - 1 \/ k - 1 = 0
      BY <1>1
    <3>2. k - 1 \in Good
      BY <1>3, <3>1
    <3> QED
      BY <1>4, <3>2
  <2> HIDE DEF Good
  <2>2. 1 .. N \subseteq Good
    BY <1>1, <2>1, FromBelow
  <2>3. N \in 1 .. N \/ N = 0
    BY <1>1
  <2> QED
    BY <1>3, <2>2, <2>3
<1> QED
  BY <1>2, <1>5 DEF N

SumResult(h, list, j, g) ==
  /\ Suitable(j) /\ AgreeOn(h, j, Live(h)) /\ g \in Live(j) /\ BuiltFrom(j, g, list)

\* buildFromDnf, buildFromImplicantList: the circuit they make is read back
\* as the implicants it was made from.
LEMMA SumMade ==
  ASSUME NEW class, NEW h, Suitable(h), NEW list \in Seq(Implicants)
  PROVE  SumResult(h, list, Sum(class, h, list).heap, Sum(class, h, list).gate)
<1>1. CASE list = <<>>
  <2> DEFINE j == Constant(h, "FALSE").heap
             g == Constant(h, "FALSE").gate
  <2>1. Sum(class, h, list) = Constant(h, "FALSE")
    BY <1>1 DEF Sum
  <2>2. /\ Suitable(j) /\ AgreeOn(h, j, Live(h)) /\ g \in Live(j)
        /\ j.kind[g] = "FALSE" /\ Plain(j, g)
    BY ConstantFacts
  <2> HIDE DEF j, g
  <2>3. ClauseGates(j, g) = {g} /\ ~Valid(Collect(j, g)) /\ Collect(j, g) \in [InputGate -> Value]
    BY <2>2, SuitableFacts, ClauseFacts, CollectOfLeaf, CollectFacts
  <2>4. ~IsValid(Implicant(Collect(j, g)))
    BY <2>3, ImplicantOf, ConstantValues DEF IsValid
  <2>5. ImplicantList(j, g) = {}
    BY <2>3, <2>4 DEF ImplicantList
  <2>6. ValidValues(Range(list)) = {}
    BY <1>1 DEF ValidValues, Range
  <2>7. SumResult(h, list, j, g)
    BY <2>2, <2>3, <2>5, <2>6 DEF SumResult, BuiltFrom
  <2> QED
    BY <2>1, <2>7 DEF j, g
<1>2. CASE list # <<>>
  <2> DEFINE k == Clauses(class, h, list).heap
             gates == Clauses(class, h, list).gates
             n == Len(list)
             tree == Tree(class, k, "OR", gates)
             j == tree.heap
             g == tree.gate
             new == k.next .. k.next + Len(gates) - 2
             members == Range(gates) \cup new
             W == Within(j, "OR", g)
  <2>1. Sum(class, h, list) = tree
    BY <1>2 DEF Sum
  <2>2. n \in Nat /\ n >= 1 /\ \A m \in 1 .. n : list[m] \in Implicants
    BY <1>2
  <2>3. /\ Suitable(k) /\ AgreeOn(h, k, Live(h)) /\ gates \in Seq(Live(k)) /\ Len(gates) = n
        /\ \A m \in 1 .. n : Means(k, gates[m], list[m].values)
    BY ClausesMade DEF ClausesUpTo
  <2> HIDE DEF k, gates
  <2>4. TreeInput(k, "OR", gates)
    BY <2>2, <2>3, SuitableFacts DEF TreeInput
  <2>5. TreeResult(k, "OR", gates, j, g)
    BY <2>4, TreeFacts
  <2> HIDE DEF tree, n
  <2>6. /\ HeapRecord(j) /\ AgreeOn(k, j, Live(k)) /\ Live(j) = Live(k) \cup new
        /\ g \in members /\ members \subseteq W
        /\ \A x \in new : j.kind[x] = "OR" /\ Children(j, x) \subseteq members
    BY <2>5 DEF TreeResult
  <2> HIDE DEF j, g, new
  <2>7. Suitable(j) /\ AgreeOn(h, j, Live(h)) /\ Layered(j)
    <3>1. \A x \in Live(j) \ Live(k) : j.kind[x] = "OR"
      BY <2>6
    <3>2. Suitable(j)
      BY <2>3, <2>6, <3>1, SuitableGrown
    <3> QED
      BY <2>3, <2>6, <3>2, AgreeOnBoth, SuitableFacts
  <2>8. /\ DOMAIN gates = 1 .. n
        /\ \A m \in 1 .. n : gates[m] \in Live(k) /\ gates[m] \in Range(gates)
        /\ \A x \in Range(gates) : \E m \in 1 .. n : x = gates[m]
    BY <2>2, <2>3 DEF Range
  <2>9. \A m \in 1 .. n : Means(j, gates[m], list[m].values)
    BY <2>3, <2>6, <2>8, MeansKept
  <2>10. \A x \in Range(gates) : x \in Live(j) /\ j.kind[x] # "OR" /\ Plain(j, x)
    BY <2>8, <2>9 DEF Means
  <2>11. g \in Live(j)
    BY <2>6, <2>10
  <2>12. W = members
    <3>1. \A x \in members \cap Live(j) : j.kind[x] = "OR" => Children(j, x) \subseteq members
      BY <2>6, <2>10
    <3> HIDE DEF members
    <3>2. W \subseteq members
      BY <2>6, <2>7, <2>11, <3>1, WithinFacts
    <3> QED
      BY <2>6, <3>2
  <2>13. ClauseGates(j, g) = Range(gates)
    BY <2>6, <2>10, <2>12 DEF ClauseGates
  <2> DEFINE I == ImplicantList(j, g)
             Read(m) == Implicant(Collect(j, gates[m]))
  <2>14. \A p : p \in I <=> IsValid(p) /\ \E m \in 1 .. n : p = Read(m)
    BY <2>8, <2>13 DEF ImplicantList
  <2>15. ASSUME NEW m \in 1 .. n
         PROVE  /\ IsValid(Read(m)) <=> IsValid(list[m])
                /\ IsValid(Read(m)) => Read(m).values = list[m].values
    <3>1. /\ Collect(j, gates[m]) \in [InputGate -> Value] /\ list[m] \in Implicants
          /\ IF Valid(list[m].values) THEN Collect(j, gates[m]) = list[m].values
             ELSE ~Valid(Collect(j, gates[m]))
      BY <2>2, <2>9, CollectFacts DEF Means
    <3> DEFINE v == Collect(j, gates[m])
    <3>2. /\ Valid(v) => Implicant(v).values = v
          /\ ~Valid(v) => Implicant(v).values = Invalid
      BY <3>1, ImplicantOf
    <3> HIDE DEF v
    <3>3. IsValid(Implicant(v)) <=> Valid(v)
      BY <3>2, ConstantValues DEF IsValid
    <3> QED
      BY <3>1, <3>2, <3>3 DEF IsValid, v
  <2> HIDE DEF I, Read
  <2>16. {p.values : p \in I} = ValidValues(Range(list))
    <3>1. \A q : q \in Range(list) <=> \E m \in 1 .. n : q = list[m]
      BY <2>2 DEF Range, n
    <3>2. \A p \in I : \E q \in {r \in Range(list) : IsValid(r)} : p.values = q.values
      BY <2>14, <2>15, <3>1
    <3>3. \A q \in {r \in Range(list) : IsValid(r)} : \E p \in I : p.values = q.values
      BY <2>14, <2>15, <3>1
    <3> QED
      BY <3>2, <3>3 DEF ValidValues
  <2>17. SumResult(h, list, j, g)
    BY <2>7, <2>10, <2>11, <2>13, <2>16 DEF SumResult, BuiltFrom, I
  <2> QED
    BY <2>1, <2>17 DEF j, g
<1> QED
  BY <1>1, <1>2

LEMMA RangeOfList ==
  ASSUME NEW list \in Seq(Implicants)
  PROVE  Range(list) \subseteq Implicants
<1>1. Len(list) \in Nat /\ DOMAIN list = 1 .. Len(list) /\ \A n \in 1 .. Len(list) : list[n] \in Implicants
  OBVIOUS
<1>2. \A x \in Range(list) : \E n \in 1 .. Len(list) : x = list[n]
  BY <1>1 DEF Range
<1> QED
  BY <1>1, <1>2

\* A circuit computes what the implicants that it was made from cover.
LEMMA BuiltCovers ==
  ASSUME NEW h, Suitable(h), NEW out \in Live(h), NEW list \in Seq(Implicants),
         BuiltFrom(h, out, list)
  PROVE  /\ Table(h, out) = Covered(Range(list))
         /\ Covered(ImplicantList(h, out)) = Covered(Range(list))
         /\ ImplicantList(h, out) \in SUBSET Implicants
<1>1. /\ Table(h, out) = Covered(ImplicantList(h, out))
      /\ ImplicantList(h, out) \in SUBSET Implicants
  BY BuiltTable DEF BuiltFrom
<1>2. Range(list) \in SUBSET Implicants
  BY RangeOfList
<1>3. {p.values : p \in ImplicantList(h, out)} = ValidValues(Range(list))
  BY DEF BuiltFrom
<1>4. Covered(ImplicantList(h, out)) = Covered(Range(list))
  BY <1>1, <1>2, <1>3, CoveredByValid
<1> QED
  BY <1>1, <1>4

\* What the new output does not need is destroyed, and the rest is as before.
LEMMA SweepKeeps ==
  ASSUME NEW h, Suitable(h), NEW out \in Live(h)
  PROVE  LET j == Sweep(h, InputGate \cup {out}) IN
         /\ Suitable(j) /\ out \in Live(j) /\ Table(j, out) = Table(h, out)
         /\ \A list : BuiltFrom(h, out, list) => BuiltFrom(j, out, list)
<1> DEFINE pins == InputGate \cup {out}
           j == Sweep(h, pins)
           kept == ReachableFrom(h, pins)
<1>1. HeapRecord(h) /\ Layered(h) /\ pins \in SUBSET Live(h) /\ InputGate \subseteq pins /\ out \in pins
  BY SuitableFacts, LayeredFacts
<1> HIDE DEF pins
<1>2. HeapRecord(j) /\ Live(j) = kept /\ pins \subseteq kept /\ AgreeOn(h, j, kept)
  BY <1>1, SweepAgrees
<1> HIDE DEF j, kept
<1>3. /\ Layered(j) /\ kept \subseteq Live(h)
      /\ \A g \in kept : h.kind[g] = j.kind[g] /\ h.in[g] = j.in[g]
  BY <1>2 DEF AgreeOn
<1>4. \A g \in Live(j) : j.kind[g] = "NOT" => j.in[g][1] \in InputGate
  BY <1>2, <1>3, SuitableFacts
<1>5. ASSUME NEW g \in Live(j), j.kind[g] = "AND", NEW x \in ReachableFrom(j, {g})
      PROVE  j.kind[x] # "TRUE"
  <2>1. {g} \in SUBSET kept
    BY <1>2
  <2>2. ReachableFrom(h, {g}) = ReachableFrom(j, {g}) /\ ReachableFrom(h, {g}) \subseteq kept
    BY <1>2, <2>1, SameReach
  <2>3. h.kind[g] = "AND" /\ g \in Live(h)
    BY <1>2, <1>3, <1>5
  <2>4. h.kind[x] # "TRUE"
    BY <1>5, <2>2, <2>3, SuitableFacts
  <2> QED
    BY <1>3, <1>5, <2>2, <2>4
<1>6. Suitable(j)
  BY <1>2, <1>3, <1>4, <1>5 DEF Suitable, HeapRecord
<1>7. out \in kept
  BY <1>1, <1>2
<1>8. Table(j, out) = Table(h, out)
  BY <1>2, <1>7, SameTables
<1>9. \A list : BuiltFrom(h, out, list) => BuiltFrom(j, out, list)
  BY <1>2, <1>7, SameReadings
<1> QED
  BY <1>2, <1>6, <1>7, <1>8, <1>9 DEF pins, j

\* The lines of an answer cover what the implicants asked about cover.
LEMMA AnswerFacts ==
  ASSUME NEW implicants \in SUBSET Implicants, NEW list \in Answers(implicants)
  PROVE  /\ list \in Seq(Implicants) /\ Covered(Range(list)) = Covered(implicants)
         /\ (\E p \in implicants : IsValid(p)) => list # <<>>
<1> DEFINE points == Covered(implicants)
           Joined(vs) == UNION {Points(v) : v \in vs}
<1>1. PICK vs \in IrredundantCovers(points) : list = InOrder({Implicant(v) : v \in vs})
  BY DEF Answers
<1>2. vs \in SUBSET Primes(points) /\ Joined(vs) = points
  BY <1>1 DEF IrredundantCovers
<1>3. vs \subseteq [InputGate -> Value]
  <2>1. Primes(points) \subseteq [InputGate -> Value \ {{}}]
    BY DEF Primes
  <2>2. \A v \in [InputGate -> Value \ {{}}] : v \in [InputGate -> Value]
    OBVIOUS
  <2> QED
    BY <1>2, <2>1, <2>2
<1> DEFINE S == {Implicant(v) : v \in vs}
<1>4. \A v \in vs : Implicant(v) \in Implicants /\ Points(Implicant(v).values) = Points(v)
  BY <1>3, ImplicantOf, PointsOfImplicant
<1>5. S \in SUBSET Implicants
  BY <1>4
<1> HIDE DEF points
<1>6. \A a : a \in points <=> \E v \in vs : a \in Points(v)
  BY <1>2
<1>7. \A a : a \in Covered(S) <=> \E p \in S : a \in Points(p.values)
  BY CoveredFacts
<1>8. \A a : a \in Covered(S) <=> a \in points
  BY <1>4, <1>6, <1>7
<1>9. Covered(S) = points
  BY <1>8
<1>10. list = InOrder(S)
  BY <1>1
<1> HIDE DEF S
<1>11. list \in Seq(Implicants) /\ Range(list) = S
  BY <1>5, <1>10, InOrderFacts
<1>12. ASSUME NEW p \in implicants, IsValid(p)
       PROVE  list # <<>>
  <2>1. p \in Implicants /\ p.values \in [InputGate -> Value]
    BY ImplicantFacts
  <2>2. PICK a : a \in Points(p.values)
    BY <1>12, <2>1, PointsFacts DEF IsValid
  <2>3. a \in Covered(S)
    BY <1>9, <2>2, CoveredFacts DEF points
  <2>4. S # {}
    BY <2>3, CoveredFacts
  <2> QED
    BY <1>11, <2>4 DEF Range
<1> QED
  BY <1>9, <1>11, <1>12 DEF points

\* A circuit as the programs build it.
LEMMA CircuitFacts ==
  ASSUME NEW netlist \in Circuits
  PROVE  Suitable(Build(netlist)) /\ Build(netlist).next - 1 \in Live(Build(netlist))
<1> DEFINE h == InputsOnly
           j == Build(netlist)
           N == Len(netlist)
<1>1. /\ N \in Nat /\ NumOfInputs \in Nat /\ NumOfInputs >= 1
      /\ \A n \in 1 .. N :
            \/ \E i \in InputGate : netlist[n] = <<"NOT", i>>
            \/ \E kind \in {"AND", "OR"}, x, y \in 1 .. NumOfInputs + n - 1 :
                 netlist[n] = <<kind, x, y>>
  BY CircuitsAssumption
<1>2. /\ HeapRecord(h) /\ Layered(h) /\ Live(h) = InputGate /\ h.next = NumOfInputs + 1
      /\ j = AddGates(h, netlist)
  BY InputsOnlyFacts DEF Build
<1> HIDE DEF h, j, N
<1>3. ASSUME NEW n \in 1 .. N
      PROVE  /\ GateAbove(netlist[n], Live(h) \cup h.next .. h.next + n - 2)
             /\ netlist[n][1] \in {"NOT", "AND", "OR"}
             /\ netlist[n][1] = "NOT" => Tail(netlist[n])[1] \in InputGate
  <2>1. Live(h) \cup h.next .. h.next + n - 2 = 1 .. NumOfInputs + n - 1
    BY <1>1, <1>2 DEF InputGate
  <2>2. CASE \E i \in InputGate : netlist[n] = <<"NOT", i>>
    <3>1. PICK i \in InputGate : netlist[n] = <<"NOT", i>>
      BY <2>2
    <3>2. i \in 1 .. NumOfInputs + n - 1
      BY <1>1 DEF InputGate
    <3>3. GateAbove(<<"NOT", i>>, 1 .. NumOfInputs + n - 1)
      BY <3>2, SpecsAbove
    <3>4. netlist[n][1] = "NOT" /\ Tail(netlist[n])[1] = i
      BY <3>1
    <3> QED
      BY <2>1, <3>1, <3>3, <3>4
  <2>3. CASE \E kind \in {"AND", "OR"}, x, y \in 1 .. NumOfInputs + n - 1 :
               netlist[n] = <<kind, x, y>>
    <3>1. PICK kind \in {"AND", "OR"}, x \in 1 .. NumOfInputs + n - 1, y \in 1 .. NumOfInputs + n - 1 :
            netlist[n] = <<kind, x, y>>
      BY <2>3
    <3>2. GateAbove(<<kind, x, y>>, 1 .. NumOfInputs + n - 1)
      BY SpecsAbove
    <3>3. netlist[n][1] = kind
      BY <3>1
    <3> QED
      BY <2>1, <3>1, <3>2, <3>3
  <2> QED
    BY <1>1, <2>2, <2>3
<1>4. NetlistAbove(netlist, h)
  BY <1>1, <1>3 DEF NetlistAbove, N
<1>5. Grown(h, j, N, netlist)
  BY <1>2, <1>4, AddGatesFacts DEF N
<1>6. /\ HeapRecord(j) /\ Layered(j) /\ j.next = h.next + N
      /\ Live(j) = Live(h) \cup h.next .. h.next + N - 1
      /\ \A g \in Live(h) : j.kind[g] = h.kind[g] /\ j.in[g] = h.in[g]
      /\ \A k \in 1 .. N : /\ j.kind[h.next + k - 1] = netlist[k][1]
                           /\ j.in[h.next + k - 1] = Tail(netlist[k])
  BY <1>5 DEF Grown
<1>7. ASSUME NEW g \in Live(j)
      PROVE  j.kind[g] # "TRUE" /\ (j.kind[g] = "NOT" => j.in[g][1] \in InputGate)
  <2>1. CASE g \in Live(h)
    BY <1>2, <1>6, <2>1, LayeredFacts
  <2>2. CASE g \notin Live(h)
    <3> DEFINE k == g - h.next + 1
    <3>1. k \in 1 .. N /\ g = h.next + k - 1
      BY <1>1, <1>2, <1>6, <2>2
    <3> HIDE DEF k
    <3> QED
      BY <1>3, <1>6, <3>1
  <2> QED
    BY <2>1, <2>2
<1>8. ASSUME NEW g \in Live(j), NEW x \in ReachableFrom(j, {g})
      PROVE  j.kind[x] # "TRUE"
  <2>1. {g} \in SUBSET Live(j)
    OBVIOUS
  <2>2. ReachableFrom(j, {g}) \subseteq Live(j)
    BY <1>6, <2>1, ReachFacts
  <2> QED
    BY <1>7, <1>8, <2>2
<1>9. Suitable(j)
  BY <1>6, <1>7, <1>8 DEF Suitable, HeapRecord
<1>10. j.next - 1 \in Live(j)
  BY <1>1, <1>2, <1>6 DEF InputGate
<1> QED
  BY <1>9, <1>10 DEF j

-----------------------------------------------------------------------------
(* The invariant.                                                          *)

\* After a SetOutput the circuit is made from the list.
LEMMA SetOutputFacts ==
  ASSUME Suitable(heap), NEW class, NEW list \in Seq(Implicants),
         SetOutput(Sum(class, heap, list), list)
  PROVE  /\ Suitable(heap') /\ output' \in Live(heap') /\ cubes' = list
         /\ BuiltFrom(heap', output', list)
<1> DEFINE built == Sum(class, heap, list)
           h == built.heap
           g == built.gate
           j == Sweep(h, InputGate \cup {g})
<1>1. output' = g /\ heap' = j /\ cubes' = list
  BY DEF SetOutput
<1>2. Suitable(h) /\ g \in Live(h) /\ BuiltFrom(h, g, list)
  BY SumMade DEF SumResult
<1> HIDE DEF h, g
<1>3. Suitable(j) /\ g \in Live(j) /\ BuiltFrom(j, g, list)
  BY <1>2, SweepKeeps
<1> QED
  BY <1>1, <1>3

\* Init: the circuit is one of those that the programs build.
LEMMA DnfInvInit == Init => DnfInv
<1> SUFFICES ASSUME Init PROVE DnfInv
  OBVIOUS
<1>1. PICK netlist \in Circuits :
        /\ output = Build(netlist).next - 1
        /\ heap = Sweep(Build(netlist), InputGate \cup {output})
  BY DEF Init
<1> DEFINE h == Build(netlist)
<1>2. Suitable(h) /\ output \in Live(h)
  BY <1>1, CircuitFacts
<1> HIDE DEF h
<1>3. Suitable(heap) /\ output \in Live(heap)
  BY <1>1, <1>2, SweepKeeps DEF h
<1>4. /\ goal = Table(heap, output)
      /\ forms = <<>> /\ cubes = <<>> /\ answer = <<>> /\ phase = "circuit"
  BY <1>1 DEF Init
<1>5. <<>> \in Seq(Implicants)
  OBVIOUS
<1> QED
  BY <1>3, <1>4, <1>5 DEF DnfInv

LEMMA DnfInvGetDnf == DnfInv /\ GetDnf => DnfInv'
<1> SUFFICES ASSUME DnfInv, GetDnf PROVE DnfInv'
  OBVIOUS
<1>1. /\ phase = "circuit" /\ forms' = WithForm(heap, forms, output) /\ phase' = "collected"
      /\ heap' = heap /\ output' = output /\ cubes' = cubes /\ answer' = answer /\ goal' = goal
  BY DEF GetDnf
<1>2. /\ Suitable(heap) /\ output \in Live(heap) /\ forms = <<>> /\ Table(heap, output) = goal
      /\ cubes \in Seq(Implicants) /\ answer \in Seq(Implicants)
  BY <1>1 DEF DnfInv
<1> QED
  BY <1>1, <1>2 DEF DnfInv

LEMMA NoForms ==
  ASSUME NEW f, DOMAIN f = {}, NEW S
  PROVE  [x \in DOMAIN f \cap S |-> f[x]] = <<>>
OBVIOUS

LEMMA DnfInvBuild == DnfInv /\ BuildFromDnf => DnfInv'
<1> SUFFICES ASSUME DnfInv, BuildFromDnf PROVE DnfInv'
  OBVIOUS
<1> DEFINE form == Forms(heap, <<>>)[output]
           list == InOrder(FormOf(forms, output))
           reset == ResetForms(heap, forms, output)
<1>1. /\ phase = "collected" /\ SetOutput(Sum("Circuit", heap, list), list)
      /\ forms' = [g \in DOMAIN reset \cap Live(heap') |-> reset[g]]
      /\ phase' = "dnf" /\ answer' = answer /\ goal' = goal
  BY DEF BuildFromDnf
<1>2. /\ Suitable(heap) /\ output \in Live(heap) /\ forms = WithForm(heap, <<>>, output)
      /\ Table(heap, output) = goal /\ answer \in Seq(Implicants)
  BY <1>1 DEF DnfInv
<1>3. FormOf(forms, output) = form /\ DOMAIN reset = {}
  <2>1. DOMAIN <<>> = {}
    OBVIOUS
  <2> QED
    BY <1>2, <2>1, WithFormFacts
<1>4. form \in SUBSET Implicants /\ Covered(form) = goal
  <2>1. DOMAIN <<>> = {}
    OBVIOUS
  <2> QED
    BY <1>2, <2>1, FormsRight DEF FormRight
<1>5. list \in Seq(Implicants) /\ Range(list) = form
  BY <1>3, <1>4, InOrderFacts
<1>6. forms' = <<>>
  BY <1>1, <1>3, NoForms
<1> HIDE DEF form, list
<1>7. /\ Suitable(heap') /\ output' \in Live(heap') /\ cubes' = list
      /\ BuiltFrom(heap', output', list)
  BY <1>1, <1>2, <1>5, SetOutputFacts
<1>8. Covered(Range(cubes')) = goal'
  BY <1>1, <1>4, <1>5, <1>7
<1> QED
  BY <1>1, <1>2, <1>5, <1>6, <1>7, <1>8 DEF DnfInv

\* While the circuit is built from cubes, the list read from it covers goal.
LEMMA ReadListCovers ==
  ASSUME DnfInv, phase = "dnf"
  PROVE  /\ ImplicantList(heap, output) \in SUBSET Implicants
         /\ Covered(ImplicantList(heap, output)) = goal /\ Table(heap, output) = goal
<1>1. /\ Suitable(heap) /\ output \in Live(heap) /\ cubes \in Seq(Implicants)
      /\ BuiltFrom(heap, output, cubes) /\ Covered(Range(cubes)) = goal
  BY DEF DnfInv
<1> QED
  BY <1>1, BuiltCovers

LEMMA DnfInvEspresso == DnfInv /\ Espresso => DnfInv'
<1> SUFFICES ASSUME DnfInv, Espresso PROVE DnfInv'
  OBVIOUS
<1> DEFINE list == ImplicantList(heap, output)
<1>1. /\ phase = "dnf" /\ forms' = forms /\ goal' = goal
      /\ \/ /\ list = {} /\ SetOutput(Sum("DnfCircuit", heap, <<>>), <<>>)
            /\ phase' = "done" /\ answer' = answer
         \/ /\ list # {} /\ answer' \in Answers(list) /\ cubes' = <<>>
            /\ phase' = "reading" /\ output' = output /\ heap' = heap
  BY DEF Espresso
<1>2. /\ Suitable(heap) /\ output \in Live(heap) /\ forms = <<>> /\ answer \in Seq(Implicants)
      /\ \A clause \in ClauseGates(heap, output) : Plain(heap, clause)
  BY <1>1 DEF DnfInv, BuiltFrom
<1>3. list \in SUBSET Implicants /\ Covered(list) = goal /\ Table(heap, output) = goal
  BY <1>1, ReadListCovers
<1>4. \A p \in list : IsValid(p)
  BY DEF ImplicantList
<1> HIDE DEF list
<1>5. <<>> \in Seq(Implicants) /\ Range(<<>>) = {}
  BY DEF Range
<1>6. CASE list = {}
  <2>1. /\ Suitable(heap') /\ output' \in Live(heap') /\ cubes' = <<>>
        /\ BuiltFrom(heap', output', <<>>) /\ phase' = "done" /\ answer' = answer
    BY <1>1, <1>2, <1>5, <1>6, SetOutputFacts
  <2>2. Covered(Range(cubes')) = goal'
    BY <1>1, <1>3, <1>5, <1>6, <2>1
  <2> QED
    BY <1>1, <1>2, <1>5, <2>1, <2>2 DEF DnfInv
<1>7. CASE list # {}
  <2>1. /\ answer' \in Answers(list) /\ cubes' = <<>>
        /\ phase' = "reading" /\ output' = output /\ heap' = heap
    BY <1>1, <1>7
  <2>2. answer' \in Seq(Implicants) /\ Covered(Range(answer')) = goal /\ answer' # <<>>
    BY <1>3, <1>4, <1>7, <2>1, AnswerFacts
  <2>3. <<>> \o answer' = answer'
    BY <2>2
  <2>4. Covered(Range(cubes' \o answer')) = goal'
    BY <1>1, <2>1, <2>2, <2>3
  <2> QED
    BY <1>1, <1>2, <1>3, <1>5, <2>1, <2>2, <2>4 DEF DnfInv
<1> QED
  BY <1>6, <1>7

\* Moving the first line of answer to the end of cubes leaves the whole.
LEMMA LineMoved ==
  ASSUME NEW S, NEW s \in Seq(S), NEW t \in Seq(S), t # <<>>
  PROVE  /\ Append(s, Head(t)) \in Seq(S) /\ Tail(t) \in Seq(S) /\ Append(s, Head(t)) # <<>>
         /\ Append(s, Head(t)) \o Tail(t) = s \o t
<1>1. Head(t) \in S /\ Tail(t) \in Seq(S) /\ Len(t) >= 1 /\ Len(Tail(t)) = Len(t) - 1
  OBVIOUS
<1> DEFINE a == Append(s, Head(t))
           u == a \o Tail(t)
           w == s \o t
<1>2. a \in Seq(S) /\ Len(a) = Len(s) + 1
  BY <1>1
<1>3. u \in Seq(S) /\ w \in Seq(S) /\ Len(u) = Len(w) /\ Len(w) = Len(s) + Len(t)
  BY <1>1, <1>2
<1>4. ASSUME NEW n \in 1 .. Len(s) + Len(t)
      PROVE  u[n] = w[n]
  BY <1>1, <1>2
<1>5. u = w
  <2> HIDE DEF u, w
  <2> QED
    BY <1>3, <1>4
<1>6. a # <<>>
  BY <1>2
<1> QED
  BY <1>1, <1>2, <1>5, <1>6

LEMMA DnfInvReadLine == DnfInv /\ ReadLine => DnfInv'
<1> SUFFICES ASSUME DnfInv, ReadLine PROVE DnfInv'
  OBVIOUS
<1> DEFINE list == Append(cubes, Head(answer))
<1>1. /\ phase = "reading" /\ answer # <<>> /\ SetOutput(Sum("DnfCircuit", heap, list), list)
      /\ answer' = Tail(answer) /\ forms' = forms /\ phase' = phase /\ goal' = goal
  BY DEF ReadLine
<1>2. /\ Suitable(heap) /\ output \in Live(heap) /\ forms = <<>>
      /\ cubes \in Seq(Implicants) /\ answer \in Seq(Implicants)
      /\ Covered(Range(cubes \o answer)) = goal
  BY <1>1 DEF DnfInv
<1>3. list \in Seq(Implicants) /\ Tail(answer) \in Seq(Implicants) /\ list # <<>>
  BY <1>1, <1>2, LineMoved
<1>4. list \o Tail(answer) = cubes \o answer
  BY <1>1, <1>2, LineMoved
<1> HIDE DEF list
<1>5. /\ Suitable(heap') /\ output' \in Live(heap') /\ cubes' = list
      /\ BuiltFrom(heap', output', list)
  BY <1>1, <1>2, <1>3, SetOutputFacts
<1>6. Covered(Range(cubes' \o answer')) = goal'
  BY <1>1, <1>2, <1>4, <1>5
<1>7. \A clause \in ClauseGates(heap', output') : Plain(heap', clause)
  BY <1>5 DEF BuiltFrom
<1> QED
  BY <1>1, <1>2, <1>3, <1>5, <1>6, <1>7 DEF DnfInv

LEMMA DnfInvEndOfFile == DnfInv /\ EndOfFile => DnfInv'
<1> SUFFICES ASSUME DnfInv, EndOfFile PROVE DnfInv'
  OBVIOUS
<1>1. /\ phase = "reading" /\ answer = <<>> /\ phase' = "done"
      /\ heap' = heap /\ forms' = forms /\ output' = output /\ cubes' = cubes
      /\ answer' = answer /\ goal' = goal
  BY DEF EndOfFile
<1>2. /\ Suitable(heap) /\ output \in Live(heap) /\ forms = <<>>
      /\ cubes \in Seq(Implicants) /\ answer \in Seq(Implicants) /\ cubes # <<>>
      /\ BuiltFrom(heap, output, cubes) /\ Covered(Range(cubes \o answer)) = goal
  BY <1>1 DEF DnfInv
<1>3. cubes \o answer = cubes
  BY <1>1, <1>2
<1>4. Covered(Range(cubes)) = goal
  BY <1>2, <1>3
<1> QED
  BY <1>1, <1>2, <1>4 DEF DnfInv

LEMMA DnfInvQuineMcClusky == DnfInv /\ QuineMcClusky => DnfInv'
<1> SUFFICES ASSUME DnfInv, QuineMcClusky PROVE DnfInv'
  OBVIOUS
<1>1. /\ phase = "dnf" /\ phase' = "done" /\ forms' = forms /\ answer' = answer /\ goal' = goal
  BY DEF QuineMcClusky
<1>2. PICK list \in Answers(ImplicantList(heap, output)) :
        SetOutput(Sum("DnfCircuit", heap, list), list)
  BY DEF QuineMcClusky
<1>3. Suitable(heap) /\ output \in Live(heap) /\ forms = <<>> /\ answer \in Seq(Implicants)
  BY <1>1 DEF DnfInv
<1>4. list \in Seq(Implicants) /\ Covered(Range(list)) = goal
  <2> DEFINE asked == ImplicantList(heap, output)
  <2>1. asked \in SUBSET Implicants /\ Covered(asked) = goal /\ list \in Answers(asked)
    BY <1>1, ReadListCovers
  <2> HIDE DEF asked
  <2> QED
    BY <2>1, AnswerFacts
<1>5. /\ Suitable(heap') /\ output' \in Live(heap') /\ cubes' = list
      /\ BuiltFrom(heap', output', list)
  BY <1>2, <1>3, <1>4, SetOutputFacts
<1> QED
  BY <1>1, <1>3, <1>4, <1>5 DEF DnfInv

LEMMA DnfInvConvertAgain == DnfInv /\ ConvertAgain => DnfInv'
<1> SUFFICES ASSUME DnfInv, ConvertAgain PROVE DnfInv'
  OBVIOUS
<1> DEFINE copy == Sum("DnfCircuit", InputsOnly, cubes)
           j == copy.heap
           g == copy.gate
<1>1. /\ phase = "done" /\ heap' = j /\ output' = g /\ phase' = "circuit"
      /\ forms' = forms /\ cubes' = cubes /\ answer' = answer /\ goal' = goal
  BY DEF ConvertAgain
<1>2. /\ forms = <<>> /\ cubes \in Seq(Implicants) /\ answer \in Seq(Implicants)
      /\ Covered(Range(cubes)) = goal
  BY <1>1 DEF DnfInv
<1>3. Suitable(InputsOnly)
  BY InputsOnlyFacts, LayeredFacts DEF Suitable, HeapRecord
<1>4. Suitable(j) /\ g \in Live(j) /\ BuiltFrom(j, g, cubes)
  BY <1>2, <1>3, SumMade DEF SumResult
<1> HIDE DEF j, g
<1>5. Table(j, g) = goal
  BY <1>2, <1>4, BuiltCovers
<1> QED
  BY <1>1, <1>2, <1>4, <1>5 DEF DnfInv

\* The conversions keep the invariant: what the circuit was last built from
\* can be read back from its gates, and covers, with the lines of the answer
\* that are still to come, what the circuit computed at first.
THEOREM DnfInvariance == Spec => []DnfInv
<1>1. Init => DnfInv
  BY DnfInvInit
<1>2. DnfInv /\ [Next]_vars => DnfInv'
  <2> SUFFICES ASSUME DnfInv, [Next]_vars PROVE DnfInv'
    OBVIOUS
  <2>1. CASE GetDnf
    BY <2>1, DnfInvGetDnf
  <2>2. CASE BuildFromDnf
    BY <2>2, DnfInvBuild
  <2>3. CASE Espresso
    BY <2>3, DnfInvEspresso
  <2>4. CASE ReadLine
    BY <2>4, DnfInvReadLine
  <2>5. CASE EndOfFile
    BY <2>5, DnfInvEndOfFile
  <2>6. CASE QuineMcClusky
    BY <2>6, DnfInvQuineMcClusky
  <2>7. CASE ConvertAgain
    BY <2>7, DnfInvConvertAgain
  <2>8. CASE UNCHANGED vars
    BY <2>8 DEF vars, DnfInv
  <2> QED
    BY <2>1, <2>2, <2>3, <2>4, <2>5, <2>6, <2>7, <2>8 DEF Next
<1> QED
  BY <1>1, <1>2, PTL DEF Spec

\* toDnf, minimizeEspresso and minimizeQuineMcClusky keep the function, and
\* the circuit built line by line computes the lines read so far.
THEOREM FunctionPreserved == Spec => []FunctionKept
<1>1. DnfInv => FunctionKept
  <2> SUFFICES ASSUME DnfInv PROVE FunctionKept
    OBVIOUS
  <2>1. /\ phase \in {"circuit", "collected", "dnf", "reading", "done"}
        /\ Suitable(heap) /\ output \in Live(heap) /\ cubes \in Seq(Implicants)
    BY DEF DnfInv
  <2>2. CASE phase \in {"circuit", "collected"}
    BY <2>2 DEF DnfInv, FunctionKept
  <2>3. CASE phase \in {"dnf", "done"}
    <3>1. BuiltFrom(heap, output, cubes) /\ Covered(Range(cubes)) = goal
      BY <2>3 DEF DnfInv
    <3>2. Table(heap, output) = goal
      BY <2>1, <3>1, BuiltCovers
    <3> QED
      BY <2>3, <3>2 DEF FunctionKept
  <2>4. CASE phase = "reading" /\ cubes # <<>>
    <3>1. BuiltFrom(heap, output, cubes) /\ Covered(Range(cubes \o answer)) = goal
      BY <2>4 DEF DnfInv
    <3>2. Table(heap, output) = Covered(Range(cubes))
      BY <2>1, <3>1, BuiltCovers
    <3> QED
      BY <2>4, <3>1, <3>2 DEF FunctionKept
  <2>5. CASE phase = "reading" /\ cubes = <<>>
    BY <2>5 DEF DnfInv, FunctionKept
  <2> QED
    BY <2>1, <2>2, <2>3, <2>4, <2>5
<1> QED
  BY <1>1, DnfInvariance, PTL

\* getImplicantList finds in the gates the implicants that the circuit was
\* built from: none is lost, and none is read as another one.
THEOREM ReadsBack == Spec => []ReadBack
<1>1. DnfInv => ReadBack
  BY DEF DnfInv, BuiltFrom, ValidValues, ReadBack
<1> QED
  BY <1>1, DnfInvariance, PTL

\* collectInputsFromSubgraph meets no OR, and NOT gates above inputs only.
THEOREM NoError == Spec => []NoDnfError
<1>1. DnfInv => NoDnfError
  <2> SUFFICES ASSUME DnfInv, phase \in {"dnf", "reading", "done"},
                      NEW clause \in ClauseGates(heap, output),
                      NEW g \in ReachableFrom(heap, {clause})
               PROVE  /\ heap.kind[g] # "OR"
                      /\ heap.kind[g] = "NOT" => heap.in[g][1] \in InputGate
    BY DEF NoDnfError
  <2>1. Suitable(heap) /\ Layered(heap) /\ output \in Live(heap)
    BY SuitableFacts DEF DnfInv
  <2>2. Plain(heap, clause)
    BY DEF DnfInv, BuiltFrom
  <2>3. {clause} \in SUBSET Live(heap)
    BY <2>1, ClauseFacts
  <2>4. g \in Live(heap)
    BY <2>1, <2>3, ReachFacts
  <2> QED
    BY <2>1, <2>2, <2>4, SuitableFacts DEF Plain
<1> QED
  BY <1>1, DnfInvariance, PTL
=============================================================================
