----------------------- MODULE ConvertToSingleProofs -----------------------
(***************************************************************************)
(* Proofs about one phase (PairExtraction) and about the whole conversion  *)
(* (ConvertToSingle), for every network and any number of gates.           *)
(*   - In a phase Inv is inductive; the properties follow from it, and so  *)
(*     does that it implements the safety part of PairSharing: CreateGate  *)
(*     is the sharing step, every other step stutters.                     *)
(*   - Through both phases and both copies the output computes what it     *)
(*     computed, no multi-gate is left, and Inv holds in the second phase  *)
(*     as in the first.                                                    *)
(***************************************************************************)
EXTENDS ConvertToSingle, PairExtractionRefinement, FiniteSetTheorems, NaturalsInduction, TLAPS

-----------------------------------------------------------------------------
\* One phase.

\* What the extraction of a pair does to the input lists and to the recorded
\* pairs, one multi-gate at a time (MultiGate::replaceInputs).
LEMMA ReplaceEffect ==
  ASSUME NEW g \in pending, ReplaceInputs(g), TypeOK
  PROVE  /\ DOMAIN inputIndex' = DOMAIN inputIndex
         /\ OfPhase' = OfPhase
         /\ g \in OfPhase
         /\ Inputs(g)' = (Inputs(g) \ {highest[1], highest[2]}) \cup {newGate}
         /\ \A h \in DOMAIN inputIndex :
              h # g => Inputs(h)' = Inputs(h) /\ inputIndex'[h] = inputIndex[h]
         /\ DOMAIN occurrences' = DOMAIN occurrences \cup
              {<<x, newGate>> : x \in Inputs(g) \ {highest[1], highest[2]}}
         /\ newElements' = newElements \cup (DOMAIN occurrences' \ DOMAIN occurrences)
         /\ \A k \in DOMAIN occurrences' :
              occurrences'[k] =
                (IF k \in DOMAIN occurrences THEN occurrences[k] ELSE {}) \cup
                (IF k \in {<<x, newGate>> : x \in Inputs(g) \ {highest[1], highest[2]}}
                   THEN {g} ELSE {})
         /\ occurrences' = [k \in DOMAIN occurrences' |-> occurrences'[k]]
<1> DEFINE keys == {<<x, newGate>> : x \in Inputs(g) \ {highest[1], highest[2]}}
<1>1. g \in OfPhase /\ g \in DOMAIN inputIndex
  BY DEF TypeOK, OfPhase
<1>2. DOMAIN inputIndex' = DOMAIN inputIndex /\ phase' = phase
  BY DEF ReplaceInputs
<1>3. OfPhase' = OfPhase
  BY <1>2 DEF OfPhase
<1>4. inputIndex'[g] = [x \in (Inputs(g) \ {highest[1], highest[2]}) \cup {newGate} |->
                          IF x = newGate THEN place ELSE inputIndex[g][x]]
  BY <1>1 DEF ReplaceInputs, Rest
<1>5. Inputs(g)' = (Inputs(g) \ {highest[1], highest[2]}) \cup {newGate}
  BY <1>4 DEF Inputs
<1>6. \A h \in DOMAIN inputIndex :
        h # g => Inputs(h)' = Inputs(h) /\ inputIndex'[h] = inputIndex[h]
  BY <1>1 DEF ReplaceInputs, Inputs
<1>7. occurrences' = [k \in DOMAIN occurrences \cup keys |->
                        (IF k \in DOMAIN occurrences THEN occurrences[k] ELSE {})
                          \cup (IF k \in keys THEN {g} ELSE {})]
  BY DEF ReplaceInputs, Rest, NewPairs
<1>8. newElements' = newElements \cup (keys \ DOMAIN occurrences)
  BY DEF ReplaceInputs, Rest, NewPairs
<1> HIDE DEF keys
<1>9. DOMAIN occurrences' = DOMAIN occurrences \cup keys
  BY <1>7
<1>10. newElements' = newElements \cup (DOMAIN occurrences' \ DOMAIN occurrences)
  BY <1>8, <1>9
<1>11. \A k \in DOMAIN occurrences' :
         occurrences'[k] = (IF k \in DOMAIN occurrences THEN occurrences[k] ELSE {})
                             \cup (IF k \in keys THEN {g} ELSE {})
  BY <1>7
<1>12. occurrences' = [k \in DOMAIN occurrences' |-> occurrences'[k]]
  BY <1>7
<1> USE DEF keys
<1> QED
  BY <1>1, <1>2, <1>3, <1>5, <1>6, <1>9, <1>10, <1>11, <1>12

\* What repairing the front list and making a gate for it do.
LEMMA CreateEffect ==
  ASSUME NEW k \in ordered, CreateGate(k), TypeOK
  PROVE  /\ Fresh \in NewGate /\ Fresh \notin DOMAIN made
         /\ Fresh \notin DOMAIN table
         /\ k \in DOMAIN occurrences
         /\ DOMAIN made' = DOMAIN made \cup {Fresh}
         /\ DOMAIN table' = DOMAIN table \cup {Fresh}
         /\ \A x \in DOMAIN table : table'[x] = table[x]
         /\ table'[Fresh] = Combine(phase, {table[k[1]], table[k[2]]})
         /\ OfPhase' = OfPhase
         /\ \A g \in DOMAIN inputIndex : Inputs(g)' = Inputs(g)
         /\ DOMAIN occurrences' = DOMAIN occurrences
         /\ occurrences'[k] = Current(k)
         /\ \A j \in DOMAIN occurrences : j # k => occurrences'[j] = occurrences[j]
         /\ Current(k) \subseteq OfPhase
<1>1. Fresh \in NewGate /\ Fresh \notin DOMAIN made
  <2>1. \E n \in NewGate : n \notin DOMAIN made
    BY DEF CreateGate
  <2> QED
    BY <2>1 DEF Fresh
<1>2. Fresh \notin DOMAIN table
  BY <1>1, NetworkAssumption DEF TypeOK
<1>3. k \in DOMAIN occurrences
  BY DEF TypeOK
<1>4. DOMAIN made' = DOMAIN made \cup {Fresh}
  BY DEF CreateGate
<1>5. /\ DOMAIN table' = DOMAIN table \cup {Fresh}
      /\ \A x \in DOMAIN table : table'[x] = table[x]
      /\ table'[Fresh] = Combine(phase, {table[k[1]], table[k[2]]})
  BY <1>2 DEF CreateGate, Combination
<1>6. OfPhase' = OfPhase /\ \A g \in DOMAIN inputIndex : Inputs(g)' = Inputs(g)
  BY DEF CreateGate, OfPhase, Inputs
<1>7. /\ DOMAIN occurrences' = DOMAIN occurrences
      /\ occurrences'[k] = Current(k)
      /\ \A j \in DOMAIN occurrences : j # k => occurrences'[j] = occurrences[j]
  BY <1>3 DEF CreateGate
<1>8. Current(k) \subseteq OfPhase
  BY <1>3 DEF TypeOK, Current
<1> QED
  BY <1>1, <1>2, <1>3, <1>4, <1>5, <1>6, <1>7, <1>8

-----------------------------------------------------------------------------
\* Every network a conversion may start from satisfies the invariant.
LEMMA InitInv == Init => Inv
<1> SUFFICES ASSUME Init PROVE Inv
  OBVIOUS
<1>1. PICK net \in Network : StartFrom(net)
  BY DEF Init
<1>2. WellFormed(net)
  BY NetworkAssumption
<1>3. Cardinality(Gate) \in Nat
  BY NetworkAssumption, FS_CardinalityType
<1>4. DOMAIN inputIndex = MultiGate \cap DOMAIN table /\ pc = "collect" /\ phase \in MultiType
  BY <1>1, <1>2 DEF StartFrom, WellFormed, Init
<1>5. TypeOK
  <2>1. DOMAIN table \subseteq Gate /\ made = << >>
    BY <1>1, <1>2 DEF StartFrom, WellFormed
  <2>2. DOMAIN made = NewGate \cap DOMAIN table
    BY <2>1, NetworkAssumption
  <2>3. \A g \in DOMAIN inputIndex : /\ Inputs(g) \subseteq DOMAIN table
                                     /\ inputIndex[g] \in [Inputs(g) -> 1 .. place]
    <3> SUFFICES ASSUME NEW g \in DOMAIN inputIndex
                 PROVE  /\ DOMAIN inputIndex[g] \subseteq DOMAIN table
                        /\ inputIndex[g] \in [DOMAIN inputIndex[g] -> 1 .. place]
      BY DEF Inputs
    <3>1. /\ DOMAIN inputIndex[g] \subseteq DOMAIN table
          /\ inputIndex[g] \in [DOMAIN inputIndex[g] -> 1 .. Cardinality(Gate)]
      BY <1>1, <1>2 DEF StartFrom, WellFormed
    <3>2. place = 1 + Cardinality(Gate)
      BY <1>1 DEF StartFrom
    <3> QED
      BY <1>3, <3>1, <3>2
  <2>4. place \in Nat \ {0} /\ table \in [DOMAIN table -> SUBSET Assignment]
    BY <1>1, <1>2, <1>3 DEF StartFrom, WellFormed
  <2> QED
    BY <1>1, <1>4, <2>1, <2>2, <2>3, <2>4 DEF StartFrom, TypeOK, Operand
<1>10. inputIndex = net.inputIndex /\ table = net.table /\ occurrences = << >>
  BY <1>1 DEF StartFrom
<1>6. ListsInjective /\ PairsProper
  <2>1. ListsInjective
    BY <1>2, <1>4, <1>10 DEF WellFormed, ListsInjective, Inputs
  <2>2. \A g \in DOMAIN inputIndex : Inputs(g) # {}
    BY <1>2, <1>4, <1>10 DEF WellFormed, Inputs
  <2> QED
    BY <2>1, <2>2, <1>10 DEF PairsProper
<1>7. Replacing /\ BetweenReplacements /\ PairsRecorded /\ OneInputLeft
  BY <1>1 DEF StartFrom, Replacing, BetweenReplacements, PairsRecorded, OneInputLeft
<1>8. ExtractedGone
  BY <1>1 DEF StartFrom, ExtractedGone
<1>9. SameFunction
  <2> SUFFICES ASSUME NEW g \in DOMAIN inputIndex
               PROVE  table[g] = Combine(Kind[g], {table[x] : x \in Inputs(g)})
    BY <1>4 DEF SameFunction
  <2>1. net.table[g] = Combine(Kind[g],
                               {net.table[x] : x \in DOMAIN net.inputIndex[g]})
    BY <1>2, <1>10 DEF WellFormed
  <2> QED
    BY <2>1, <1>10, Zenon DEF Inputs
<1> QED
  BY <1>5, <1>6, <1>7, <1>8, <1>9 DEF Inv

\* The steps of the loop, as the cases of the proofs below.
LEMMA StepCases ==
  ASSUME [Next]_vars
  PROVE  \/ Collect
         \/ \E k \in ordered : Reinsert(k)
         \/ \E k \in ordered : Exhausted(k)
         \/ \E k \in ordered : CreateGate(k)
         \/ \E g \in pending : ReplaceInputs(g)
         \/ InsertNewElements
         \/ Drained
         \/ UNCHANGED vars
BY DEF Next, PhaseStep, Finished

\* Every step keeps the variables' shapes.
LEMMA TypeStep ==
  ASSUME TypeOK, Replacing, BetweenReplacements, [Next]_vars
  PROVE  TypeOK'
<1>1. CASE Collect
  <2> DEFINE keys == UNION {ListPairs(g) : g \in OfPhase}
  <2>1. keys \subseteq (DOMAIN table) \X (DOMAIN table)
    BY DEF ListPairs, OfPhase, TypeOK
  <2>2. /\ occurrences' = [k \in keys |-> {g \in OfPhase : k \in ListPairs(g)}]
        /\ ordered' = keys
    BY <1>1 DEF Collect
  <2> HIDE DEF keys
  <2>3. OfPhase' = OfPhase
    BY <1>1 DEF Collect, OfPhase
  <2>4. occurrences' \in [keys -> SUBSET OfPhase]
    BY <2>2
  <2>5. newElements = {} /\ pending \subseteq OfPhase /\ newElements' = newElements
    BY <1>1 DEF Collect, TypeOK, BetweenReplacements
  <2> QED
    BY <1>1, <2>1, <2>2, <2>3, <2>4, <2>5 DEF Collect, TypeOK, Inputs
<1>2. ASSUME NEW k \in ordered, Reinsert(k) PROVE TypeOK'
  <2>1. OfPhase' = OfPhase /\ Current(k) \subseteq OfPhase /\ k \in DOMAIN occurrences
    BY <1>2 DEF Reinsert, OfPhase, Current, TypeOK
  <2> QED
    BY <1>2, <2>1 DEF Reinsert, TypeOK, Inputs
<1>3. ASSUME NEW k \in ordered, Exhausted(k) PROVE TypeOK'
  <2>1. OfPhase' = OfPhase /\ k \in DOMAIN occurrences
    BY <1>3 DEF Exhausted, OfPhase, TypeOK
  <2> QED
    BY <1>3, <2>1 DEF Exhausted, TypeOK, Inputs
<1>4. ASSUME NEW k \in ordered, CreateGate(k) PROVE TypeOK'
  <2>1. Combine(phase, {table[k[1]], table[k[2]]}) \in SUBSET Assignment
    <3>1. table[k[1]] \subseteq Assignment /\ table[k[2]] \subseteq Assignment
      BY <1>4 DEF TypeOK
    <3> QED
      BY <3>1 DEF Combine
  <2>2. table' \in [DOMAIN table' -> SUBSET Assignment]
    BY <1>4, <2>1 DEF CreateGate, Combination, TypeOK
  <2>3. made' \in [DOMAIN made' -> [type : MultiType,
                                    pair : (DOMAIN table') \X (DOMAIN table')]]
    BY <1>4, CreateEffect DEF CreateGate, TypeOK
  <2>4. occurrences' \in [DOMAIN occurrences -> SUBSET OfPhase]
    BY <1>4, CreateEffect DEF CreateGate, TypeOK
  <2>5. place \in Nat /\ place' = place + 1 /\ inputIndex' = inputIndex
    BY <1>4 DEF CreateGate, TypeOK
  <2>6. 1 .. place \subseteq 1 .. place'
    BY <2>5
  <2>7. DOMAIN made' = DOMAIN made \cup {Fresh} /\ Fresh \in NewGate
    BY <1>4, CreateEffect
  <2>8. \A g \in DOMAIN inputIndex' : /\ Inputs(g)' \subseteq DOMAIN table'
                                      /\ inputIndex'[g] \in [Inputs(g)' -> 1 .. place']
    <3> SUFFICES ASSUME NEW g \in DOMAIN inputIndex
                 PROVE  /\ DOMAIN inputIndex[g] \subseteq DOMAIN table'
                        /\ inputIndex[g] \in [DOMAIN inputIndex[g] -> 1 .. place']
      BY <2>5 DEF Inputs
    <3>1. /\ DOMAIN inputIndex[g] \subseteq DOMAIN table
          /\ inputIndex[g] \in [DOMAIN inputIndex[g] -> 1 .. place]
      BY DEF TypeOK, Inputs
    <3>2. DOMAIN table \subseteq DOMAIN table'
      BY <1>4, CreateEffect
    <3> QED
      BY <2>6, <3>1, <3>2
  <2>9. /\ DOMAIN table' = DOMAIN table \cup {Fresh}
        /\ OfPhase' = OfPhase
        /\ Current(k) \subseteq OfPhase
        /\ k \in DOMAIN occurrences
        /\ DOMAIN occurrences' = DOMAIN occurrences
    BY <1>4, CreateEffect
  <2>10. /\ phase' = phase /\ pc' = "replace" /\ highest' = k /\ newGate' = Fresh
         /\ ordered' = ordered \ {k} /\ newElements' = {} /\ pending' = Current(k)
    BY <1>4 DEF CreateGate
  <2>11. DOMAIN made' = NewGate \cap DOMAIN table'
    BY <2>7, <2>9 DEF TypeOK
  <2>12. /\ DOMAIN inputIndex' = MultiGate \cap DOMAIN table'
         /\ DOMAIN table' \subseteq Operand
    BY <2>5, <2>7, <2>9, NetworkAssumption DEF TypeOK, MultiGate, Operand
  <2>13. /\ DOMAIN occurrences' \subseteq (DOMAIN table') \X (DOMAIN table')
         /\ ordered' \subseteq DOMAIN occurrences'
         /\ pending' \subseteq OfPhase'
    BY <2>9, <2>10 DEF TypeOK
  <2>14. place' \in Nat \ {0}
    BY <2>5
  <2>15. highest' \in DOMAIN occurrences' /\ newGate' \in DOMAIN made'
    BY <2>7, <2>9, <2>10
  <2>16. phase' \in MultiType /\ occurrences' \in [DOMAIN occurrences' -> SUBSET OfPhase']
    BY <2>4, <2>9, <2>10 DEF TypeOK
  <2> QED
    BY <2>2, <2>3, <2>8, <2>10, <2>11, <2>12, <2>13, <2>14, <2>15, <2>16 DEF TypeOK
<1>5. ASSUME NEW g \in pending, ReplaceInputs(g) PROVE TypeOK'
  <2>1. /\ DOMAIN inputIndex' = DOMAIN inputIndex
        /\ OfPhase' = OfPhase
        /\ g \in OfPhase
        /\ Inputs(g)' = (Inputs(g) \ {highest[1], highest[2]}) \cup {newGate}
        /\ \A h \in DOMAIN inputIndex :
             h # g => Inputs(h)' = Inputs(h) /\ inputIndex'[h] = inputIndex[h]
        /\ DOMAIN occurrences' = DOMAIN occurrences \cup
             {<<x, newGate>> : x \in Inputs(g) \ {highest[1], highest[2]}}
        /\ newElements' = newElements \cup (DOMAIN occurrences' \ DOMAIN occurrences)
    BY <1>5, ReplaceEffect
  <2>2. /\ pc = "replace" /\ newGate \in DOMAIN table /\ newGate \in DOMAIN made
        /\ g \in DOMAIN inputIndex
    BY <1>5, <2>1 DEF ReplaceInputs, TypeOK, OfPhase
  <2>3. inputIndex'[g] \in [Inputs(g)' -> 1 .. place]
    <3>1. inputIndex'[g] = [x \in (Inputs(g) \ {highest[1], highest[2]}) \cup {newGate} |->
                              IF x = newGate THEN place ELSE inputIndex[g][x]]
      BY <1>5, <2>2 DEF ReplaceInputs, Rest
    <3>2. place \in 1 .. place
      BY <1>5, <2>2 DEF TypeOK
    <3>3. inputIndex[g] \in [Inputs(g) -> 1 .. place]
      BY <2>2 DEF TypeOK
    <3> QED
      BY <2>1, <3>1, <3>2, <3>3
  <2>4. /\ phase' = phase /\ pc' = pc /\ place' = place /\ made' = made /\ table' = table
        /\ ordered' = ordered /\ highest' = highest /\ newGate' = newGate
        /\ pending' = pending \ {g}
    BY <1>5 DEF ReplaceInputs
  <2>5. \A h \in DOMAIN inputIndex' : /\ Inputs(h)' \subseteq DOMAIN table'
                                      /\ inputIndex'[h] \in [Inputs(h)' -> 1 .. place']
    <3> SUFFICES ASSUME NEW h \in DOMAIN inputIndex
                 PROVE  /\ Inputs(h)' \subseteq DOMAIN table
                        /\ inputIndex'[h] \in [Inputs(h)' -> 1 .. place]
      BY <2>1, <2>4
    <3>1. CASE h = g
      BY <2>1, <2>2, <2>3, <3>1 DEF TypeOK
    <3>2. CASE h # g
      BY <2>1, <3>2 DEF TypeOK
    <3> QED
      BY <3>1, <3>2
  <2>6. DOMAIN occurrences' \subseteq (DOMAIN table) \X (DOMAIN table)
    <3>1. Inputs(g) \subseteq DOMAIN table
      BY <2>2 DEF TypeOK
    <3>2. {<<x, newGate>> : x \in Inputs(g) \ {highest[1], highest[2]}}
            \subseteq (DOMAIN table) \X (DOMAIN table)
      BY <2>2, <3>1
    <3> QED
      BY <2>1, <3>2 DEF TypeOK
  <2>7. occurrences' \in [DOMAIN occurrences' -> SUBSET OfPhase]
    <3>0. \A k \in DOMAIN occurrences' :
            occurrences'[k] =
              (IF k \in DOMAIN occurrences THEN occurrences[k] ELSE {}) \cup
              (IF k \in {<<x, newGate>> : x \in Inputs(g) \ {highest[1], highest[2]}}
                 THEN {g} ELSE {})
      BY <1>5, ReplaceEffect
    <3>1. \A k \in DOMAIN occurrences' : occurrences'[k] \subseteq OfPhase
      <4> TAKE k \in DOMAIN occurrences'
      <4>1. occurrences'[k] \subseteq
              (IF k \in DOMAIN occurrences THEN occurrences[k] ELSE {}) \cup {g}
        BY <3>0
      <4>2. k \in DOMAIN occurrences => occurrences[k] \subseteq OfPhase
        BY DEF TypeOK
      <4> QED
        BY <2>1, <4>1, <4>2
    <3>2. occurrences' = [k \in DOMAIN occurrences' |-> occurrences'[k]]
      BY <1>5, ReplaceEffect
    <3> QED
      BY <3>1, <3>2
  <2> QED
    BY <2>1, <2>4, <2>5, <2>6, <2>7 DEF TypeOK
<1>6. CASE InsertNewElements
  BY <1>6 DEF InsertNewElements, TypeOK, OfPhase, Inputs
<1>7. CASE Drained
  BY <1>7 DEF Drained, TypeOK, OfPhase, Inputs
<1>8. CASE UNCHANGED vars
  BY <1>8 DEF vars, TypeOK, OfPhase, Inputs
<1> QED
  BY <1>1, <1>2, <1>3, <1>4, <1>5, <1>6, <1>7, <1>8, StepCases

\* Lists stay without repetition until their pairs are recorded, and no work
\* of a replacement is left over when it ends.
LEMMA ListsStep ==
  ASSUME Inv, [Next]_vars
  PROVE  ListsInjective' /\ BetweenReplacements'
<1>1. CASE Collect
  BY <1>1 DEF Collect, Inv, ListsInjective, BetweenReplacements, Inputs
<1>2. CASE \E k \in ordered : Reinsert(k) \/ Exhausted(k)
  BY <1>2 DEF Reinsert, Exhausted, Inv, ListsInjective, BetweenReplacements, Inputs
<1>3. ASSUME NEW k \in ordered, CreateGate(k)
      PROVE  ListsInjective' /\ BetweenReplacements'
  <2>1. /\ inputIndex' = inputIndex /\ place' = place + 1 /\ pc' = "replace"
        /\ pending' \subseteq OfPhase
    BY <1>3, CreateEffect DEF CreateGate, Inv
  <2>2. \A g \in pending' : \A x \in Inputs(g) : inputIndex[g][x] < place'
    <3> SUFFICES ASSUME NEW g \in pending', NEW x \in Inputs(g)
                 PROVE  inputIndex[g][x] < place'
      OBVIOUS
    <3>1. g \in DOMAIN inputIndex
      BY <2>1 DEF OfPhase
    <3>2. inputIndex[g][x] \in 1 .. place /\ place \in Nat
      BY <3>1 DEF Inv, TypeOK
    <3> QED
      BY <2>1, <3>2
  <2> QED
    BY <2>1, <2>2 DEF Inv, ListsInjective, BetweenReplacements, Inputs
<1>4. ASSUME NEW g \in pending, ReplaceInputs(g)
      PROVE  ListsInjective' /\ BetweenReplacements'
  <2>1. /\ DOMAIN inputIndex' = DOMAIN inputIndex /\ g \in DOMAIN inputIndex
        /\ Inputs(g)' = Rest(g) \cup {newGate}
        /\ \A h \in DOMAIN inputIndex :
             h # g => Inputs(h)' = Inputs(h) /\ inputIndex'[h] = inputIndex[h]
    BY <1>4, ReplaceEffect DEF Inv, Rest, OfPhase
  <2>2. /\ pc = "replace" /\ pc' = pc /\ place' = place /\ pending' = pending \ {g}
        /\ \A x \in Rest(g) \cup {newGate} :
             inputIndex'[g][x] = IF x = newGate THEN place ELSE inputIndex[g][x]
    BY <1>4, <2>1 DEF ReplaceInputs
  <2>3. \A x \in Rest(g) : inputIndex[g][x] # place
    <3>1. \A x \in Rest(g) : inputIndex[g][x] \in Nat /\ inputIndex[g][x] < place
      BY <2>1, <2>2 DEF Inv, TypeOK, ListsInjective, Rest
    <3> QED
      BY <3>1
  <2>4. \A x, y \in Inputs(g)' : inputIndex'[g][x] = inputIndex'[g][y] => x = y
    <3>1. \A x, y \in Rest(g) : inputIndex[g][x] = inputIndex[g][y] => x = y
      BY <2>1 DEF Inv, ListsInjective, Rest
    <3> QED
      BY <2>1, <2>2, <2>3, <3>1
  <2>5. \A h \in DOMAIN inputIndex' : \A x, y \in Inputs(h)' :
          inputIndex'[h][x] = inputIndex'[h][y] => x = y
    BY <2>1, <2>4 DEF Inv, ListsInjective
  <2>6. \A h \in pending' : \A x \in Inputs(h)' : inputIndex'[h][x] < place'
    <3>1. \A h \in pending : h \in DOMAIN inputIndex
      BY DEF Inv, TypeOK, OfPhase
    <3> QED
      BY <2>1, <2>2, <3>1 DEF Inv, ListsInjective
  <2> QED
    BY <2>2, <2>5, <2>6 DEF ListsInjective, BetweenReplacements
<1>5. CASE InsertNewElements \/ Drained
  BY <1>5 DEF InsertNewElements, Drained, Inv, ListsInjective, BetweenReplacements, Inputs
<1>6. CASE UNCHANGED vars
  BY <1>6 DEF vars, Inv, ListsInjective, BetweenReplacements, Inputs
<1> QED
  BY <1>1, <1>2, <1>3, <1>4, <1>5, <1>6, StepCases

\* No step empties a multi-gate or records a pair of a gate with itself.
LEMMA ProperStep ==
  ASSUME Inv, [Next]_vars
  PROVE  PairsProper'
<1> USE DEF Inv
<1>1. CASE Collect
  <2>1. DOMAIN occurrences' = UNION {ListPairs(g) : g \in OfPhase}
    BY <1>1 DEF Collect
  <2>2. \A g \in OfPhase : \A k \in ListPairs(g) : k[1] # k[2]
    <3> SUFFICES ASSUME NEW g \in OfPhase, NEW k \in ListPairs(g), k[1] = k[2]
                 PROVE  FALSE
      OBVIOUS
    <3>1. inputIndex[g][k[1]] < inputIndex[g][k[2]] /\ k[1] \in Inputs(g)
      BY DEF ListPairs
    <3>2. inputIndex[g][k[1]] \in Nat
      BY <3>1 DEF TypeOK, OfPhase, Inputs
    <3> QED
      BY <3>1, <3>2
  <2> QED
    BY <1>1, <2>1, <2>2 DEF Collect, PairsProper, Inputs
<1>2. ASSUME NEW k \in ordered, Reinsert(k) \/ Exhausted(k) PROVE PairsProper'
  BY <1>2 DEF Reinsert, Exhausted, PairsProper, Inputs
<1>3. ASSUME NEW k \in ordered, CreateGate(k) PROVE PairsProper'
  BY <1>3 DEF CreateGate, PairsProper, Inputs
<1>4. ASSUME NEW g \in pending, ReplaceInputs(g) PROVE PairsProper'
  <2>1. /\ DOMAIN inputIndex' = DOMAIN inputIndex
        /\ Inputs(g)' = (Inputs(g) \ {highest[1], highest[2]}) \cup {newGate}
        /\ \A h \in DOMAIN inputIndex : h # g => Inputs(h)' = Inputs(h)
        /\ DOMAIN occurrences' = DOMAIN occurrences \cup
             {<<x, newGate>> : x \in Inputs(g) \ {highest[1], highest[2]}}
    BY <1>4, ReplaceEffect
  <2>2. newGate \notin Inputs(g)
    BY <1>4 DEF ReplaceInputs, Replacing
  <2> QED
    BY <2>1, <2>2 DEF PairsProper
<1>5. CASE InsertNewElements \/ Drained
  BY <1>5 DEF InsertNewElements, Drained, PairsProper, Inputs
<1>6. CASE UNCHANGED vars
  BY <1>6 DEF vars, PairsProper, Inputs
<1> QED
  BY <1>1, <1>2, <1>3, <1>4, <1>5, <1>6, StepCases

\* What holds while a pair is being replaced survives each replaceInputs.
LEMMA ReplacingStep ==
  ASSUME Inv, [Next]_vars
  PROVE  Replacing'
<1> USE DEF Inv
<1>1. CASE Collect
  BY <1>1 DEF Collect, Replacing
<1>2. ASSUME NEW k \in ordered, Reinsert(k) \/ Exhausted(k) PROVE Replacing'
  BY <1>2 DEF Reinsert, Exhausted, Replacing
<1>3. ASSUME NEW k \in ordered, CreateGate(k) PROVE Replacing'
  <2>1. /\ pc' = "replace" /\ phase' = phase /\ pending' = Current(k)
        /\ highest' = k /\ newGate' = Fresh
        /\ newElements' = {} /\ ordered' = ordered \ {k}
    BY <1>3 DEF CreateGate
  <2>2. /\ Fresh \notin DOMAIN table
        /\ k \in DOMAIN occurrences
        /\ \A x \in DOMAIN table : table'[x] = table[x]
        /\ table'[Fresh] = Combine(phase, {table[k[1]], table[k[2]]})
        /\ \A g \in DOMAIN inputIndex : Inputs(g)' = Inputs(g)
        /\ DOMAIN occurrences' = DOMAIN occurrences
        /\ Current(k) \subseteq OfPhase
    BY <1>3, CreateEffect
  <2>3. k[1] \in DOMAIN table /\ k[2] \in DOMAIN table
    BY <2>2 DEF TypeOK
  <2>4. \A g \in Current(k) : HasPair(g, k)' /\ Fresh \notin Inputs(g)'
    <3> TAKE g \in Current(k)
    <3>1. g \in DOMAIN inputIndex /\ HasPair(g, k)
      BY <2>2 DEF Current, OfPhase
    <3>2. Inputs(g) \subseteq DOMAIN table
      BY <3>1 DEF TypeOK
    <3> QED
      BY <2>2, <3>1, <3>2 DEF HasPair, HasInput, Inputs
  <2>5. \A j \in DOMAIN occurrences : j[1] \in DOMAIN table /\ j[2] \in DOMAIN table
    BY DEF TypeOK
  <2>6. table'[Fresh] = Combine(phase, {table'[k[1]], table'[k[2]]})
    BY <2>2, <2>3
  <2>7. \A j \in DOMAIN occurrences' :
          newGate' \in {j[1], j[2]} <=> j \in newElements'
    BY <2>1, <2>2, <2>5
  <2>8. \A g \in pending' : HasPair(g, highest)' /\ newGate' \notin Inputs(g)'
    BY <2>1, <2>4 DEF HasPair, HasInput
  <2>9. table'[newGate'] =
          Combine(phase', {table'[highest'[1]], table'[highest'[2]]})
    BY <2>1, <2>6
  <2>10. highest' \notin ordered' \cup newElements'
    BY <2>1
  <2> QED
    BY <2>1, <2>7, <2>8, <2>9, <2>10 DEF Replacing, Combination
<1>4. ASSUME NEW g \in pending, ReplaceInputs(g) PROVE Replacing'
  <2> DEFINE keys == {<<x, newGate>> : x \in Inputs(g) \ {highest[1], highest[2]}}
  <2>1. /\ DOMAIN inputIndex' = DOMAIN inputIndex
        /\ \A h \in DOMAIN inputIndex : h # g => Inputs(h)' = Inputs(h)
        /\ DOMAIN occurrences' = DOMAIN occurrences \cup keys
        /\ newElements' = newElements \cup (DOMAIN occurrences' \ DOMAIN occurrences)
        /\ \A k \in DOMAIN occurrences' :
             occurrences'[k] =
               (IF k \in DOMAIN occurrences THEN occurrences[k] ELSE {}) \cup
               (IF k \in keys THEN {g} ELSE {})
    BY <1>4, ReplaceEffect
  <2>2. /\ pc = "replace" /\ phase' = phase /\ table' = table /\ ordered' = ordered
        /\ highest' = highest /\ newGate' = newGate /\ pending' = pending \ {g}
    BY <1>4 DEF ReplaceInputs
  <2>3. \A h \in pending' : HasPair(h, highest)' /\ newGate \notin Inputs(h)'
    <3> TAKE h \in pending'
    <3>1. h \in DOMAIN inputIndex /\ h # g /\ h \in pending
      BY <2>2 DEF TypeOK, OfPhase
    <3> QED
      BY <2>1, <2>2, <3>1 DEF Replacing, HasPair, HasInput, Inputs
  <2>4. \A k \in keys : newGate \in {k[1], k[2]} /\ k \in newElements'
    BY <2>1, <2>2 DEF Replacing
  <2>5. \A k \in DOMAIN occurrences' : newGate \in {k[1], k[2]} <=> k \in newElements'
    BY <2>1, <2>2, <2>4 DEF Replacing
  <2>6. \A k \in newElements' : k \notin ordered /\ occurrences'[k] \cap pending' = {}
    <3> TAKE k \in newElements'
    <3>1. CASE k \in DOMAIN occurrences
      BY <2>1, <2>2, <3>1 DEF Replacing, TypeOK
    <3>2. CASE k \notin DOMAIN occurrences
      BY <2>1, <2>2, <3>2 DEF Replacing, TypeOK
    <3> QED
      BY <3>1, <3>2
  <2>7. highest \notin ordered \cup newElements'
    BY <2>1, <2>2 DEF Replacing, TypeOK
  <2> QED
    BY <2>2, <2>3, <2>5, <2>6, <2>7 DEF Replacing, Combination
<1>5. CASE InsertNewElements \/ Drained
  BY <1>5 DEF InsertNewElements, Drained, Replacing
<1>6. CASE UNCHANGED vars
  BY <1>6 DEF vars, Replacing, Combination, HasPair, HasInput, Inputs
<1> QED
  BY <1>1, <1>2, <1>3, <1>4, <1>5, <1>6, StepCases

\* A list of multi-gates of length 0 is empty.
LEMMA EmptyList ==
  ASSUME TypeOK, NEW k \in DOMAIN occurrences
  PROVE  /\ IsFiniteSet(occurrences[k])
         /\ Size(k) \in Nat
         /\ Size(k) = 0 <=> occurrences[k] = {}
         /\ Cardinality(Current(k)) \in Nat
         /\ Cardinality(Current(k)) <= Size(k)
<1>1. occurrences[k] \subseteq Gate
  BY DEF TypeOK, OfPhase, MultiGate
<1>2. IsFiniteSet(occurrences[k]) /\ IsFiniteSet(Current(k))
  BY <1>1, NetworkAssumption, FS_Subset DEF Current
<1>3. Current(k) \subseteq occurrences[k]
  BY DEF Current
<1> QED
  BY <1>2, <1>3, FS_Subset, FS_EmptySet, FS_CardinalityType DEF Size

\* No step loses a pair: two inputs of a multi-gate wait on some list.
LEMMA RecordedStep ==
  ASSUME Inv, [Next]_vars
  PROVE  PairsRecorded'
<1> USE DEF Inv
<1>1. CASE Collect
  <2>1. /\ pc = "collect" /\ OfPhase' = OfPhase /\ \A g : Inputs(g)' = Inputs(g)
        /\ ordered' = UNION {ListPairs(g) : g \in OfPhase}
        /\ occurrences' = [k \in ordered' |-> {g \in OfPhase : k \in ListPairs(g)}]
    BY <1>1 DEF Collect, OfPhase, Inputs
  <2> SUFFICES ASSUME NEW g \in OfPhase, NEW x \in Inputs(g), NEW y \in Inputs(g), x # y
               PROVE  Waiting(g, <<x, y>>)' \/ Waiting(g, <<y, x>>)'
    BY <2>1 DEF PairsRecorded
  <2>2. g \in DOMAIN inputIndex
    BY DEF OfPhase
  <2>3. /\ inputIndex[g][x] \in Nat /\ inputIndex[g][y] \in Nat
        /\ inputIndex[g][x] # inputIndex[g][y]
    BY <2>1, <2>2 DEF ListsInjective, TypeOK
  <2>4. <<x, y>> \in ListPairs(g) \/ <<y, x>> \in ListPairs(g)
    BY <2>3 DEF ListPairs
  <2> QED
    BY <2>1, <2>4 DEF Waiting
<1>2. ASSUME NEW j \in ordered, Reinsert(j) PROVE PairsRecorded'
  <2>1. /\ pc' = pc /\ OfPhase' = OfPhase /\ \A g : Inputs(g)' = Inputs(g)
        /\ ordered' = ordered /\ newElements' = newElements
        /\ highest' = highest /\ pending' = pending
        /\ DOMAIN occurrences' = DOMAIN occurrences
        /\ j \in DOMAIN occurrences
    BY <1>2 DEF Reinsert, OfPhase, Inputs, TypeOK
  <2>2. \A k \in DOMAIN occurrences : Current(k) \subseteq occurrences'[k]
    BY <1>2 DEF Reinsert, Current
  <2> SUFFICES ASSUME pc \in {"pop", "replace"},
                      NEW g \in OfPhase, NEW x \in Inputs(g), NEW y \in Inputs(g), x # y
               PROVE  Waiting(g, <<x, y>>)' \/ Waiting(g, <<y, x>>)'
    BY <2>1 DEF PairsRecorded
  <2>3. PICK k \in {<<x, y>>, <<y, x>>} : Waiting(g, k)
    BY DEF PairsRecorded
  <2>4. g \in Current(k)
    BY <2>3 DEF Waiting, Current, HasPair, HasInput, Inputs
  <2> QED
    BY <2>1, <2>2, <2>3, <2>4 DEF Waiting
<1>3. ASSUME NEW j \in ordered, Exhausted(j) PROVE PairsRecorded'
  BY <1>3 DEF Exhausted, PairsRecorded
<1>4. ASSUME NEW j \in ordered, CreateGate(j) PROVE PairsRecorded'
  <2>1. /\ pc = "pop" /\ pending' = Current(j) /\ highest' = j
        /\ newElements' = {} /\ ordered' = ordered \ {j}
    BY <1>4 DEF CreateGate
  <2>2. /\ OfPhase' = OfPhase
        /\ \A g \in DOMAIN inputIndex : Inputs(g)' = Inputs(g)
        /\ DOMAIN occurrences' = DOMAIN occurrences
        /\ occurrences'[j] = Current(j)
        /\ \A k \in DOMAIN occurrences : k # j => occurrences'[k] = occurrences[k]
    BY <1>4, CreateEffect
  <2> SUFFICES ASSUME NEW g \in OfPhase, NEW x \in Inputs(g), NEW y \in Inputs(g), x # y
               PROVE  Waiting(g, <<x, y>>)' \/ Waiting(g, <<y, x>>)'
    BY <2>1, <2>2 DEF PairsRecorded, OfPhase
  <2>3. PICK k \in {<<x, y>>, <<y, x>>} : Waiting(g, k)
    BY <2>1 DEF PairsRecorded
  <2>4. g \in Current(k)
    BY <2>3 DEF Waiting, Current, HasPair, HasInput, Inputs
  <2>5. k \in DOMAIN occurrences /\ g \in occurrences[k] /\ k \in ordered
    BY <2>1, <2>3 DEF Waiting, BetweenReplacements
  <2>6. Waiting(g, k)'
    BY <2>1, <2>2, <2>4, <2>5 DEF Waiting
  <2> QED
    BY <2>3, <2>6
<1>5. ASSUME NEW g \in pending, ReplaceInputs(g) PROVE PairsRecorded'
  <2> DEFINE rest == Inputs(g) \ {highest[1], highest[2]}
  <2> DEFINE keys == {<<x, newGate>> : x \in rest}
  <2>1. /\ OfPhase' = OfPhase /\ g \in OfPhase
        /\ Inputs(g)' = rest \cup {newGate}
        /\ \A h \in DOMAIN inputIndex : h # g => Inputs(h)' = Inputs(h)
        /\ DOMAIN occurrences' = DOMAIN occurrences \cup keys
        /\ newElements' = newElements \cup (DOMAIN occurrences' \ DOMAIN occurrences)
        /\ \A k \in DOMAIN occurrences' :
             occurrences'[k] =
               (IF k \in DOMAIN occurrences THEN occurrences[k] ELSE {}) \cup
               (IF k \in keys THEN {g} ELSE {})
    BY <1>5, ReplaceEffect
  <2>2. /\ pc = "replace" /\ ordered' = ordered /\ highest' = highest
        /\ newGate' = newGate /\ pending' = pending \ {g}
    BY <1>5 DEF ReplaceInputs
  <2>3. \A h \in OfPhase : \A k :
          Waiting(h, k) /\ ~(h = g /\ k = highest) => Waiting(h, k)'
    <3> SUFFICES ASSUME NEW h \in OfPhase, NEW k, Waiting(h, k), ~(h = g /\ k = highest)
                 PROVE  Waiting(h, k)'
      OBVIOUS
    <3>1. k \in DOMAIN occurrences' /\ h \in occurrences'[k]
      BY <2>1 DEF Waiting
    <3>2. k \in ordered' \cup newElements' \/ (k = highest' /\ h \in pending')
      BY <2>1, <2>2 DEF Waiting
    <3> QED
      BY <3>1, <3>2 DEF Waiting
  <2>4. \A x \in rest : Waiting(g, <<x, newGate>>)'
    <3> TAKE x \in rest
    <3> DEFINE k == <<x, newGate>>
    <3>1. k \in keys /\ k \in DOMAIN occurrences' /\ g \in occurrences'[k]
      BY <2>1
    <3>2. k \in newElements'
      <4>1. CASE k \in DOMAIN occurrences
        <5>1. newGate \in {k[1], k[2]}
          OBVIOUS
        <5>2. \A j \in DOMAIN occurrences :
                newGate \in {j[1], j[2]} <=> j \in newElements
          BY <2>2 DEF Replacing
        <5>3. k \in newElements
          <6> HIDE DEF k
          <6> QED
            BY <4>1, <5>1, <5>2
        <5> QED
          BY <2>1, <5>3
      <4>2. CASE k \notin DOMAIN occurrences
        BY <2>1, <3>1, <4>2
      <4> QED
        BY <4>1, <4>2
    <3> QED
      BY <2>2, <3>1, <3>2 DEF Waiting
  <2> SUFFICES ASSUME NEW h \in OfPhase, NEW x \in Inputs(h)', NEW y \in Inputs(h)', x # y
               PROVE  Waiting(h, <<x, y>>)' \/ Waiting(h, <<y, x>>)'
    BY <2>1 DEF PairsRecorded
  <2>5. CASE h # g
    <3>1. x \in Inputs(h) /\ y \in Inputs(h)
      BY <2>1, <2>5 DEF OfPhase
    <3>2. Waiting(h, <<x, y>>) \/ Waiting(h, <<y, x>>)
      BY <2>2, <3>1 DEF PairsRecorded
    <3> QED
      BY <2>3, <2>5, <3>2
  <2>6. CASE h = g /\ x \in rest /\ y \in rest
    <3>1. Waiting(g, <<x, y>>) \/ Waiting(g, <<y, x>>)
      BY <2>1, <2>2, <2>6 DEF PairsRecorded
    <3>2. <<x, y>> # highest /\ <<y, x>> # highest
      BY <2>6
    <3> QED
      BY <2>1, <2>3, <2>6, <3>1, <3>2
  <2>7. CASE h = g /\ (x = newGate \/ y = newGate)
    BY <2>1, <2>2, <2>4, <2>7
  <2> QED
    BY <2>1, <2>5, <2>6, <2>7
<1>6. CASE InsertNewElements
  BY <1>6 DEF InsertNewElements, PairsRecorded, Waiting, OfPhase, Inputs
<1>7. CASE Drained
  BY <1>7 DEF Drained, PairsRecorded
<1>8. CASE UNCHANGED vars
  BY <1>8 DEF vars, PairsRecorded, Waiting, OfPhase, Inputs
<1> QED
  BY <1>1, <1>2, <1>3, <1>4, <1>5, <1>6, <1>7, <1>8, StepCases

\* No step leaves an extracted pair in a multi-gate on its list.
LEMMA GoneStep ==
  ASSUME Inv, [Next]_vars
  PROVE  ExtractedGone'
<1> USE DEF Inv
<1>1. CASE Collect
  BY <1>1 DEF Collect, ExtractedGone
<1>2. ASSUME NEW j \in ordered, Reinsert(j) PROVE ExtractedGone'
  <2>1. /\ pc' = pc /\ ordered' = ordered /\ newElements' = newElements
        /\ highest' = highest /\ pending' = pending
        /\ DOMAIN occurrences' = DOMAIN occurrences
        /\ \A k \in DOMAIN occurrences : k # j => occurrences'[k] = occurrences[k]
        /\ inputIndex' = inputIndex
    BY <1>2 DEF Reinsert
  <2>2. \A k \in DOMAIN occurrences : k # j => Current(k)' = Current(k)
    BY <2>1 DEF Current, HasPair, HasInput
  <2> QED
    BY <2>1, <2>2 DEF ExtractedGone
<1>3. ASSUME NEW j \in ordered, Exhausted(j) PROVE ExtractedGone'
  BY <1>3 DEF Exhausted, ExtractedGone
<1>4. ASSUME NEW j \in ordered, CreateGate(j) PROVE ExtractedGone'
  <2>1. /\ pc = "pop" /\ pending' = Current(j) /\ highest' = j
        /\ newElements' = {} /\ ordered' = ordered \ {j}
        /\ newElements = {} /\ pending = {} /\ inputIndex' = inputIndex
    BY <1>4 DEF CreateGate, BetweenReplacements
  <2>2. /\ DOMAIN occurrences' = DOMAIN occurrences
        /\ occurrences'[j] = Current(j)
        /\ \A k \in DOMAIN occurrences : k # j => occurrences'[k] = occurrences[k]
    BY <1>4, CreateEffect
  <2>3. Current(j)' \subseteq pending'
    BY <2>1, <2>2 DEF Current
  <2>4. \A k \in DOMAIN occurrences : k # j => Current(k)' = Current(k)
    BY <2>1, <2>2 DEF Current, HasPair, HasInput
  <2>5. \A k \in DOMAIN occurrences \ ordered : Current(k) = {}
    BY <2>1 DEF ExtractedGone
  <2> QED
    BY <2>1, <2>2, <2>3, <2>4, <2>5 DEF ExtractedGone
<1>5. ASSUME NEW g \in pending, ReplaceInputs(g) PROVE ExtractedGone'
  <2> DEFINE keys == {<<x, newGate>> : x \in Inputs(g) \ {highest[1], highest[2]}}
  <2>1. /\ g \in OfPhase
        /\ Inputs(g)' = (Inputs(g) \ {highest[1], highest[2]}) \cup {newGate}
        /\ \A h \in DOMAIN inputIndex : h # g => Inputs(h)' = Inputs(h)
        /\ newElements' = newElements \cup (DOMAIN occurrences' \ DOMAIN occurrences)
        /\ \A k \in DOMAIN occurrences' :
             occurrences'[k] =
               (IF k \in DOMAIN occurrences THEN occurrences[k] ELSE {}) \cup
               (IF k \in keys THEN {g} ELSE {})
    BY <1>5, ReplaceEffect
  <2>2. /\ pc = "replace" /\ pc' = pc /\ ordered' = ordered /\ highest' = highest
        /\ newGate' = newGate /\ pending' = pending \ {g}
    BY <1>5 DEF ReplaceInputs
  <2> SUFFICES ASSUME NEW k \in DOMAIN occurrences', k \notin ordered \cup newElements',
                      NEW h \in Current(k)'
               PROVE  k = highest /\ h \in pending'
    BY <2>2 DEF ExtractedGone
  <2>3. k \in DOMAIN occurrences /\ k \notin newElements
    BY <2>1
  <2>4. newGate # k[1] /\ newGate # k[2]
    BY <2>2, <2>3 DEF Replacing
  <2>5. k \notin keys
    BY <2>4
  <2>6. h \in occurrences'[k] /\ HasPair(h, k)'
    BY DEF Current
  <2>7. h \in occurrences[k] /\ h \in DOMAIN inputIndex
    BY <2>1, <2>3, <2>5, <2>6 DEF TypeOK, OfPhase
  <2>8. k[1] \in Inputs(h)' /\ k[2] \in Inputs(h)'
    BY <2>6 DEF HasPair, HasInput, Inputs
  <2>9. k[1] \in Inputs(h) /\ k[2] \in Inputs(h)
    BY <2>1, <2>4, <2>7, <2>8
  <2>10. k = highest /\ h \in pending
    BY <2>2, <2>3, <2>7, <2>9 DEF ExtractedGone, Current, HasPair, HasInput, Inputs
  <2>11. h # g
    BY <2>1, <2>2, <2>4, <2>8, <2>10
  <2> QED
    BY <2>2, <2>10, <2>11
<1>6. CASE InsertNewElements
  BY <1>6 DEF InsertNewElements, ExtractedGone, Current, HasPair, HasInput
<1>7. CASE Drained
  BY <1>7 DEF Drained, ExtractedGone
<1>8. CASE UNCHANGED vars
  BY <1>8 DEF vars, ExtractedGone, Current, HasPair, HasInput
<1> QED
  BY <1>1, <1>2, <1>3, <1>4, <1>5, <1>6, <1>7, <1>8, StepCases

\* When every waiting pair is gone from the multi-gates of its list, each
\* multi-gate has one input.
LEMMA OneInputWhenExhausted ==
  ASSUME Inv, pc = "pop", \A k \in ordered : Current(k) = {}
  PROVE  \A g \in OfPhase : \E x \in Operand : Inputs(g) = {x}
<1> SUFFICES ASSUME NEW g \in OfPhase PROVE \E x \in Operand : Inputs(g) = {x}
  OBVIOUS
<1>1. g \in DOMAIN inputIndex
  BY DEF OfPhase
<1>2. PICK x \in Inputs(g) : TRUE
  BY <1>1 DEF Inv, PairsProper
<1>3. x \in Operand
  BY <1>1 DEF Inv, TypeOK, Operand
<1>4. ASSUME NEW y \in Inputs(g), x # y PROVE FALSE
  <2>1. PICK k \in {<<x, y>>, <<y, x>>} : Waiting(g, k)
    BY <1>4 DEF Inv, PairsRecorded
  <2>2. k \in ordered /\ g \in occurrences[k]
    BY <2>1 DEF Inv, Waiting, BetweenReplacements
  <2>3. g \in Current(k)
    BY <1>4, <2>2 DEF Current, HasPair, HasInput, Inputs
  <2> QED
    BY <2>2, <2>3
<1> QED
  BY <1>2, <1>3, <1>4

\* The loop ends with one input in every multi-gate, by either of its exits.
LEMMA OneInputStep ==
  ASSUME Inv, [Next]_vars
  PROVE  OneInputLeft'
<1> USE DEF Inv
<1>1. CASE Collect
  BY <1>1 DEF Collect, OneInputLeft
<1>2. ASSUME NEW j \in ordered, Reinsert(j) \/ CreateGate(j) PROVE OneInputLeft'
  BY <1>2 DEF Reinsert, CreateGate, OneInputLeft
<1>3. ASSUME NEW j \in ordered, Exhausted(j) PROVE OneInputLeft'
  <2>1. /\ pc = "pop" /\ Current(j) = {}
        /\ \A k \in ordered \ {j} : Size(k) <= Cardinality(Current(j))
    BY <1>3 DEF Exhausted, StillHighest
  <2>2. Cardinality(Current(j)) = 0
    BY <2>1, FS_EmptySet
  <2>3. \A k \in ordered : Current(k) = {}
    <3> SUFFICES ASSUME NEW k \in ordered, k # j PROVE Current(k) = {}
      BY <2>1
    <3>1. k \in DOMAIN occurrences
      BY DEF TypeOK
    <3>2. Size(k) <= 0 /\ Size(k) \in Nat
      BY <2>1, <2>2, <3>1, EmptyList
    <3>3. occurrences[k] = {}
      BY <3>1, <3>2, EmptyList
    <3> QED
      BY <3>3 DEF Current
  <2>4. \A g \in OfPhase : \E x \in Operand : Inputs(g) = {x}
    BY <2>1, <2>3, OneInputWhenExhausted
  <2> QED
    BY <1>3, <2>4 DEF Exhausted, OneInputLeft, OfPhase, Inputs
<1>4. CASE \E g \in pending : ReplaceInputs(g)
  BY <1>4 DEF ReplaceInputs, OneInputLeft
<1>5. CASE InsertNewElements
  BY <1>5 DEF InsertNewElements, OneInputLeft
<1>6. CASE Drained
  <2>1. pc = "pop" /\ ordered = {}
    BY <1>6 DEF Drained
  <2>2. \A g \in OfPhase : \E x \in Operand : Inputs(g) = {x}
    BY <2>1, OneInputWhenExhausted
  <2> QED
    BY <1>6, <2>2 DEF Drained, OneInputLeft, OfPhase, Inputs
<1>7. CASE UNCHANGED vars
  BY <1>7 DEF vars, OneInputLeft, OfPhase, Inputs
<1> QED
  BY <1>1, <1>2, <1>3, <1>4, <1>5, <1>6, <1>7, StepCases

\* Putting the combination of two operands in their place makes no difference,
\* also when one of them remains: AND and OR are associative, commutative and
\* idempotent.
LEMMA CombinePair ==
  ASSUME NEW type, NEW old, NEW new, NEW t \in old, NEW u \in old, NEW v \in new,
         t \subseteq Assignment,
         IF type = "MULTI_AND" THEN v = t \cap u ELSE v = t \cup u,
         \A w \in old : w \in new \/ w = t \/ w = u,
         \A w \in new : w \in old \/ w = v
  PROVE  Combine(type, new) = Combine(type, old)
<1>1. CASE type = "MULTI_AND"
  <2>1. v = t \cap u
    BY <1>1
  <2>2. \A s \in Assignment : s \in v <=> s \in t /\ s \in u
    BY <2>1
  <2>3. ASSUME NEW s \in Assignment
        PROVE  (\A w \in new : s \in w) <=> (\A w \in old : s \in w)
    <3>1. ASSUME \A w \in new : s \in w, NEW w \in old PROVE s \in w
      BY <2>2, <3>1
    <3>2. ASSUME \A w \in old : s \in w, NEW w \in new PROVE s \in w
      BY <2>2, <3>2
    <3> QED
      BY <3>1, <3>2
  <2> QED
    BY <1>1, <2>3 DEF Combine
<1>2. CASE type # "MULTI_AND"
  <2>1. v = t \cup u
    BY <1>2
  <2>2. ASSUME NEW s
        PROVE  (\E w \in new : s \in w) <=> (\E w \in old : s \in w)
    BY <2>1
  <2>3. UNION new = UNION old
    BY <2>2
  <2> QED
    BY <1>2, <2>3 DEF Combine
<1> QED
  BY <1>1, <1>2

\* No step changes what a multi-gate computes.
LEMMA FunctionStep ==
  ASSUME Inv, [Next]_vars
  PROVE  SameFunction'
<1> USE DEF Inv
<1>1. CASE inputIndex' = inputIndex /\ table' = table
  BY <1>1 DEF SameFunction, Inputs
<1>2. ASSUME NEW j \in ordered, CreateGate(j) PROVE SameFunction'
  <2>1. /\ \A x \in DOMAIN table : table'[x] = table[x]
        /\ \A g \in DOMAIN inputIndex : Inputs(g)' = Inputs(g)
    BY <1>2, CreateEffect
  <2> SUFFICES ASSUME NEW g \in DOMAIN inputIndex
               PROVE  table'[g] = Combine(Kind[g], {table'[x] : x \in Inputs(g)})
    BY <1>2, <2>1 DEF SameFunction, CreateGate
  <2>2. g \in DOMAIN table /\ Inputs(g) \subseteq DOMAIN table
    BY DEF TypeOK, MultiGate
  <2>3. {table'[x] : x \in Inputs(g)} = {table[x] : x \in Inputs(g)}
    BY <2>1, <2>2
  <2> QED
    BY <2>1, <2>2, <2>3 DEF SameFunction
<1>3. ASSUME NEW g \in pending, ReplaceInputs(g) PROVE SameFunction'
  <2>1. /\ DOMAIN inputIndex' = DOMAIN inputIndex
        /\ g \in OfPhase
        /\ Inputs(g)' = (Inputs(g) \ {highest[1], highest[2]}) \cup {newGate}
        /\ \A h \in DOMAIN inputIndex : h # g => Inputs(h)' = Inputs(h)
    BY <1>3, ReplaceEffect
  <2>2. pc = "replace" /\ table' = table
    BY <1>3 DEF ReplaceInputs
  <2>3. /\ highest[1] \in Inputs(g) /\ highest[2] \in Inputs(g)
        /\ table[newGate] = Combine(phase, {table[highest[1]], table[highest[2]]})
    BY <2>2 DEF Replacing, Combination, HasPair, HasInput, Inputs
  <2>4. Kind[g] = phase /\ g \in DOMAIN inputIndex
    BY <2>1 DEF OfPhase
  <2> DEFINE old == {table[z] : z \in Inputs(g)}
             new == {table[z] : z \in Inputs(g)'}
  <2>5. \A z \in Inputs(g) : table[z] \subseteq Assignment
    BY <2>4 DEF TypeOK
  <2>6. Combine(phase, new) = Combine(phase, old)
    <3>1. /\ table[highest[1]] \in old /\ table[highest[2]] \in old
          /\ table[newGate] \in new
          /\ table[highest[1]] \subseteq Assignment
      BY <2>1, <2>3, <2>5
    <3>2. \A w \in old : \/ w \in new
                         \/ w = table[highest[1]]
                         \/ w = table[highest[2]]
      BY <2>1
    <3>3. \A w \in new : w \in old \/ w = table[newGate]
      BY <2>1
    <3>4. IF phase = "MULTI_AND"
            THEN table[newGate] = table[highest[1]] \cap table[highest[2]]
            ELSE table[newGate] = table[highest[1]] \cup table[highest[2]]
      BY <2>3, <3>1 DEF Combine
    <3> HIDE DEF old, new
    <3>5. ASSUME NEW t \in old, NEW u \in old, NEW v \in new,
                 t = table[highest[1]], u = table[highest[2]], v = table[newGate]
          PROVE  Combine(phase, new) = Combine(phase, old)
      <4>1. /\ t \subseteq Assignment
            /\ IF phase = "MULTI_AND" THEN v = t \cap u ELSE v = t \cup u
            /\ \A w \in old : w \in new \/ w = t \/ w = u
            /\ \A w \in new : w \in old \/ w = v
        BY <3>1, <3>2, <3>3, <3>4, <3>5
      <4> QED
        BY <4>1, CombinePair
    <3> QED
      BY <3>1, <3>5
  <2>7. \A h \in DOMAIN inputIndex :
          table[h] = Combine(Kind[h], {table[x] : x \in Inputs(h)'})
    <3> TAKE h \in DOMAIN inputIndex
    <3>1. table[h] = Combine(Kind[h], {table[x] : x \in Inputs(h)})
      BY DEF SameFunction
    <3>2. CASE h = g
      BY <2>4, <2>6, <3>1, <3>2, Zenon
    <3>3. CASE h # g
      <4>1. Inputs(h)' = Inputs(h)
        BY <2>1, <3>3
      <4> QED
        BY <3>1, <4>1, Zenon
    <3> QED
      BY <3>2, <3>3
  <2>8. \A h \in DOMAIN inputIndex' :
          table'[h] = Combine(Kind[h], {table'[x] : x \in Inputs(h)'})
    BY <2>1, <2>2, <2>7
  <2> QED
    BY <2>8 DEF SameFunction
<1>4. CASE Collect \/ InsertNewElements \/ Drained \/ UNCHANGED vars
  BY <1>1, <1>4 DEF Collect, InsertNewElements, Drained, vars
<1>5. ASSUME NEW j \in ordered, Reinsert(j) \/ Exhausted(j) PROVE SameFunction'
  BY <1>1, <1>5 DEF Reinsert, Exhausted
<1> QED
  BY <1>2, <1>3, <1>4, <1>5, StepCases

-----------------------------------------------------------------------------
\* Every step preserves the invariant.
LEMMA InvStep == Inv /\ [Next]_vars => Inv'
<1> SUFFICES ASSUME Inv, [Next]_vars PROVE Inv'
  OBVIOUS
<1>1. TypeOK'
  BY TypeStep DEF Inv
<1>2. ListsInjective' /\ BetweenReplacements'
  BY ListsStep
<1>3. PairsProper' /\ Replacing'
  BY ProperStep, ReplacingStep
<1>4. PairsRecorded' /\ ExtractedGone'
  BY RecordedStep, GoneStep
<1>5. OneInputLeft' /\ SameFunction'
  BY OneInputStep, FunctionStep
<1> QED
  BY <1>1, <1>2, <1>3, <1>4, <1>5 DEF Inv

\* The loop of convertToSingleOptimized keeps Inv, whatever network it starts
\* from and in whatever order the sets yield equal keys.
THEOREM Invariance == Spec => []Inv
<1>1. Init => Inv
  BY InitInv
<1>2. Inv /\ [Next]_vars => Inv'
  BY InvStep
<1> QED
  BY <1>1, <1>2, PTL DEF Spec

\* replaceInputs finds both gates of the pair in every multi-gate it is called
\* on, so its unchecked map lookups are safe.
THEOREM ReplaceSafety == Spec => []ReplaceSafe
<1>1. Inv => ReplaceSafe
  BY DEF Inv, TypeOK, Replacing, PairsProper, ReplaceSafe
<1> QED
  BY <1>1, Invariance, PTL

\* When the loop ends, every multi-gate of the type has exactly one input.
THEOREM OneInput == Spec => []OneInputLeft
<1>1. Inv => OneInputLeft
  BY DEF Inv
<1> QED
  BY <1>1, Invariance, PTL

\* At every point each multi-gate combines its current inputs to the function
\* it had in the beginning.
THEOREM FunctionPreserved == Spec => []SameFunction
<1>1. Inv => SameFunction
  BY DEF Inv
<1> QED
  BY <1>1, Invariance, PTL

-----------------------------------------------------------------------------
\* replaceInputs never appends a multi-gate to a list that has it already.
THEOREM NoDoubleEntry == Spec => ListedOnce
<1> DEFINE Once ==
      \A g \in pending \ pending' : \A k \in DOMAIN occurrences :
        g \in occurrences[k] => k \notin NewPairs(g)
<1>1. Inv /\ [Next]_vars => [Once]_vars
  <2> SUFFICES ASSUME Inv, [Next]_vars,
                      NEW g \in pending, g \notin pending',
                      NEW k \in DOMAIN occurrences, g \in occurrences[k],
                      NEW x, k = <<x, newGate>>
               PROVE  FALSE
    BY DEF NewPairs
  <2>1. CASE pc = "replace"
    <3>1. \A j \in DOMAIN occurrences :
            newGate \in {j[1], j[2]} <=> j \in newElements
      BY <2>1 DEF Inv, Replacing
    <3>2. newGate = k[2]
      OBVIOUS
    <3>3. k \in newElements
      BY <3>1, <3>2
    <3> QED
      BY <2>1, <3>3 DEF Inv, Replacing
  <2>2. CASE pc # "replace"
    BY <2>2 DEF Inv, BetweenReplacements
  <2> QED
    BY <2>1, <2>2
<1> QED
  BY <1>1, Invariance, PTL DEF Spec, ListedOnce

\* No list in the std::set changes its length while new pairs are recorded.
THEOREM KeysStable == Spec => SortKeysStable
<1> DEFINE Stable ==
      pc = "replace" => \A k \in ordered : occurrences'[k] = occurrences[k]
<1>1. Inv /\ [Next]_vars => [Stable]_vars
  <2> SUFFICES ASSUME Inv, [Next]_vars, pc = "replace", NEW k \in ordered
               PROVE  occurrences'[k] = occurrences[k]
    OBVIOUS
  <2>1. ASSUME NEW g \in pending, ReplaceInputs(g)
        PROVE  occurrences'[k] = occurrences[k]
    <3> DEFINE keys == {<<x, newGate>> : x \in Inputs(g) \ {highest[1], highest[2]}}
    <3>1. /\ DOMAIN occurrences' = DOMAIN occurrences \cup keys
          /\ \A j \in DOMAIN occurrences' :
               occurrences'[j] =
                 (IF j \in DOMAIN occurrences THEN occurrences[j] ELSE {}) \cup
                 (IF j \in keys THEN {g} ELSE {})
      BY <2>1, ReplaceEffect DEF Inv
    <3>2. k \in DOMAIN occurrences /\ k \notin newElements
      BY DEF Inv, TypeOK, Replacing
    <3>3. newGate # k[2]
      BY <3>2 DEF Inv, Replacing
    <3>4. k \notin keys
      BY <3>3
    <3> QED
      BY <3>1, <3>2, <3>4
  <2>2. CASE InsertNewElements \/ UNCHANGED vars
    BY <2>2 DEF InsertNewElements, vars
  <2> QED
    BY <2>1, <2>2, StepCases DEF Collect, Reinsert, Exhausted, CreateGate, Drained
<1> QED
  BY <1>1, Invariance, PTL DEF Spec, SortKeysStable

\* A list is at most as long as the front list, whatever its pair.
LEMMA CurrentBound ==
  ASSUME Inv, NEW j \in ordered, pc = "pop", StillHighest(j), NEW k \in DOMAIN occurrences
  PROVE  Cardinality(Current(k)) <= Cardinality(Current(j))
<1>1. j \in DOMAIN occurrences
  BY DEF Inv, TypeOK
<1>2. /\ Cardinality(Current(j)) \in Nat /\ Cardinality(Current(k)) \in Nat
      /\ Size(k) \in Nat /\ Cardinality(Current(k)) <= Size(k)
  BY <1>1, EmptyList DEF Inv
<1>3. CASE k \in ordered
  <2>1. k # j => Size(k) <= Cardinality(Current(j))
    BY <1>3 DEF StillHighest
  <2> QED
    BY <1>2, <2>1
<1>4. CASE k \notin ordered
  <2>1. Current(k) = {}
    BY <1>4 DEF Inv, ExtractedGone, BetweenReplacements
  <2>2. Cardinality(Current(k)) = 0
    BY <2>1, FS_EmptySet
  <2> QED
    BY <1>2, <2>2
<1> QED
  BY <1>3, <1>4

\* The pair that gets a gate is one that most multi-gates still have.
THEOREM GreedyChoice == Spec => MostFrequentFirst
<1> DEFINE Greedy ==
      made' # made =>
        \A k \in DOMAIN occurrences :
          Cardinality(Current(k)) <= Cardinality(pending')
<1>1. Inv /\ [Next]_vars => [Greedy]_vars
  <2> SUFFICES ASSUME Inv, [Next]_vars, made' # made, NEW k \in DOMAIN occurrences
               PROVE  Cardinality(Current(k)) <= Cardinality(pending')
    OBVIOUS
  <2>1. PICK j \in ordered : CreateGate(j)
    BY StepCases
       DEF Collect, Reinsert, Exhausted, ReplaceInputs, InsertNewElements, Drained, vars
  <2>2. pc = "pop" /\ pending' = Current(j) /\ StillHighest(j)
    BY <2>1 DEF CreateGate
  <2> QED
    BY <2>2, CurrentBound
<1> QED
  BY <1>1, Invariance, PTL DEF Spec, MostFrequentFirst

-----------------------------------------------------------------------------
(* What it implements.                                                     *)

\* The conversion starts in an abstract initial state.
LEMMA InitRefines == Init => Sharing!Init
<1> SUFFICES ASSUME Init PROVE Sharing!Init
  OBVIOUS
<1>1. PICK net \in Network : StartFrom(net)
  BY DEF Init
<1>2. WellFormed(net)
  BY NetworkAssumption
<1>3. /\ pending = {} /\ DOMAIN made = {}
      /\ inputIndex = net.inputIndex
  BY <1>1 DEF StartFrom
<1>4. OfPhase \subseteq DOMAIN inputIndex /\ OfPhase \subseteq Gate
  BY <1>2, <1>3 DEF WellFormed, OfPhase, MultiGate
<1>5. InputsAfterReplacement = [g \in OfPhase |-> Inputs(g)]
  BY <1>3 DEF InputsAfterReplacement
<1>6. \A g \in OfPhase : Inputs(g) \in (SUBSET Gate) \ {{}}
  BY <1>2, <1>3, <1>4 DEF WellFormed, OfPhase, Inputs
<1> QED
  BY <1>3, <1>4, <1>5, <1>6 DEF Sharing!Init

\* A gate that is rewritten was counted as rewritten before.
LEMMA ReplaceStutters ==
  ASSUME Inv, NEW g \in pending, ReplaceInputs(g)
  PROVE  UNCHANGED <<InputsAfterReplacement, DOMAIN made>>
<1>1. /\ OfPhase' = OfPhase /\ g \in OfPhase
      /\ Inputs(g)' = (Inputs(g) \ {highest[1], highest[2]}) \cup {newGate}
      /\ \A h \in DOMAIN inputIndex : h # g => Inputs(h)' = Inputs(h)
  BY ReplaceEffect DEF Inv
<1>2. /\ pending' = pending \ {g} /\ highest' = highest /\ newGate' = newGate
      /\ made' = made
  BY DEF ReplaceInputs
<1>3. \A h \in OfPhase :
        (IF h \in pending' THEN Rest(h)' \cup {newGate'} ELSE Inputs(h)') =
        (IF h \in pending THEN Rest(h) \cup {newGate} ELSE Inputs(h))
  <2> TAKE h \in OfPhase
  <2>1. CASE h = g
    BY <1>1, <1>2, <2>1 DEF Rest
  <2>2. CASE h # g
    <3>1. Inputs(h)' = Inputs(h)
      BY <1>1, <2>2 DEF OfPhase
    <3>2. Rest(h)' = Rest(h)
      BY <1>2, <3>1 DEF Rest
    <3> QED
      BY <1>2, <2>2, <3>1, <3>2
  <2> QED
    BY <2>1, <2>2
<1> QED
  BY <1>1, <1>2, <1>3 DEF InputsAfterReplacement

\* The multi-gates that have two given gates are on one of two lists, and
\* each list is at most as long as the front one.
LEMMA AtMostTwice ==
  ASSUME Inv, NEW j \in ordered, pc = "pop", StillHighest(j), NEW v, NEW w, v # w
  PROVE  Cardinality({g \in OfPhase : v \in Inputs(g) /\ w \in Inputs(g)})
           <= 2 * Cardinality(Current(j))
<1> DEFINE On(k) == IF k \in DOMAIN occurrences THEN Current(k) ELSE {}
           both == {g \in OfPhase : v \in Inputs(g) /\ w \in Inputs(g)}
<1>1. both \subseteq On(<<v, w>>) \cup On(<<w, v>>)
  <2> SUFFICES ASSUME NEW g \in both
               PROVE  g \in On(<<v, w>>) \cup On(<<w, v>>)
    OBVIOUS
  <2>1. PICK k \in {<<v, w>>, <<w, v>>} : Waiting(g, k)
    BY DEF Inv, PairsRecorded
  <2>2. k \in DOMAIN occurrences /\ g \in Current(k)
    BY <2>1 DEF Waiting, Current, HasPair, HasInput, Inputs
  <2> QED
    BY <2>1, <2>2
<1>2. \A k : IsFiniteSet(On(k)) /\ Cardinality(On(k)) \in Nat
             /\ Cardinality(On(k)) <= Cardinality(Current(j))
  <2> TAKE k
  <2>1. j \in DOMAIN occurrences
    BY DEF Inv, TypeOK
  <2>2. Cardinality(Current(j)) \in Nat
    BY <2>1, EmptyList DEF Inv
  <2>3. CASE k \in DOMAIN occurrences
    <3>1. IsFiniteSet(Current(k))
      BY <2>3, EmptyList, FS_Subset DEF Inv, Current
    <3> QED
      BY <2>3, <3>1, CurrentBound, EmptyList DEF Inv
  <2>4. CASE k \notin DOMAIN occurrences
    BY <2>2, <2>4, FS_EmptySet
  <2> QED
    BY <2>3, <2>4
<1> HIDE DEF On, both
<1> DEFINE S == On(<<v, w>>) T == On(<<w, v>>)
<1>3. /\ IsFiniteSet(S) /\ IsFiniteSet(T)
      /\ Cardinality(S) \in Nat /\ Cardinality(S) <= Cardinality(Current(j))
      /\ Cardinality(T) \in Nat /\ Cardinality(T) <= Cardinality(Current(j))
  BY <1>2
<1>4. Cardinality(Current(j)) \in Nat
  <2>1. j \in DOMAIN occurrences
    BY DEF Inv, TypeOK
  <2> QED
    BY <2>1, EmptyList DEF Inv
<1>5. both \subseteq S \cup T
  BY <1>1
<1> HIDE DEF S, T
<1>6. /\ IsFiniteSet(S \cup T)
      /\ Cardinality(S \cup T) = Cardinality(S) + Cardinality(T) - Cardinality(S \cap T)
  BY <1>3, FS_Union
<1>7. Cardinality(S \cap T) \in Nat
  BY <1>3, FS_Intersection, FS_CardinalityType
<1>8. Cardinality(both) <= Cardinality(S \cup T) /\ Cardinality(both) \in Nat
  BY <1>5, <1>6, FS_Subset, FS_CardinalityType
<1>9. Cardinality(both) <= 2 * Cardinality(Current(j))
  BY <1>3, <1>4, <1>6, <1>7, <1>8
<1> QED
  BY <1>9 DEF both

\* The instance's cardinality is cardinality.
LEMMA SameCardinality == \A S : Sharing!Cardinality(S) = Cardinality(S)
BY Zenon DEF Cardinality, Sharing!Cardinality

\* Making a gate for the front pair is a sharing step.
LEMMA CreateShares ==
  ASSUME Inv, NEW k \in ordered, CreateGate(k)
  PROVE  Sharing!Next
<1> DEFINE abs == InputsAfterReplacement
<1>1. /\ pc = "pop" /\ StillHighest(k) /\ Current(k) # {}
      /\ pending = {} /\ pending' = Current(k) /\ highest' = k /\ newGate' = Fresh
  BY DEF CreateGate, Inv, BetweenReplacements
<1>2. /\ Fresh \in NewGate /\ Fresh \notin DOMAIN made
      /\ DOMAIN made' = DOMAIN made \cup {Fresh}
      /\ OfPhase' = OfPhase
      /\ \A g \in DOMAIN inputIndex : Inputs(g)' = Inputs(g)
      /\ k \in DOMAIN occurrences
      /\ Current(k) \subseteq OfPhase
  BY CreateEffect DEF Inv
<1>3. k[1] # k[2]
  BY <1>2 DEF Inv, PairsProper
<1>4. abs = [g \in OfPhase |-> Inputs(g)]
  BY <1>1 DEF InputsAfterReplacement
<1>5. abs' = [g \in OfPhase |-> IF g \in Current(k)
                                 THEN (Inputs(g) \ {k[1], k[2]}) \cup {Fresh}
                                 ELSE Inputs(g)]
  <2>1. \A g \in OfPhase : /\ Inputs(g)' = Inputs(g)
                           /\ Rest(g)' = Inputs(g) \ {k[1], k[2]}
    BY <1>1, <1>2 DEF OfPhase, Rest
  <2> QED
    BY <1>1, <1>2, <2>1 DEF InputsAfterReplacement
<1>6. \A g \in Current(k) : g \in OfPhase /\ k[1] \in Inputs(g) /\ k[2] \in Inputs(g)
  BY <1>2 DEF Current, HasPair, HasInput, Inputs
<1>7. PICK g \in Current(k) : TRUE
  BY <1>1
<1>8. Current(k) \in SUBSET Sharing!Having(k[1], k[2])
  BY <1>4, <1>6 DEF Sharing!Having
<1>9. \A h \in DOMAIN abs : \A v, w \in abs[h] :
        v # w => Cardinality(Sharing!Having(v, w)) <= 2 * Cardinality(Current(k))
  <2> SUFFICES ASSUME NEW v, NEW w, v # w
               PROVE  Cardinality(Sharing!Having(v, w)) <= 2 * Cardinality(Current(k))
    OBVIOUS
  <2>1. Sharing!Having(v, w) = {g_1 \in OfPhase : v \in Inputs(g_1) /\ w \in Inputs(g_1)}
    BY <1>4 DEF Sharing!Having
  <2> QED
    BY <1>1, <2>1, AtMostTwice
<1>10. Sharing!Share(k[1], k[2], Current(k), Fresh)
  <2>1. InputsAfterReplacement' =
          [h \in DOMAIN InputsAfterReplacement |->
             IF h \in Current(k)
               THEN (InputsAfterReplacement[h] \ {k[1], k[2]}) \cup {Fresh}
               ELSE InputsAfterReplacement[h]]
    BY <1>4, <1>5
  <2>2. \A h \in DOMAIN InputsAfterReplacement :
          \A v, w \in InputsAfterReplacement[h] :
            v # w => Cardinality(Sharing!Having(v, w)) <= 2 * Cardinality(Current(k))
    BY <1>9
  <2>3. Current(k) # {}
    BY <1>1
  <2> QED
    BY ONLY <2>1, <2>2, <2>3, SameCardinality DEF Sharing!Share
<1>11. g \in DOMAIN abs /\ k[1] \in abs[g] /\ k[2] \in abs[g] \ {k[1]}
  BY <1>3, <1>4, <1>6, <1>7
<1> QED
  BY <1>2, <1>8, <1>10, <1>11 DEF Sharing!Next

\* Every step of the loop is a sharing step or leaves the abstract state alone.
LEMMA StepRefines ==
  ASSUME Inv, [Next]_vars
  PROVE  [Sharing!Next]_(Sharing!sharingVars)
<1>1. ASSUME NEW k \in ordered, CreateGate(k) PROVE Sharing!Next
  BY <1>1, CreateShares
<1>2. ASSUME NEW g \in pending, ReplaceInputs(g)
      PROVE  UNCHANGED <<InputsAfterReplacement, DOMAIN made>>
  BY <1>2, ReplaceStutters
<1>3. CASE UNCHANGED <<phase, inputIndex, highest, newGate, pending, made>>
  BY <1>3 DEF InputsAfterReplacement, OfPhase, Rest, Inputs, Sharing!sharingVars
<1>4. ASSUME NEW k \in ordered, Reinsert(k) \/ Exhausted(k)
      PROVE  UNCHANGED <<phase, inputIndex, highest, newGate, pending, made>>
  BY <1>4 DEF Reinsert, Exhausted
<1>5. CASE Collect \/ InsertNewElements \/ Drained \/ UNCHANGED vars
  BY <1>3, <1>5 DEF Collect, InsertNewElements, Drained, vars
<1> QED
  BY <1>1, <1>2, <1>3, <1>4, <1>5, StepCases DEF Sharing!sharingVars

\* The lazily repaired loop implements atomic, nearly greedy sharing of pairs.
THEOREM SafeRefinement == Spec => Sharing!SafeSpec
<1>1. Init => Sharing!Init
  BY InitRefines
<1>2. Inv /\ [Next]_vars => [Sharing!Next]_(Sharing!sharingVars)
  BY StepRefines
<1> QED
  BY <1>1, <1>2, Invariance, PTL DEF Spec, Sharing!SafeSpec

-----------------------------------------------------------------------------
\* The whole conversion: the network.

\* What a gate uses is a gate.
LEMMA OperandsAreGates ==
  ASSUME TypeOK
  PROVE  /\ \A x \in DOMAIN table : Operands(x) \subseteq DOMAIN table
         /\ Operator \subseteq DOMAIN table
         /\ DOMAIN inputIndex \cap DOMAIN made = {}
<1>1. \A x \in DOMAIN inputIndex : Inputs(x) \subseteq DOMAIN table
  BY DEF TypeOK
<1>2. \A x \in DOMAIN made : {made[x].pair[1], made[x].pair[2]} \subseteq DOMAIN table
  BY DEF TypeOK
<1>3. Operator \subseteq DOMAIN table /\ DOMAIN inputIndex \cap DOMAIN made = {}
  BY NetworkAssumption DEF TypeOK, Operator, MultiGate
<1> QED
  BY <1>1, <1>2, <1>3 DEF Operands

\* A set that has a gate as soon as it has what the gate uses has every gate.
LEMMA FromInputsUp ==
  ASSUME TypeOK, Grounded, NEW Good,
         \A x \in DOMAIN table : Operands(x) \subseteq Good => x \in Good
  PROVE  DOMAIN table \subseteq Good
<1> SUFFICES ASSUME DOMAIN table \ Good # {} PROVE FALSE
  OBVIOUS
<1>1. PICK x \in DOMAIN table \ Good : Operands(x) \cap (DOMAIN table \ Good) = {}
  BY DEF Grounded
<1> QED
  BY <1>1, OperandsAreGates

\* Reading a gate's function off the network gives the recorded one.
LEMMA ComputesTable ==
  ASSUME TypeOK, Grounded, MadeCompute, SameFunction
  PROVE  \A x \in DOMAIN table : computes[x] = table[x]
<1> DEFINE Body(f) ==
      [x \in DOMAIN table |->
         IF x \in Operator THEN Combine(TypeOf(x), {f[y] : y \in Operands(x)}) ELSE table[x]]
<1>1. ASSUME NEW x \in Operator
      PROVE  table[x] = Combine(TypeOf(x), {table[y] : y \in Operands(x)})
  <2>1. CASE x \in DOMAIN inputIndex
    <3>1. table[x] = Combine(Kind[x], {table[y] : y \in Inputs(x)})
      BY <2>1 DEF SameFunction
    <3>2. TypeOf(x) = Kind[x] /\ Operands(x) = Inputs(x)
      BY <2>1, OperandsAreGates DEF TypeOf, Operands
    <3> QED
      BY <3>1, <3>2
  <2>2. CASE x \in DOMAIN made
    <3>1. TypeOf(x) = made[x].type
      BY <2>2 DEF TypeOf
    <3> QED
      BY <2>2, <3>1 DEF MadeCompute
  <2> QED
    BY <2>1, <2>2 DEF Operator
<1>2. table = Body(table)
  <2>1. \A x \in DOMAIN table : table[x] = Body(table)[x]
    BY <1>1
  <2>2. table = [x \in DOMAIN table |-> table[x]]
    BY DEF TypeOK
  <2> QED
    BY <2>1, <2>2
<1>3. computes = Body(computes)
  BY <1>2 DEF computes
<1> DEFINE Good == {x \in DOMAIN table : computes[x] = table[x]}
<1>4. ASSUME NEW x \in DOMAIN table, Operands(x) \subseteq Good
      PROVE  x \in Good
  <2>1. {computes[y] : y \in Operands(x)} = {table[y] : y \in Operands(x)}
    BY <1>4
  <2>2. computes[x] = IF x \in Operator
                        THEN Combine(TypeOf(x), {computes[y] : y \in Operands(x)})
                        ELSE table[x]
    BY <1>3
  <2> QED
    BY <1>1, <2>1, <2>2
<1> HIDE DEF Good
<1>5. DOMAIN table \subseteq Good
  BY <1>4, FromInputsUp
<1> QED
  BY <1>5 DEF Good

-----------------------------------------------------------------------------
\* getSingleTwin.

\* There is one way to skip multi-gates from a gate on, so that the recursion
\* has a solution.
LEMMA TwinEquation ==
  ASSUME TypeOK, NEW x \in DOMAIN table
  PROVE  SingleTwin(x) = IF Skipped(x) THEN SingleTwin(TheInput(x)) ELSE x
<1> DEFINE Closed(S) == \A z \in S : Skipped(z) => TheInput(z) \in S
           Ends(z, y) == /\ y \in DOMAIN table /\ ~Skipped(y)
                         /\ \A S \in SUBSET DOMAIN table : z \in S /\ Closed(S) => y \in S
           End(z) == CHOOSE y : Ends(z, y)
           Body(f) == [z \in DOMAIN table |-> IF Skipped(z) THEN f[TheInput(z)] ELSE z]
           f == [z \in DOMAIN table |-> End(z)]
<1>1. \A z \in DOMAIN table : Skipped(z) => TheInput(z) \in DOMAIN table
  BY DEF TypeOK, Skipped, TheInput
<1>2. ASSUME NEW z \in DOMAIN table, ~Skipped(z)
      PROVE  End(z) = z
  <2>1. \A y : Ends(z, y) => y = z
    <3>1. {z} \in SUBSET DOMAIN table /\ z \in {z} /\ Closed({z})
      BY <1>2
    <3> QED
      BY <3>1
  <2>2. Ends(z, z)
    BY <1>2
  <2> QED
    BY <2>1, <2>2
<1>3. ASSUME NEW z \in DOMAIN table, Skipped(z)
      PROVE  End(z) = End(TheInput(z))
  <2>1. ASSUME NEW y, Ends(z, y)
        PROVE  Ends(TheInput(z), y)
    <3> SUFFICES ASSUME NEW S \in SUBSET DOMAIN table, TheInput(z) \in S, Closed(S)
                 PROVE  y \in S
      BY <2>1
    <3>1. S \cup {z} \in SUBSET DOMAIN table /\ z \in S \cup {z} /\ Closed(S \cup {z})
      OBVIOUS
    <3>2. y \in S \cup {z} /\ y # z
      BY <1>3, <2>1, <3>1
    <3> QED
      BY <3>2
  <2>2. ASSUME NEW y, Ends(TheInput(z), y)
        PROVE  Ends(z, y)
    <3> SUFFICES ASSUME NEW S \in SUBSET DOMAIN table, z \in S, Closed(S)
                 PROVE  y \in S
      BY <2>2
    <3> QED
      BY <1>3, <2>2
  <2>3. \A y : Ends(z, y) <=> Ends(TheInput(z), y)
    BY <2>1, <2>2
  <2> HIDE DEF Ends
  <2> QED
    BY <2>3
<1> HIDE DEF End
<1>4. f = Body(f)
  <2>1. \A z \in DOMAIN table : f[z] = IF Skipped(z) THEN f[TheInput(z)] ELSE z
    BY <1>1, <1>2, <1>3
  <2> QED
    BY <2>1
<1> HIDE DEF f
<1>5. singleTwin = Body(singleTwin)
  BY <1>4 DEF singleTwin
<1> QED
  BY <1>5 DEF SingleTwin

\* Whatever is skipped, the twin is a gate that stays and computes the same.
LEMMA TwinFacts ==
  ASSUME TypeOK, Grounded, SameFunction
  PROVE  \A x \in DOMAIN table : /\ SingleTwin(x) \in DOMAIN table
                                 /\ ~Skipped(SingleTwin(x))
                                 /\ table[SingleTwin(x)] = table[x]
<1> DEFINE Good == {x \in DOMAIN table : /\ SingleTwin(x) \in DOMAIN table
                                         /\ ~Skipped(SingleTwin(x))
                                         /\ table[SingleTwin(x)] = table[x]}
<1>1. ASSUME NEW x \in DOMAIN table, Operands(x) \subseteq Good
      PROVE  x \in Good
  <2>1. CASE ~Skipped(x)
    BY <2>1, TwinEquation
  <2>2. CASE Skipped(x)
    <3>1. /\ x \in DOMAIN inputIndex /\ Inputs(x) = {TheInput(x)}
          /\ SingleTwin(x) = SingleTwin(TheInput(x))
      BY <2>2, TwinEquation DEF Skipped, TheInput
    <3>2. TheInput(x) \in Good
      BY <1>1, <3>1 DEF Operands
    <3>3. table[TheInput(x)] \subseteq Assignment
      BY <3>2 DEF TypeOK
    <3>4. table[x] = Combine(Kind[x], {table[TheInput(x)]})
      <4>1. {table[y] : y \in Inputs(x)} = {table[TheInput(x)]}
        BY <3>1
      <4> QED
        BY <3>1, <4>1 DEF SameFunction
    <3>5. table[x] = table[TheInput(x)]
      BY <3>3, <3>4 DEF Combine
    <3> QED
      BY <3>1, <3>2, <3>5
  <2> QED
    BY <2>1, <2>2
<1> HIDE DEF Good
<1>2. DOMAIN table \subseteq Good
  BY <1>1, FromInputsUp
<1> QED
  BY <1>2 DEF Good

-----------------------------------------------------------------------------
\* A conversion starts with a circuit.
LEMMA ConvertInitInv == ConvertInit => ConvertInv
<1> SUFFICES ASSUME ConvertInit PROVE ConvertInv
  OBVIOUS
<1>1. PICK net \in Network : StartFrom(net) /\ output = net.output /\ goal = net.table[net.output]
  BY DEF ConvertInit
<1>2. phase = "MULTI_AND" /\ pc = "collect" /\ DOMAIN made = {}
      /\ table = net.table /\ inputIndex = net.inputIndex
  BY <1>1 DEF ConvertInit, StartFrom
<1>3. Inv
  BY <1>1, <1>2, InitInv DEF Init, MultiType
<1>4. Grounded
  <2> SUFFICES ASSUME NEW S \in (SUBSET DOMAIN table) \ {{}}
               PROVE  \E x \in S : Operands(x) \cap S = {}
    BY DEF Grounded
  <2>1. PICK x \in S : x \in MultiGate => DOMAIN inputIndex[x] \cap S = {}
    BY <1>2, CircuitAssumption DEF IsCircuit
  <2>2. x \in DOMAIN inputIndex => x \in MultiGate
    BY <1>3 DEF Inv, TypeOK
  <2>3. Operands(x) \cap S = {}
    BY <1>2, <2>1, <2>2 DEF Operands, Inputs
  <2> QED
    BY <2>3
<1>5. MadeCompute /\ PhasesOver
  BY <1>2 DEF MadeCompute, PhasesOver
<1>6. OutputKept
  BY <1>1, <1>2, CircuitAssumption DEF OutputKept, IsCircuit
<1> QED
  BY <1>3, <1>4, <1>5, <1>6 DEF ConvertInv

\* A new gate uses gates there were, and nothing uses it yet.
LEMMA CreateKeeps ==
  ASSUME ConvertInv, NEW k \in ordered, CreateGate(k)
  PROVE  Grounded' /\ MadeCompute'
<1>0. PICK new : new = Fresh
  OBVIOUS
<1>1. TypeOK
  BY DEF ConvertInv, Inv
<1>2. /\ new \in NewGate /\ new \notin DOMAIN made /\ new \notin DOMAIN table
      /\ DOMAIN made' = DOMAIN made \cup {new}
      /\ DOMAIN table' = DOMAIN table \cup {new}
      /\ \A x \in DOMAIN table : table'[x] = table[x]
      /\ table'[new] = Combine(phase, {table[k[1]], table[k[2]]})
  BY <1>0, <1>1, CreateEffect
<1>3. /\ inputIndex' = inputIndex
      /\ \A x \in DOMAIN made : made'[x] = made[x]
      /\ made'[new] = [type |-> phase, pair |-> k]
  BY <1>0, <1>2 DEF CreateGate
<1>4. /\ k[1] \in DOMAIN table /\ k[2] \in DOMAIN table
      /\ new \notin DOMAIN inputIndex
  BY <1>1, <1>2 DEF TypeOK
<1>5. /\ \A x \in DOMAIN table : Operands(x)' = Operands(x)
      /\ Operands(new)' = {k[1], k[2]}
  <2>1. \A x \in DOMAIN table : Operands(x)' = Operands(x)
    BY <1>2, <1>3 DEF Operands, Inputs
  <2>2. Operands(new)' = {made'[new].pair[1], made'[new].pair[2]}
    BY <1>2, <1>3, <1>4 DEF Operands
  <2> QED
    BY <1>3, <2>1, <2>2
<1>6. \A x \in DOMAIN table : Operands(x) \subseteq DOMAIN table
  BY <1>1, OperandsAreGates
<1>7. Grounded'
  <2> SUFFICES ASSUME NEW S \in SUBSET DOMAIN table', S # {}
               PROVE  \E x \in S : Operands(x)' \cap S = {}
    BY DEF Grounded
  <2>1. CASE S = {new}
    BY <1>2, <1>4, <1>5, <2>1
  <2>2. CASE S # {new}
    <3>1. S \ {new} \in SUBSET DOMAIN table /\ S \ {new} # {}
      BY <1>2, <2>2
    <3>2. PICK x \in S \ {new} : Operands(x) \cap (S \ {new}) = {}
      BY <3>1 DEF ConvertInv, Grounded
    <3>3. Operands(x)' = Operands(x) /\ new \notin Operands(x)
      BY <1>2, <1>5, <1>6, <3>1
    <3> QED
      BY <3>2, <3>3
  <2> QED
    BY <2>1, <2>2
<1>8. MadeCompute'
  <2>0. newGate' = new /\ highest' = k
    BY <1>0 DEF CreateGate
  <2> SUFFICES ASSUME NEW n \in DOMAIN made'
               PROVE  table'[n] = Combine(made'[n].type, {table'[y] : y \in Operands(n)'})
    BY <1>3, <2>0 DEF MadeCompute
  <2>1. CASE n = new
    <3>1. {table'[y] : y \in Operands(n)'} = {table[k[1]], table[k[2]]}
      BY <1>2, <1>4, <1>5, <2>1
    <3> QED
      BY <1>2, <1>3, <2>1, <3>1
  <2>2. CASE n \in DOMAIN made
    <3>1. n \in DOMAIN table /\ Operands(n) \subseteq DOMAIN table /\ Operands(n)' = Operands(n)
      BY <1>1, <1>5, <1>6, <2>2 DEF TypeOK
    <3>2. {table'[y] : y \in Operands(n)'} = {table[y] : y \in Operands(n)}
      BY <1>2, <3>1
    <3>3. table[n] = Combine(made[n].type, {table[y] : y \in Operands(n)})
      BY <2>2 DEF ConvertInv, MadeCompute
    <3> QED
      BY <1>2, <1>3, <2>2, <3>1, <3>2, <3>3
  <2> QED
    BY <1>2, <2>1, <2>2
<1> QED
  BY <1>7, <1>8

\* A multi-gate that is rewritten uses the new gate, which uses what it used.
LEMMA ReplaceKeeps ==
  ASSUME ConvertInv, NEW g \in pending, ReplaceInputs(g)
  PROVE  Grounded' /\ MadeCompute'
<1>1. TypeOK /\ Replacing /\ SameFunction
  BY DEF ConvertInv, Inv
<1>2. /\ DOMAIN inputIndex' = DOMAIN inputIndex
      /\ g \in DOMAIN inputIndex
      /\ Inputs(g)' = (Inputs(g) \ {highest[1], highest[2]}) \cup {newGate}
      /\ \A h \in DOMAIN inputIndex : h # g => Inputs(h)' = Inputs(h)
  BY <1>1, ReplaceEffect DEF OfPhase
<1>3. /\ made' = made /\ table' = table /\ pc = "replace" /\ highest' = highest
      /\ newGate' = newGate /\ newGate \in DOMAIN made
  BY <1>1 DEF ReplaceInputs, TypeOK
<1>4. g \notin DOMAIN made /\ newGate \notin DOMAIN inputIndex
  BY <1>1, <1>2, <1>3, OperandsAreGates
<1>5. /\ \A x \in DOMAIN table : x # g => Operands(x)' = Operands(x)
      /\ Operands(g)' \subseteq Operands(g) \cup {newGate}
  BY <1>2, <1>3 DEF Operands
<1>6. Operands(newGate) \subseteq Operands(g)
  <2>1. Operands(newGate) = {highest[1], highest[2]}
    BY <1>3, <1>4 DEF ConvertInv, MadeCompute, Operands
  <2>2. HasPair(g, highest)
    BY <1>1, <1>3 DEF Replacing
  <2> QED
    BY <1>2, <2>1, <2>2 DEF HasPair, HasInput, Operands, Inputs
<1>7. newGate \in DOMAIN table /\ g \in DOMAIN table /\ newGate # g
  BY <1>1, <1>2, <1>3, <1>4 DEF TypeOK
<1>8. Grounded'
  <2> SUFFICES ASSUME NEW S \in SUBSET DOMAIN table, S # {}
               PROVE  \E x \in S : Operands(x)' \cap S = {}
    BY <1>3 DEF Grounded
  <2>1. PICK x \in S : Operands(x) \cap S = {}
    BY DEF ConvertInv, Grounded
  <2>2. CASE x # g
    BY <1>5, <2>1, <2>2
  <2>3. CASE x = g /\ newGate \notin S
    BY <1>5, <2>1, <2>3
  <2>4. CASE x = g /\ newGate \in S
    BY <1>5, <1>6, <1>7, <2>1, <2>4
  <2> QED
    BY <2>2, <2>3, <2>4
<1>9. MadeCompute'
  <2> SUFFICES ASSUME NEW n \in DOMAIN made
               PROVE  table[n] = Combine(made[n].type, {table[y] : y \in Operands(n)'})
    BY <1>3 DEF MadeCompute, ConvertInv
  <2>1. Operands(n)' = Operands(n)
    BY <1>1, <1>4, <1>5 DEF TypeOK
  <2> QED
    BY <2>1 DEF ConvertInv, MadeCompute
<1> QED
  BY <1>8, <1>9

\* A phase leaves the circuit as it should be.
LEMMA PhaseKeeps ==
  ASSUME ConvertInv, PhaseStep, UNCHANGED <<output, goal>>
  PROVE  ConvertInv'
<1>1. Inv'
  BY InvStep DEF ConvertInv, Next
<1>2. TypeOK
  BY DEF ConvertInv, Inv
<1>3. CASE inputIndex' = inputIndex /\ made' = made /\ table' = table /\ phase' = phase
           /\ pc' \notin {"replace", "returned"}
  <2>1. \A x : Operands(x)' = Operands(x)
    BY <1>3 DEF Operands, Inputs
  <2>2. Grounded'
    BY <1>3, <2>1 DEF ConvertInv, Grounded
  <2>3. MadeCompute'
    BY <1>3, <2>1 DEF ConvertInv, MadeCompute
  <2>4. OutputKept' /\ PhasesOver'
    BY <1>3 DEF ConvertInv, OutputKept, PhasesOver, OfPhase
  <2> QED
    BY <1>1, <2>2, <2>3, <2>4 DEF ConvertInv
<1>4. ASSUME NEW k \in ordered, CreateGate(k)
      PROVE  ConvertInv'
  <2>1. Grounded' /\ MadeCompute'
    BY <1>4, CreateKeeps
  <2>2. /\ output \in DOMAIN table' /\ table'[output] = table[output]
        /\ phase' = phase /\ inputIndex' = inputIndex /\ pc' = "replace"
    BY <1>2, <1>4, CreateEffect DEF CreateGate, ConvertInv, OutputKept
  <2> QED
    BY <1>1, <2>1, <2>2 DEF ConvertInv, OutputKept, PhasesOver, OfPhase
<1>5. ASSUME NEW g \in pending, ReplaceInputs(g)
      PROVE  ConvertInv'
  <2>1. Grounded' /\ MadeCompute'
    BY <1>5, ReplaceKeeps
  <2>2. /\ DOMAIN inputIndex' = DOMAIN inputIndex /\ table' = table
        /\ phase' = phase /\ pc' = "replace" /\ OfPhase' = OfPhase
    BY <1>2, <1>5, ReplaceEffect DEF ReplaceInputs
  <2> QED
    BY <1>1, <2>1, <2>2 DEF ConvertInv, OutputKept, PhasesOver
<1>6. CASE Collect \/ InsertNewElements \/ Drained
  BY <1>3, <1>6 DEF Collect, InsertNewElements, Drained
<1>7. ASSUME NEW k \in ordered, Reinsert(k) \/ Exhausted(k)
      PROVE  ConvertInv'
  BY <1>3, <1>7 DEF Reinsert, Exhausted
<1> QED
  BY <1>4, <1>5, <1>6, <1>7 DEF PhaseStep

-----------------------------------------------------------------------------
\* The copy that getSingleTwin makes of the network.

\* The least place of a nonempty set of inputs is the place of one of them.
LEMMA LeastPlace ==
  ASSUME NEW S \in SUBSET Nat, S # {}
  PROVE  Min(S) \in S
<1>1. \E m \in S : \A n \in S : m <= n
  <2>1. PICK m \in S : \A n \in S : <<n, m>> \notin OpToRel(<, Nat)
    BY NatLessThanWellFounded, WFMin
  <2>2. \A n \in S : ~(n < m)
    BY <2>1, Zenon DEF OpToRel
  <2> QED
    BY <2>2
<1> QED
  BY <1>1 DEF Min

\* Different twins take their places from different inputs.
LEMMA TwinInputsProper ==
  ASSUME TypeOK, Grounded, SameFunction, ListsInjective, PairsProper,
         NEW g \in DOMAIN inputIndex
  PROVE  /\ DOMAIN TwinInputs(g) = {SingleTwin(x) : x \in Inputs(g)}
         /\ DOMAIN TwinInputs(g) # {}
         /\ DOMAIN TwinInputs(g) \subseteq {x \in DOMAIN table : ~Skipped(x)}
         /\ TwinInputs(g) \in [DOMAIN TwinInputs(g) -> 1 .. place]
         /\ \A t, u \in DOMAIN TwinInputs(g) :
              TwinInputs(g)[t] = TwinInputs(g)[u] => t = u
<1>1. /\ Inputs(g) \subseteq DOMAIN table /\ Inputs(g) # {}
      /\ inputIndex[g] \in [Inputs(g) -> 1 .. place]
      /\ \A x, y \in Inputs(g) : inputIndex[g][x] = inputIndex[g][y] => x = y
  BY DEF TypeOK, ListsInjective, PairsProper
<1>2. \A x \in Inputs(g) : SingleTwin(x) \in DOMAIN table /\ ~Skipped(SingleTwin(x))
  BY <1>1, TwinFacts
<1>3. /\ DOMAIN TwinInputs(g) = {SingleTwin(x) : x \in Inputs(g)}
      /\ \A t \in DOMAIN TwinInputs(g) :
           TwinInputs(g)[t] = Min({inputIndex[g][x] : x \in {y \in Inputs(g) : SingleTwin(y) = t}})
      /\ TwinInputs(g) = [t \in DOMAIN TwinInputs(g) |-> TwinInputs(g)[t]]
  BY DEF TwinInputs
<1>4. ASSUME NEW t \in DOMAIN TwinInputs(g)
      PROVE  \E x \in Inputs(g) : SingleTwin(x) = t /\ TwinInputs(g)[t] = inputIndex[g][x]
  <2> DEFINE places == {inputIndex[g][x] : x \in {y \in Inputs(g) : SingleTwin(y) = t}}
  <2>1. places \in SUBSET Nat /\ places # {}
    BY <1>1, <1>3
  <2>2. Min(places) \in places
    BY <2>1, LeastPlace
  <2> QED
    BY <1>3, <2>2
<1>5. \A t \in DOMAIN TwinInputs(g) : TwinInputs(g)[t] \in 1 .. place
  BY <1>1, <1>4
<1>6. \A t, u \in DOMAIN TwinInputs(g) : TwinInputs(g)[t] = TwinInputs(g)[u] => t = u
  BY <1>1, <1>4
<1> QED
  BY <1>1, <1>2, <1>3, <1>5, <1>6

\* The copy keeps the invariant: one-input multi-gates are gone, with every
\* use of them.
LEMMA CopyKeeps ==
  ASSUME ConvertInv, TakeSingleTwin
  PROVE  ConvertInv'
<1>1. /\ Inv /\ TypeOK /\ Grounded /\ SameFunction /\ ListsInjective /\ PairsProper
      /\ BetweenReplacements /\ OneInputLeft /\ MadeCompute /\ OutputKept /\ PhasesOver
  BY DEF ConvertInv, Inv
<1> DEFINE Stays == {x \in DOMAIN table : ~Skipped(x)}
<1>2. /\ pc = "done"
      /\ inputIndex' = [g \in {h \in DOMAIN inputIndex : ~Skipped(h)} |-> TwinInputs(g)]
      /\ table' = [x \in Stays |-> table[x]]
      /\ made' = [n \in DOMAIN made |->
                    [made[n] EXCEPT !.pair = <<SingleTwin(@[1]), SingleTwin(@[2])>>]]
      /\ output' = SingleTwin(output)
      /\ occurrences' = << >>
      /\ UNCHANGED <<place, ordered, highest, newGate, pending, newElements, goal>>
  BY DEF TakeSingleTwin
<1>3. \/ phase = "MULTI_AND" /\ phase' = "MULTI_OR" /\ pc' = "collect"
      \/ phase = "MULTI_OR" /\ phase' = "MULTI_OR" /\ pc' = "returned"
  BY <1>1 DEF TakeSingleTwin, TypeOK, MultiType
<1>4. \A x \in DOMAIN table : /\ SingleTwin(x) \in Stays
                              /\ table[SingleTwin(x)] = table[x]
  BY <1>1, TwinFacts
<1>5. /\ DOMAIN inputIndex' = DOMAIN inputIndex \cap Stays
      /\ DOMAIN table' = Stays
      /\ \A x \in Stays : table'[x] = table[x]
      /\ \A g \in DOMAIN inputIndex' : inputIndex'[g] = TwinInputs(g)
  BY <1>1, <1>2 DEF TypeOK
<1>6. ASSUME NEW g \in DOMAIN inputIndex'
      PROVE  /\ g \in DOMAIN inputIndex
             /\ Inputs(g)' = {SingleTwin(x) : x \in Inputs(g)}
             /\ Inputs(g)' # {} /\ Inputs(g)' \subseteq Stays
             /\ inputIndex'[g] \in [Inputs(g)' -> 1 .. place]
             /\ \A x, y \in Inputs(g)' : inputIndex'[g][x] = inputIndex'[g][y] => x = y
  BY <1>1, <1>5, TwinInputsProper DEF Inputs
<1>7. ASSUME NEW n \in DOMAIN made
      PROVE  /\ n \in Stays /\ n \notin DOMAIN inputIndex
             /\ made[n].pair[1] \in DOMAIN table /\ made[n].pair[2] \in DOMAIN table
             /\ made'[n].type = made[n].type /\ made[n].type \in MultiType
             /\ made'[n].pair[1] = SingleTwin(made[n].pair[1])
             /\ made'[n].pair[2] = SingleTwin(made[n].pair[2])
             /\ made'[n] \in [type : MultiType, pair : Stays \X Stays]
  <2>1. made[n] \in [type : MultiType, pair : (DOMAIN table) \X (DOMAIN table)]
    BY <1>1 DEF TypeOK
  <2>2. n \in DOMAIN table /\ n \notin DOMAIN inputIndex
    BY <1>1, OperandsAreGates DEF TypeOK
  <2> DEFINE twins == <<SingleTwin(made[n].pair[1]), SingleTwin(made[n].pair[2])>>
  <2>3. made'[n] = [made[n] EXCEPT !.pair = twins]
    BY <1>2
  <2>4. twins \in Stays \X Stays
    BY <1>4, <2>1
  <2>5. twins[1] = SingleTwin(made[n].pair[1]) /\ twins[2] = SingleTwin(made[n].pair[2])
    OBVIOUS
  <2> HIDE DEF twins, Stays
  <2>6. /\ made'[n].type = made[n].type /\ made'[n].pair = twins
        /\ made'[n] \in [type : MultiType, pair : Stays \X Stays]
    BY <2>1, <2>3, <2>4
  <2>7. n \in Stays
    BY <2>2 DEF Skipped, Stays
  <2> QED
    BY <2>1, <2>2, <2>5, <2>6, <2>7
<1> HIDE DEF Stays
<1>8. TypeOK'
  <2>1. DOMAIN made' = DOMAIN made /\ DOMAIN made \subseteq Stays
    BY <1>2, <1>7
  <2>2. DOMAIN made' = NewGate \cap Stays /\ Stays \subseteq DOMAIN table
    BY <1>1, <2>1 DEF TypeOK, Stays
  <2>3. made' \in [DOMAIN made' -> [type : MultiType, pair : Stays \X Stays]]
    <3>1. \A n \in DOMAIN made' : made'[n] \in [type : MultiType, pair : Stays \X Stays]
      BY <1>7, <2>1
    <3>2. made' = [n \in DOMAIN made' |-> made'[n]]
      BY <1>2
    <3> QED
      BY <3>1, <3>2
  <2>4. table' \in [Stays -> SUBSET Assignment]
    BY <1>1, <1>2, <2>2 DEF TypeOK
  <2>5. DOMAIN inputIndex' = MultiGate \cap Stays /\ Stays \subseteq Operand
    BY <1>1, <1>5, <2>2 DEF TypeOK
  <2>6. /\ pending' = {} /\ newElements' = {} /\ ordered' = {} /\ occurrences' = << >>
        /\ place' = place /\ place \in Nat \ {0}
        /\ phase' \in MultiType /\ pc' \in {"collect", "returned"}
    BY <1>1, <1>2, <1>3 DEF BetweenReplacements, TypeOK, MultiType
  <2>7. \A g \in DOMAIN inputIndex' : /\ Inputs(g)' \subseteq Stays
                                      /\ inputIndex'[g] \in [Inputs(g)' -> 1 .. place]
    BY <1>6
  <2>8. /\ occurrences' \in [DOMAIN occurrences' -> SUBSET OfPhase']
        /\ DOMAIN occurrences' \subseteq Stays \X Stays
        /\ ordered' \subseteq DOMAIN occurrences' /\ newElements' \subseteq DOMAIN occurrences'
        /\ pending' \subseteq OfPhase'
    BY <2>6
  <2> QED
    BY <1>5, <2>2, <2>3, <2>4, <2>5, <2>6, <2>7, <2>8 DEF TypeOK
<1>9. ListsInjective' /\ PairsProper'
  BY <1>2, <1>3, <1>6 DEF ListsInjective, PairsProper
<1>10. /\ Replacing' /\ BetweenReplacements' /\ PairsRecorded'
       /\ ExtractedGone' /\ OneInputLeft'
  BY <1>1, <1>2, <1>3
     DEF Replacing, BetweenReplacements, PairsRecorded, ExtractedGone, OneInputLeft
<1>11. SameFunction'
  <2> SUFFICES ASSUME NEW g \in DOMAIN inputIndex'
               PROVE  table'[g] = Combine(Kind[g], {table'[x] : x \in Inputs(g)'})
    BY DEF SameFunction
  <2>1. g \in DOMAIN inputIndex /\ g \in Stays /\ Inputs(g) \subseteq DOMAIN table
    BY <1>1, <1>5, <1>6 DEF TypeOK
  <2>2. {table'[x] : x \in Inputs(g)'} = {table[x] : x \in Inputs(g)}
    BY <1>4, <1>5, <1>6, <2>1
  <2>3. table[g] = Combine(Kind[g], {table[x] : x \in Inputs(g)})
    BY <1>1, <2>1 DEF SameFunction
  <2> QED
    BY <1>5, <2>1, <2>2, <2>3
<1>12. \A n \in DOMAIN made :
         /\ Operands(n) = {made[n].pair[1], made[n].pair[2]}
         /\ Operands(n)' = {SingleTwin(made[n].pair[1]), SingleTwin(made[n].pair[2])}
  <2> TAKE n \in DOMAIN made
  <2>1. DOMAIN made' = DOMAIN made /\ n \notin DOMAIN inputIndex /\ n \notin DOMAIN inputIndex'
    BY <1>2, <1>5, <1>7
  <2>2. Operands(n)' = {made'[n].pair[1], made'[n].pair[2]}
    BY <2>1 DEF Operands
  <2>3. Operands(n) = {made[n].pair[1], made[n].pair[2]}
    BY <2>1 DEF Operands
  <2>4. /\ made'[n].pair[1] = SingleTwin(made[n].pair[1])
        /\ made'[n].pair[2] = SingleTwin(made[n].pair[2])
    BY <1>7
  <2> QED
    BY <2>2, <2>3, <2>4
<1>13. MadeCompute'
  <2> SUFFICES ASSUME NEW n \in DOMAIN made
               PROVE  table'[n] = Combine(made'[n].type, {table'[y] : y \in Operands(n)'})
    BY <1>2, <1>3 DEF MadeCompute
  <2>1. {table'[y] : y \in Operands(n)'} = {table[y] : y \in Operands(n)}
    <3>1. /\ made[n].pair[1] \in DOMAIN table /\ made[n].pair[2] \in DOMAIN table
          /\ Operands(n) = {made[n].pair[1], made[n].pair[2]}
          /\ Operands(n)' = {SingleTwin(made[n].pair[1]), SingleTwin(made[n].pair[2])}
      BY <1>7, <1>12
    <3>2. \A y \in DOMAIN table : table'[SingleTwin(y)] = table[y]
      BY <1>4, <1>5
    <3> QED
      BY <3>1, <3>2
  <2> QED
    BY <1>1, <1>5, <1>7, <2>1 DEF MadeCompute
<1>14. Grounded'
  <2> SUFFICES ASSUME NEW S \in SUBSET Stays, S # {}
               PROVE  \E x \in S : Operands(x)' \cap S = {}
    BY <1>5 DEF Grounded
  <2> DEFINE T == {x \in DOMAIN table : SingleTwin(x) \in S}
  <2>1. \A x \in S : SingleTwin(x) = x
    BY <1>1, TwinEquation DEF Stays
  <2>2. T \in SUBSET DOMAIN table /\ T # {}
    BY <2>1 DEF Stays
  <2> HIDE DEF T
  <2>3. PICK x \in T : Operands(x) \cap T = {}
    BY <1>1, <2>2 DEF Grounded
  <2>4. x \in DOMAIN table /\ Operands(x) \subseteq DOMAIN table
    BY <1>1, <2>2, OperandsAreGates
  <2>5. ~Skipped(x)
    <3> SUFFICES ASSUME Skipped(x) PROVE FALSE
      OBVIOUS
    <3>1. TheInput(x) \in Operands(x)
      BY DEF Skipped, TheInput, Operands
    <3>2. SingleTwin(x) = SingleTwin(TheInput(x))
      BY <1>1, <2>4, TwinEquation
    <3> QED
      BY <2>3, <2>4, <3>1, <3>2 DEF T
  <2>6. x \in S
    BY <1>1, <2>4, <2>5, TwinEquation DEF T
  <2>7. Operands(x)' \subseteq {SingleTwin(y) : y \in Operands(x)}
    <3>1. CASE x \in DOMAIN inputIndex'
      BY <1>6, <3>1 DEF Operands
    <3>2. CASE x \in DOMAIN made
      BY <1>12, <3>2
    <3>3. CASE x \notin DOMAIN inputIndex' \cup DOMAIN made
      <4>1. DOMAIN made' = DOMAIN made
        BY <1>2
      <4> QED
        BY <3>3, <4>1 DEF Operands
    <3> QED
      BY <3>1, <3>2, <3>3
  <2>8. \A y \in Operands(x) : SingleTwin(y) \notin S
    BY <2>3, <2>4 DEF T
  <2> QED
    BY <2>6, <2>7, <2>8
<1>15. OutputKept'
  BY <1>1, <1>2, <1>4, <1>5 DEF OutputKept
<1>16. PhasesOver'
  <2>1. \A g \in OfPhase : Skipped(g)
    <3>1. \A g \in OfPhase : g \in DOMAIN inputIndex /\ \E x \in Operand : Inputs(g) = {x}
      BY <1>1, <1>2 DEF OneInputLeft, OfPhase
    <3> QED
      BY <3>1 DEF Skipped
  <2>2. \A g \in DOMAIN inputIndex' : g \in DOMAIN inputIndex /\ ~Skipped(g) /\ Kind[g] # phase
    BY <1>5, <2>1 DEF OfPhase, Stays
  <2>3. CASE phase = "MULTI_AND"
    <3>1. \A g \in DOMAIN inputIndex' : Kind[g] = "MULTI_OR"
      BY <1>1, <2>2, <2>3 DEF TypeOK, MultiGate, MultiType
    <3> QED
      BY <1>3, <2>3, <3>1 DEF PhasesOver, OfPhase
  <2>4. CASE phase = "MULTI_OR"
    <3>1. DOMAIN inputIndex' = {}
      BY <1>1, <2>2, <2>4 DEF PhasesOver, OfPhase
    <3> QED
      BY <1>3, <2>4, <3>1 DEF PhasesOver, OfPhase
  <2> QED
    BY <1>3, <2>3, <2>4
<1> QED
  BY <1>8, <1>9, <1>10, <1>11, <1>13, <1>14, <1>15, <1>16 DEF ConvertInv, Inv

-----------------------------------------------------------------------------
\* convertToSingleOptimized keeps ConvertInv from the call to the return,
\* whatever circuit it is called on.
THEOREM ConvertInvariance == ConvertSpec => []ConvertInv
<1>1. ConvertInit => ConvertInv
  BY ConvertInitInv
<1>2. ConvertInv /\ [ConvertNext]_convertVars => ConvertInv'
  <2> SUFFICES ASSUME ConvertInv, [ConvertNext]_convertVars
               PROVE  ConvertInv'
    OBVIOUS
  <2>1. CASE ConvertStep
    BY <2>1, PhaseKeeps, CopyKeeps DEF ConvertStep
  <2>2. CASE UNCHANGED convertVars
    <3>1. UNCHANGED vars
      BY <2>2 DEF convertVars
    <3>2. Inv'
      BY <3>1, InvStep DEF ConvertInv
    <3>3. \A x : Operands(x)' = Operands(x)
      BY <3>1 DEF vars, Operands, Inputs
    <3>4. Grounded' /\ MadeCompute'
      <4>1. /\ table' = table /\ made' = made /\ pc' = pc /\ newGate' = newGate
            /\ highest' = highest
        BY <3>1 DEF vars
      <4>2. Grounded'
        BY <3>3, <4>1 DEF ConvertInv, Grounded
      <4>3. MadeCompute'
        BY <3>3, <4>1 DEF ConvertInv, MadeCompute
      <4> QED
        BY <4>2, <4>3
    <3>5. OutputKept' /\ PhasesOver'
      BY <2>2, <3>1 DEF ConvertInv, OutputKept, PhasesOver, OfPhase, vars, convertVars
    <3> QED
      BY <3>2, <3>4, <3>5 DEF ConvertInv
  <2> QED
    BY <2>1, <2>2 DEF ConvertNext, Returned
<1> QED
  BY <1>1, <1>2, PTL DEF ConvertSpec

\* The function read off the network at the output is the circuit's, at every
\* moment of the conversion.
THEOREM FunctionOfOutput == ConvertSpec => []OutputPreserved
<1>1. ConvertInv => OutputPreserved
  BY ComputesTable DEF ConvertInv, Inv, OutputKept, OutputPreserved
<1> QED
  BY <1>1, ConvertInvariance, PTL

\* When convertToSingleOptimized returns, no multi-gate is left.
THEOREM OnlyTwoInputGates == ConvertSpec => [](pc = "returned" => DOMAIN inputIndex = {})
<1>1. ConvertInv => (pc = "returned" => DOMAIN inputIndex = {})
  BY DEF ConvertInv, PhasesOver
<1> QED
  BY <1>1, ConvertInvariance, PTL

\* The lookups of replaceInputs find what they look for in both phases, in the
\* second although its input lists are not in address order.
THEOREM SafeInBothPhases == ConvertSpec => []ReplaceSafe
<1>1. ConvertInv => ReplaceSafe
  BY DEF ConvertInv, Inv, TypeOK, Replacing, PairsProper, ReplaceSafe
<1> QED
  BY <1>1, ConvertInvariance, PTL

-----------------------------------------------------------------------------
(* The size of the circuit: sums over finite sets of gates.                *)

\* What holds of the empty set, and of a set as soon as it holds of it
\* without any one of its members, holds of every finite set.
LEMMA FromAllSmaller ==
  ASSUME NEW S, IsFiniteSet(S), NEW Good, {} \in Good,
         \A T \in SUBSET S : T # {} /\ (\A x \in T : T \ {x} \in Good) => T \in Good
  PROVE  S \in Good
<1> DEFINE Bad == {T \in SUBSET S : T \notin Good}
           R == StrictSubsetOrdering(S)
<1> SUFFICES ASSUME Bad # {} PROVE FALSE
  OBVIOUS
<1>1. IsWellFoundedOn(R, SUBSET S)
  BY FS_StrictSubsetOrderingWellFounded, FS_FiniteSubsetsOfFinite
<1>2. PICK T \in Bad : \A U \in Bad : ~ (<<U, T>> \in R)
  <2> HIDE DEF R
  <2>1. Bad \subseteq SUBSET S
    OBVIOUS
  <2> HIDE DEF Bad
  <2> QED
    BY <1>1, <2>1, WFMin
<1>3. PICK x \in T : T \ {x} \notin Good
  OBVIOUS
<1>4. T \ {x} \in Bad /\ T \ {x} # T
  BY <1>3
<1>5. <<T \ {x}, T>> \in R
  BY <1>3, <1>4 DEF StrictSubsetOrdering
<1> QED
  BY <1>2, <1>4, <1>5

\* total is the sum of f over every subset of S, whatever member comes first.
Sums(total, f, S) ==
  /\ total \in [SUBSET S -> Nat] /\ total[{}] = 0
  /\ \A T \in SUBSET S : \A x \in T : total[T] = f[x] + total[T \ {x}]

Numbered(f, S) == \A x \in S : f[x] \in Nat

LEMMA SumsExist ==
  ASSUME NEW S, IsFiniteSet(S), NEW f, Numbered(f, S)
  PROVE  \E total : Sums(total, f, S)
<1> DEFINE Good == {T \in SUBSET S : \E total : Sums(total, f, T)}
<1>1. {} \in Good
  <2>1. Sums([T \in SUBSET {} |-> 0], f, {})
    BY DEF Sums
  <2> QED
    BY <2>1
<1>2. ASSUME NEW T \in SUBSET S, NEW z \in T, T \ {z} \in Good
      PROVE  T \in Good
  <2>1. PICK old : Sums(old, f, T \ {z})
    BY <1>2
  <2> DEFINE total == [U \in SUBSET T |-> IF z \in U THEN f[z] + old[U \ {z}] ELSE old[U]]
  <2>2. \A U \in SUBSET T : U \ {z} \in SUBSET (T \ {z}) /\ old[U \ {z}] \in Nat
    BY <2>1 DEF Sums
  <2>3. f[z] \in Nat
    BY DEF Numbered
  <2>4. \A U \in SUBSET T : z \notin U => old[U] \in Nat /\ U \in SUBSET (T \ {z})
    BY <2>1 DEF Sums
  <2>5. total \in [SUBSET T -> Nat]
    BY <2>2, <2>3, <2>4
  <2>6. total[{}] = 0
    BY <2>1 DEF Sums
  <2>7. ASSUME NEW U \in SUBSET T, NEW x \in U
        PROVE  total[U] = f[x] + total[U \ {x}]
    <3>1. U \ {x} \in SUBSET T
      OBVIOUS
    <3>2. CASE x = z
      BY <3>1, <3>2
    <3>3. CASE x # z /\ z \in U
      <4>1. U \ {z} \in SUBSET (T \ {z}) /\ x \in U \ {z}
        BY <3>3
      <4>2. old[U \ {z}] = f[x] + old[(U \ {z}) \ {x}]
        BY <2>1, <4>1 DEF Sums
      <4>3. (U \ {z}) \ {x} = (U \ {x}) \ {z}
        OBVIOUS
      <4>4. /\ total[U] = f[z] + old[U \ {z}]
            /\ total[U \ {x}] = f[z] + old[(U \ {x}) \ {z}]
        BY <3>1, <3>3
      <4>5. old[(U \ {x}) \ {z}] \in Nat /\ f[x] \in Nat
        BY <2>2, <3>1 DEF Numbered
      <4>6. old[U \ {z}] = f[x] + old[(U \ {x}) \ {z}]
        BY <4>2, <4>3
      <4>7. f[z] + (f[x] + old[(U \ {x}) \ {z}]) = f[x] + (f[z] + old[(U \ {x}) \ {z}])
        BY <2>3, <4>5
      <4> HIDE DEF total
      <4> QED
        BY <4>4, <4>6, <4>7
    <3>4. CASE z \notin U
      <4>1. old[U] = f[x] + old[U \ {x}]
        BY <2>1, <2>4, <3>4 DEF Sums
      <4> QED
        BY <3>1, <3>4, <4>1
    <3> QED
      BY <3>2, <3>3, <3>4
  <2> HIDE DEF total
  <2>8. Sums(total, f, T)
    BY <2>5, <2>6, <2>7 DEF Sums
  <2> QED
    BY <2>8
<1> HIDE DEF Good
<1>3. S \in Good
  BY <1>1, <1>2, FromAllSmaller
<1> QED
  BY <1>3 DEF Good

\* Taking members in one order comes to the same.
LEMMA AnyOrder ==
  ASSUME NEW S, IsFiniteSet(S), NEW f, NEW total, Sums(total, f, S),
         NEW iter, iter[{}] = 0,
         \A T \in SUBSET S : T # {} => \E x \in T : iter[T] = f[x] + iter[T \ {x}]
  PROVE  iter[S] = total[S]
<1> DEFINE Good == {T \in SUBSET S : iter[T] = total[T]}
<1>1. {} \in Good
  BY DEF Sums
<1>2. ASSUME NEW T \in SUBSET S, T # {}, \A x \in T : T \ {x} \in Good
      PROVE  T \in Good
  <2>1. PICK x \in T : iter[T] = f[x] + iter[T \ {x}]
    BY <1>2
  <2>2. total[T] = f[x] + total[T \ {x}]
    BY DEF Sums
  <2> QED
    BY <1>2, <2>1, <2>2
<1> HIDE DEF Good
<1>3. \A T \in SUBSET S : T # {} /\ (\A x \in T : T \ {x} \in Good) => T \in Good
  BY <1>2
<1>4. S \in Good
  BY <1>1, <1>3, FromAllSmaller
<1> QED
  BY <1>4 DEF Good

\* The sum of f over S.
Total(f, S) == (CHOOSE total : Sums(total, f, S))[S]

\* Every total over a set agrees with the sums over its subsets.
LEMMA SumsAgree ==
  ASSUME NEW S, IsFiniteSet(S), NEW T \in SUBSET S, NEW f, NEW g,
         \A x \in T : f[x] = g[x],
         NEW t, NEW u, Sums(t, f, S), Sums(u, g, T)
  PROVE  t[T] = u[T]
<1> DEFINE Good == {U \in SUBSET T : t[U] = u[U]}
<1>1. {} \in Good
  BY DEF Sums
<1>2. ASSUME NEW U \in SUBSET T, NEW x \in U, U \ {x} \in Good
      PROVE  U \in Good
  <2>1. t[U] = f[x] + t[U \ {x}]
    BY DEF Sums
  <2>2. u[U] = g[x] + u[U \ {x}]
    BY DEF Sums
  <2> QED
    BY <1>2, <2>1, <2>2
<1> HIDE DEF Good
<1>3. IsFiniteSet(T)
  BY FS_Subset
<1>4. T \in Good
  BY <1>1, <1>2, <1>3, FromAllSmaller
<1> QED
  BY <1>4 DEF Good

LEMMA TotalIs ==
  ASSUME NEW S, IsFiniteSet(S), NEW f, Numbered(f, S)
  PROVE  /\ Total(f, S) \in Nat
         /\ \A x \in S : Total(f, S) = f[x] + Total(f, S \ {x})
         /\ \A t : Sums(t, f, S) => Total(f, S) = t[S]
<1> DEFINE t == CHOOSE total : Sums(total, f, S)
<1>1. Sums(t, f, S)
  BY SumsExist
<1>2. Total(f, S) = t[S]
  BY DEF Total
<1> HIDE DEF t
<1>3. ASSUME NEW x \in S
      PROVE  Total(f, S) = f[x] + Total(f, S \ {x})
  <2> DEFINE u == CHOOSE total : Sums(total, f, S \ {x})
  <2>1. IsFiniteSet(S \ {x}) /\ Numbered(f, S \ {x})
    BY FS_RemoveElement DEF Numbered
  <2>2. Sums(u, f, S \ {x})
    BY <2>1, SumsExist
  <2>3. Total(f, S \ {x}) = u[S \ {x}]
    BY DEF Total
  <2> HIDE DEF u
  <2>4. t[S \ {x}] = u[S \ {x}]
    BY <1>1, <2>2, SumsAgree
  <2> QED
    BY <1>1, <1>2, <2>3, <2>4 DEF Sums
<1>4. \A v : Sums(v, f, S) => Total(f, S) = v[S]
  BY <1>1, <1>2, SumsAgree
<1> QED
  BY <1>1, <1>2, <1>3, <1>4 DEF Sums

\* A sum over less of smaller numbers is smaller.
LEMMA TotalGrows ==
  ASSUME NEW S, IsFiniteSet(S), NEW T \in SUBSET S, NEW f, NEW g, Numbered(f, T),
         Numbered(g, S), \A x \in T : f[x] <= g[x]
  PROVE  Total(f, T) <= Total(g, S)
<1> DEFINE Good == {U \in SUBSET S : Total(f, U \cap T) <= Total(g, U)}
<1>1. {} \in Good
  <2>1. IsFiniteSet({}) /\ Numbered(f, {}) /\ Numbered(g, {})
    BY FS_EmptySet DEF Numbered
  <2>2. PICK t : Sums(t, f, {})
    BY <2>1, SumsExist
  <2>3. PICK u : Sums(u, g, {})
    BY <2>1, SumsExist
  <2>4. Total(f, {}) = 0 /\ Total(g, {}) = 0
    BY <2>1, <2>2, <2>3, TotalIs DEF Sums
  <2> QED
    BY <2>4
<1>2. ASSUME NEW U \in SUBSET S, NEW x \in U, U \ {x} \in Good
      PROVE  U \in Good
  <2>1. /\ IsFiniteSet(U) /\ Numbered(g, U) /\ IsFiniteSet(U \ {x}) /\ Numbered(g, U \ {x})
        /\ IsFiniteSet(U \cap T) /\ Numbered(f, U \cap T)
        /\ IsFiniteSet((U \ {x}) \cap T) /\ Numbered(f, (U \ {x}) \cap T)
    <3>1. U \in SUBSET S /\ U \ {x} \in SUBSET S /\ U \cap T \in SUBSET S /\ (U \ {x}) \cap T \in SUBSET S
      OBVIOUS
    <3> QED
      BY <3>1, FS_Subset DEF Numbered
  <2>2. Total(g, U) = g[x] + Total(g, U \ {x}) /\ Total(g, U \ {x}) \in Nat /\ g[x] \in Nat
    BY <2>1, TotalIs DEF Numbered
  <2>3. Total(f, (U \ {x}) \cap T) <= Total(g, U \ {x}) /\ Total(f, (U \ {x}) \cap T) \in Nat
    BY <1>2, <2>1, TotalIs
  <2>4. CASE x \in T
    <3>1. (U \cap T) \ {x} = (U \ {x}) \cap T /\ x \in U \cap T
      BY <2>4
    <3>2. Total(f, U \cap T) = f[x] + Total(f, (U \ {x}) \cap T)
      BY <2>1, <3>1, TotalIs
    <3>3. f[x] \in Nat /\ f[x] <= g[x]
      BY <2>4 DEF Numbered
    <3> QED
      BY <2>2, <2>3, <3>2, <3>3
  <2>5. CASE x \notin T
    <3>1. U \cap T = (U \ {x}) \cap T
      BY <2>5
    <3>2. Total(f, U \cap T) = Total(f, (U \ {x}) \cap T)
      BY <3>1, Zenon
    <3> QED
      BY <2>2, <2>3, <3>2
  <2> QED
    BY <2>4, <2>5
<1> HIDE DEF Good
<1>3. \A U \in SUBSET S : U # {} /\ (\A x \in U : U \ {x} \in Good) => U \in Good
  BY <1>2
<1>4. S \in Good
  BY <1>1, <1>3, FromAllSmaller
<1>5. S \cap T = T
  OBVIOUS
<1> QED
  BY <1>4, <1>5 DEF Good

-----------------------------------------------------------------------------
\* A set of gates with all that its members use.
OperandClosed(S) == \A x \in S : Operands(x) \subseteq S

\* The gates a gate is built from: they are in every such set it is in.
Under(x) == {y \in DOMAIN table : \A S \in SUBSET DOMAIN table : x \in S /\ OperandClosed(S) => y \in S}

Sizes == [x \in DOMAIN table |-> SizeOf(x)]

\* getSize meets these gates.
LEMMA BelowIsUnder ==
  ASSUME TypeOK, Grounded, NEW x \in DOMAIN table
  PROVE  /\ below[x] = Under(x) /\ x \in Under(x)
         /\ Under(x) \subseteq DOMAIN table /\ OperandClosed(Under(x))
<1> DEFINE Body(f) == [y \in DOMAIN table |-> {y} \cup UNION {f[z] : z \in Operands(y)}]
           under == [y \in DOMAIN table |-> Under(y)]
<1>0. \A y \in DOMAIN table : Operands(y) \subseteq DOMAIN table
  BY OperandsAreGates
<1>1. ASSUME NEW y \in DOMAIN table
      PROVE  y \in Under(y) /\ Under(y) \subseteq DOMAIN table /\ OperandClosed(Under(y))
  <2>1. y \in Under(y) /\ Under(y) \subseteq DOMAIN table
    BY DEF Under
  <2>2. ASSUME NEW z \in Under(y), NEW u \in Operands(z)
        PROVE  u \in Under(y)
    <3>1. z \in DOMAIN table /\ u \in DOMAIN table
      BY <1>0, <2>1, <2>2
    <3>2. \A S \in SUBSET DOMAIN table : y \in S /\ OperandClosed(S) => u \in S
      BY <2>2 DEF Under, OperandClosed
    <3> QED
      BY <3>1, <3>2 DEF Under
  <2> QED
    BY <2>1, <2>2 DEF OperandClosed
<1>2. ASSUME NEW y \in DOMAIN table, NEW S \in SUBSET DOMAIN table, y \in S, OperandClosed(S)
      PROVE  Under(y) \subseteq S
  BY <1>2 DEF Under
<1>3. ASSUME NEW y \in DOMAIN table
      PROVE  Under(y) = {y} \cup UNION {Under(z) : z \in Operands(y)}
  <2> DEFINE S == {y} \cup UNION {Under(z) : z \in Operands(y)}
  <2>1. \A z \in Operands(y) : z \in Under(y) /\ z \in DOMAIN table
    BY <1>0, <1>1 DEF OperandClosed
  <2>2. \A z \in Operands(y) : Under(z) \subseteq Under(y)
    BY <1>1, <1>2, <2>1
  <2>3. S \subseteq Under(y)
    BY <1>1, <2>2
  <2>4. S \in SUBSET DOMAIN table
    BY <1>1, <2>3
  <2>5. ASSUME NEW z \in S
        PROVE  Operands(z) \subseteq S
    <3>1. CASE z = y
      BY <1>1, <2>1, <3>1
    <3>2. CASE z # y
      <4>1. PICK w \in Operands(y) : z \in Under(w)
        BY <2>5, <3>2
      <4>2. Operands(z) \subseteq Under(w)
        BY <1>1, <2>1, <4>1 DEF OperandClosed
      <4> QED
        BY <4>1, <4>2
    <3> QED
      BY <3>1, <3>2
  <2>6. y \in S
    OBVIOUS
  <2> HIDE DEF S
  <2>7. Under(y) \subseteq S
    BY <1>2, <2>4, <2>5, <2>6 DEF OperandClosed
  <2> QED
    BY <2>3, <2>7 DEF S
<1>4. under = Body(under)
  <2>1. \A y \in DOMAIN table : under[y] = Body(under)[y]
    <3> TAKE y \in DOMAIN table
    <3>1. {under[z] : z \in Operands(y)} = {Under(z) : z \in Operands(y)}
      BY <1>0
    <3> QED
      BY <1>3, <3>1
  <2> QED
    BY <2>1
<1> HIDE DEF under
<1>5. below = Body(below)
  BY <1>4 DEF below
<1> USE DEF under
<1> DEFINE Good == {y \in DOMAIN table : below[y] = Under(y)}
<1>6. ASSUME NEW y \in DOMAIN table, Operands(y) \subseteq Good
      PROVE  y \in Good
  <2>1. {below[z] : z \in Operands(y)} = {Under(z) : z \in Operands(y)}
    BY <1>6
  <2>2. below[y] = {y} \cup UNION {below[z] : z \in Operands(y)}
    BY <1>5
  <2> QED
    BY <1>3, <2>1, <2>2
<1> HIDE DEF Good
<1>7. DOMAIN table \subseteq Good
  BY <1>6, FromInputsUp
<1> QED
  BY <1>1, <1>7 DEF Good

\* The two-input gates made are finitely many.
FiniteMade == IsFiniteSet(DOMAIN made)

LEMMA SizesFacts ==
  ASSUME TypeOK, PairsProper, FiniteMade
  PROVE  /\ IsFiniteSet(DOMAIN table) /\ Numbered(Sizes, DOMAIN table)
         /\ \A x \in DOMAIN inputIndex : IsFiniteSet(Inputs(x)) /\ Cardinality(Inputs(x)) \in Nat \ {0}
<1>1. IsFiniteSet(DOMAIN table)
  <2>1. DOMAIN table \subseteq Gate \cup DOMAIN made
    BY DEF TypeOK, Operand
  <2>2. IsFiniteSet(Gate \cup DOMAIN made)
    BY NetworkAssumption, FS_Union DEF FiniteMade
  <2> QED
    BY <2>1, <2>2, FS_Subset
<1>2. ASSUME NEW x \in DOMAIN inputIndex
      PROVE  IsFiniteSet(Inputs(x)) /\ Cardinality(Inputs(x)) \in Nat \ {0}
  <2>1. Inputs(x) \subseteq DOMAIN table /\ Inputs(x) # {}
    BY DEF TypeOK, PairsProper
  <2> QED
    BY <1>1, <2>1, FS_Subset, FS_CardinalityType, FS_EmptySet
<1>3. \A x \in DOMAIN table : SizeOf(x) \in Nat
  BY <1>2 DEF SizeOf
<1> QED
  BY <1>1, <1>2, <1>3 DEF Sizes, Numbered

\* Circuit::getSize is the sum of the sizes of these gates.
LEMMA CircuitSizeIs == ConvertInv /\ FiniteMade => CircuitSize = Total(Sizes, Under(output))
<1> SUFFICES ASSUME ConvertInv, FiniteMade PROVE CircuitSize = Total(Sizes, Under(output))
  OBVIOUS
<1>1. TypeOK /\ PairsProper /\ Grounded /\ output \in DOMAIN table
  BY DEF ConvertInv, Inv, OutputKept
<1> DEFINE B == below[output]
           Body(f) == [S \in SUBSET B |-> IF S = {} THEN 0
                                          ELSE SizeOf(CHOOSE x \in S : TRUE)
                                                 + f[S \ {CHOOSE x \in S : TRUE}]]
           iter == CHOOSE f : f = Body(f)
<1>2. B = Under(output) /\ B \subseteq DOMAIN table
  BY <1>1, BelowIsUnder
<1>3. IsFiniteSet(B) /\ Numbered(Sizes, B) /\ \A x \in B : SizeOf(x) = Sizes[x]
  <2>1. IsFiniteSet(DOMAIN table) /\ Numbered(Sizes, DOMAIN table)
    BY <1>1, SizesFacts
  <2> QED
    BY <1>2, <2>1, FS_Subset DEF Numbered, Sizes
<1>4. CircuitSize = iter[B]
  BY DEF CircuitSize, MapThenSumSet, MapThenFoldSet
<1> HIDE DEF B
<1>5. PICK total : Sums(total, Sizes, B)
  BY <1>3, SumsExist
<1>6. total = Body(total)
  <2>1. ASSUME NEW S \in SUBSET B
        PROVE  total[S] = Body(total)[S]
    <3>1. CASE S = {}
      BY <1>5, <3>1 DEF Sums
    <3>2. CASE S # {}
      <4> DEFINE x == CHOOSE y \in S : TRUE
      <4>1. x \in S
        BY <3>2
      <4> HIDE DEF x
      <4>2. total[S] = SizeOf(x) + total[S \ {x}]
        BY <1>3, <1>5, <4>1 DEF Sums
      <4> USE DEF x
      <4> QED
        BY <3>2, <4>2
    <3> QED
      BY <3>1, <3>2
  <2>2. total = [S \in SUBSET B |-> total[S]]
    BY <1>5 DEF Sums
  <2> HIDE DEF Body
  <2>3. Body(total) = [S \in SUBSET B |-> Body(total)[S]]
    BY DEF Body
  <2> QED
    BY <2>1, <2>2, <2>3
<1>7. iter = Body(iter)
  <2> HIDE DEF Body
  <2> QED
    BY <1>6
<1>8. \A S \in SUBSET B : S # {} => \E x \in S : iter[S] = Sizes[x] + iter[S \ {x}]
  <2> TAKE S \in SUBSET B
  <2> HAVE S # {}
  <2> DEFINE x == CHOOSE y \in S : TRUE
  <2>1. x \in S
    OBVIOUS
  <2>2. iter[S] = SizeOf(x) + iter[S \ {x}]
    <3> HIDE DEF iter
    <3> QED
      BY <1>7
  <2> HIDE DEF x, iter
  <2> QED
    BY <1>3, <2>1, <2>2
<1>9. iter[{}] = 0
  <2> HIDE DEF iter
  <2> QED
    BY <1>7
<1> HIDE DEF iter, Body
<1>10. iter[B] = total[B]
  BY <1>3, <1>5, <1>8, <1>9, AnyOrder
<1>11. total[B] = Total(Sizes, B)
  BY <1>3, <1>5, TotalIs
<1> QED
  BY <1>2, <1>4, <1>10, <1>11

\* What the comparison of two sizes takes of a state.
Measured ==
  /\ IsFiniteSet(DOMAIN table) /\ Numbered(Sizes, DOMAIN table)
  /\ output \in Under(output) /\ Under(output) \subseteq DOMAIN table /\ OperandClosed(Under(output))
  /\ \A x \in DOMAIN inputIndex : IsFiniteSet(Inputs(x)) /\ Cardinality(Inputs(x)) \in Nat \ {0}
  /\ CircuitSize = Total(Sizes, Under(output))

LEMMA MeasuredAlways == ConvertInv /\ FiniteMade => Measured
<1> SUFFICES ASSUME ConvertInv, FiniteMade PROVE Measured
  OBVIOUS
<1>1. TypeOK /\ PairsProper /\ Grounded /\ output \in DOMAIN table
  BY DEF ConvertInv, Inv, OutputKept
<1> QED
  BY <1>1, BelowIsUnder, SizesFacts, CircuitSizeIs DEF Measured

\* The next circuit is no larger when a part of this one holds all of it and
\* no gate of the part has grown.
LEMMA PartIsNoLarger ==
  ASSUME Measured, Measured', NEW S \in SUBSET Under(output), S \subseteq DOMAIN table',
         output' \in S, \A x \in S : Operands(x)' \subseteq S /\ SizeOf(x)' <= SizeOf(x)
  PROVE  CircuitSize' <= CircuitSize
<1>1. Under(output)' \subseteq S
  BY DEF Under, OperandClosed
<1>2. /\ IsFiniteSet(DOMAIN table) /\ Numbered(Sizes, DOMAIN table)
      /\ Under(output) \subseteq DOMAIN table /\ CircuitSize = Total(Sizes, Under(output))
      /\ Numbered(Sizes', DOMAIN table') /\ Under(output)' \subseteq DOMAIN table'
      /\ CircuitSize' = Total(Sizes', Under(output)')
  BY DEF Measured
<1>3. IsFiniteSet(Under(output)) /\ Numbered(Sizes, Under(output))
  BY <1>2, FS_Subset DEF Numbered
<1>4. Numbered(Sizes', Under(output)')
  BY <1>2 DEF Numbered
<1>5. \A x \in Under(output)' : Sizes'[x] <= Sizes[x]
  BY <1>1, <1>2 DEF Sizes
<1> QED
  BY <1>1, <1>2, <1>3, <1>4, <1>5, TotalGrows

\* The steps that change no list and make no gate.
LEMMA SameSize ==
  ASSUME Measured, Measured', UNCHANGED <<inputIndex, made, table, output>>
  PROVE  CircuitSize' <= CircuitSize
<1>1. \A x : Operands(x)' = Operands(x) /\ SizeOf(x)' = SizeOf(x)
  BY DEF Operands, Inputs, SizeOf
<1>2. Under(output) \subseteq DOMAIN table' /\ output' \in Under(output) /\ OperandClosed(Under(output))
  BY DEF Measured
<1>3. \A x \in Under(output) : SizeOf(x)' <= SizeOf(x)
  <2>1. \A x \in Under(output) : SizeOf(x) \in Nat
    BY DEF Measured, Numbered, Sizes
  <2> QED
    BY <1>1, <2>1
<1> QED
  BY <1>1, <1>2, <1>3, PartIsNoLarger DEF OperandClosed

\* A gate that is made is not used yet.
LEMMA CreateIsNoLarger ==
  ASSUME ConvertInv, Measured, Measured', NEW k \in ordered, CreateGate(k), output' = output
  PROVE  CircuitSize' <= CircuitSize
<1>1. TypeOK
  BY DEF ConvertInv, Inv
<1>2. /\ Fresh \notin DOMAIN table /\ DOMAIN made' = DOMAIN made \cup {Fresh}
      /\ DOMAIN table' = DOMAIN table \cup {Fresh}
  BY <1>1, CreateEffect
<1>3. inputIndex' = inputIndex /\ \A x \in DOMAIN made : x # Fresh => made'[x] = made[x]
  BY <1>2 DEF CreateGate
<1>4. \A x \in DOMAIN table : Operands(x)' = Operands(x) /\ SizeOf(x)' = SizeOf(x)
  BY <1>2, <1>3 DEF Operands, Inputs, SizeOf
<1>5. Under(output) \subseteq DOMAIN table /\ output' \in Under(output) /\ OperandClosed(Under(output))
  BY DEF Measured
<1>6. \A x \in DOMAIN table : SizeOf(x) \in Nat
  BY DEF Measured, Numbered, Sizes
<1>7. \A x \in Under(output) : Operands(x)' \subseteq Under(output) /\ SizeOf(x)' <= SizeOf(x)
  BY <1>4, <1>5, <1>6 DEF OperandClosed
<1> QED
  BY <1>2, <1>5, <1>7, PartIsNoLarger

\* The new gate takes the place of two inputs of a multi-gate: it counts once,
\* and the multi-gate for one less.
LEMMA ReplaceIsNoLarger ==
  ASSUME ConvertInv, Measured, Measured', NEW g \in pending, ReplaceInputs(g), output' = output
  PROVE  CircuitSize' <= CircuitSize
<1>1. TypeOK /\ Replacing /\ MadeCompute /\ PairsProper
  BY DEF ConvertInv, Inv
<1>2. /\ DOMAIN inputIndex' = DOMAIN inputIndex /\ g \in DOMAIN inputIndex
      /\ Inputs(g)' = (Inputs(g) \ {highest[1], highest[2]}) \cup {newGate}
      /\ \A h \in DOMAIN inputIndex : h # g => Inputs(h)' = Inputs(h)
  BY <1>1, ReplaceEffect DEF OfPhase
<1>3. /\ pc = "replace" /\ made' = made /\ table' = table
      /\ highest' = highest /\ newGate' = newGate
  BY DEF ReplaceInputs
<1>4. /\ highest[1] \in Inputs(g) /\ highest[2] \in Inputs(g) /\ highest[1] # highest[2]
      /\ newGate \notin Inputs(g) /\ newGate \in DOMAIN made /\ made[newGate].pair = highest
  BY <1>1, <1>3 DEF Replacing, HasPair, HasInput, Inputs, MadeCompute, TypeOK, PairsProper
<1>5. newGate \in DOMAIN table /\ newGate \notin DOMAIN inputIndex
  BY <1>1, <1>4, OperandsAreGates DEF TypeOK
<1>6. /\ Operands(newGate)' = {highest[1], highest[2]}
      /\ Operands(g)' = Inputs(g)' /\ Operands(g) = Inputs(g)
      /\ \A x : x # g => Operands(x)' = Operands(x) /\ SizeOf(x)' = SizeOf(x)
  <2>1. \A x : x # g => Operands(x)' = Operands(x) /\ SizeOf(x)' = SizeOf(x)
    BY <1>2, <1>3 DEF Operands, SizeOf
  <2>2. Operands(newGate) = {highest[1], highest[2]}
    BY <1>4, <1>5 DEF Operands
  <2>3. newGate # g
    BY <1>2, <1>5
  <2>4. Operands(newGate)' = Operands(newGate)
    <3>1. \A x : x = newGate => Operands(x)' = Operands(newGate)
      BY <2>1, <2>3
    <3> QED
      BY <1>3, <3>1
  <2>5. Operands(g) = Inputs(g)
    BY <1>2 DEF Operands
  <2>6. Operands(g)' = Inputs(g)'
    BY <1>2 DEF Operands
  <2> QED
    BY <2>1, <2>2, <2>4, <2>5, <2>6
<1>7. /\ Under(output) \subseteq DOMAIN table /\ output' \in Under(output) /\ OperandClosed(Under(output))
      /\ IsFiniteSet(DOMAIN table) /\ \A x \in DOMAIN table : SizeOf(x) \in Nat
  BY DEF Measured, Numbered, Sizes
<1>10. SizeOf(newGate) = 1
  BY <1>5 DEF SizeOf
<1>11. SizeOf(newGate)' = 1
  BY <1>2, <1>3, <1>5 DEF SizeOf
<1>12. \A x : x = newGate => Operands(x)' = {highest[1], highest[2]}
  BY <1>3, <1>6
<1>8. CASE g \notin Under(output)
  <2>1. \A x \in Under(output) : Operands(x)' \subseteq Under(output) /\ SizeOf(x)' <= SizeOf(x)
    BY <1>6, <1>7, <1>8 DEF OperandClosed
  <2> QED
    BY <1>3, <1>7, <2>1, PartIsNoLarger
<1>9. CASE g \in Under(output)
  <2> DEFINE B == Under(output)
             N == B \cup {newGate}
             R == B \ {newGate, g}
  <2>1. SizeOf(g)' = SizeOf(g) - 1 /\ SizeOf(g) \in Nat /\ SizeOf(g)' \in Nat
        /\ SizeOf(newGate)' = 1 /\ SizeOf(newGate) = 1
    <3>1. IsFiniteSet(Inputs(g)) /\ Cardinality(Inputs(g)) \in Nat \ {0}
      BY <1>2 DEF Measured
    <3>2. /\ IsFiniteSet(Inputs(g) \ {highest[1]})
          /\ Cardinality(Inputs(g) \ {highest[1]}) = Cardinality(Inputs(g)) - 1
      BY <1>4, <3>1, FS_RemoveElement
    <3> DEFINE rest == (Inputs(g) \ {highest[1]}) \ {highest[2]}
    <3>3. IsFiniteSet(rest) /\ Cardinality(rest) = Cardinality(Inputs(g)) - 1 - 1
      BY <1>4, <3>2, FS_RemoveElement
    <3>4. newGate \notin rest /\ Inputs(g)' = rest \cup {newGate}
      BY <1>2, <1>4
    <3> HIDE DEF rest
    <3>5. Cardinality(Inputs(g)') = Cardinality(rest) + 1 /\ Cardinality(rest) \in Nat
      BY <3>3, <3>4, FS_AddElement, FS_CardinalityType
    <3>6. /\ SizeOf(g) = Cardinality(Inputs(g)) - 1
          /\ SizeOf(g)' = Cardinality(Inputs(g)') - 1
      BY <1>2 DEF SizeOf
    <3> QED
      BY <1>10, <1>11, <3>1, <3>3, <3>5, <3>6
  <2>2. N \in SUBSET DOMAIN table' /\ output' \in N
    BY <1>3, <1>5, <1>7
  <2>3. ASSUME NEW x \in N
        PROVE  Operands(x)' \subseteq N
    <3>1. Inputs(g) \subseteq B
      BY <1>6, <1>7, <1>9 DEF OperandClosed
    <3>2. CASE x = newGate
      BY <1>4, <1>12, <3>1, <3>2
    <3>3. CASE x = g
      BY <1>2, <1>6, <3>1, <3>3
    <3>4. CASE x # newGate /\ x # g
      BY <1>6, <1>7, <3>4 DEF OperandClosed
    <3> QED
      BY <3>2, <3>3, <3>4
  <2>4. Under(output)' \subseteq N
    BY <2>2, <2>3 DEF Under, OperandClosed
  <2>5. /\ IsFiniteSet(B) /\ IsFiniteSet(N) /\ IsFiniteSet(B \ {newGate}) /\ IsFiniteSet(R)
        /\ IsFiniteSet(N \ {newGate}) /\ IsFiniteSet((N \ {newGate}) \ {g})
        /\ g # newGate /\ g \in B \ {newGate}
        /\ N \ {newGate} = B \ {newGate} /\ (B \ {newGate}) \ {g} = R
    BY <1>2, <1>3, <1>5, <1>7, <1>9, <2>2, FS_Subset
  <2>6. \A x \in DOMAIN table : Sizes[x] = SizeOf(x) /\ Sizes'[x] = SizeOf(x)'
    BY <1>3 DEF Sizes
  <2>7. \A x \in N : Sizes[x] \in Nat /\ Sizes'[x] \in Nat
    BY <1>3, <1>7, <2>2 DEF Measured, Numbered
  <2>8. /\ Sizes'[newGate] = 1 /\ Sizes'[g] = Sizes[g] - 1
        /\ \A x \in R : Sizes'[x] <= Sizes[x]
    BY <1>2, <1>5, <1>6, <1>7, <1>9, <2>1, <2>6, <2>7
  <2>9. CircuitSize = Total(Sizes, B) /\ CircuitSize' = Total(Sizes', Under(output)')
    BY DEF Measured
  <2>10. /\ Numbered(Sizes', N) /\ Numbered(Sizes', Under(output)') /\ Numbered(Sizes', B \ {newGate})
         /\ Numbered(Sizes', R) /\ Numbered(Sizes, B) /\ Numbered(Sizes, B \ {newGate}) /\ Numbered(Sizes, R)
    BY <2>4, <2>7 DEF Numbered
  <2> DEFINE S == Sizes
             T == Sizes'
  <2> HIDE DEF B, N, R
  <2>11. Total(Sizes', Under(output)') <= Total(Sizes', N)
    <3>1. \A x \in Under(output)' : Sizes'[x] <= Sizes'[x]
      BY <2>4, <2>7
    <3> QED
      BY <2>4, <2>5, <2>10, <3>1, TotalGrows
  <2>12. Total(Sizes', N) = 1 + Total(Sizes', B \ {newGate})
    <3>1. newGate \in N
      BY DEF N
    <3>2. Total(Sizes', N) = Sizes'[newGate] + Total(Sizes', N \ {newGate})
      BY <2>5, <2>10, <3>1, TotalIs
    <3> QED
      BY <2>5, <2>8, <3>2
  <2>13. Total(Sizes', B \ {newGate}) = Sizes'[g] + Total(Sizes', R)
    BY <2>5, <2>10, TotalIs
  <2>14. Total(Sizes, B \ {newGate}) = Sizes[g] + Total(Sizes, R)
    BY <2>5, <2>10, TotalIs
  <2>15. Total(Sizes', R) <= Total(Sizes, R)
    BY <2>5, <2>8, <2>10, TotalGrows
  <2>16. Total(Sizes, B \ {newGate}) <= Total(Sizes, B)
    <3>1. \A x \in B \ {newGate} : Sizes[x] <= Sizes[x]
      BY <2>7 DEF N
    <3> QED
      BY <2>5, <2>10, <3>1, TotalGrows
  <2>17. /\ Total(Sizes', R) \in Nat /\ Total(Sizes, R) \in Nat /\ Total(Sizes, B) \in Nat
         /\ Sizes[g] \in Nat
    BY <2>5, <2>7, <2>10, TotalIs DEF N
  <2>18. Total(Sizes', Under(output)') \in Nat
    BY <2>4, <2>5, <2>10, TotalIs, FS_Subset
  <2> QED
    BY <2>8, <2>9, <2>11, <2>12, <2>13, <2>14, <2>15, <2>16, <2>17, <2>18
<1> QED
  BY <1>8, <1>9

\* The copy has no gate that was not there, and its lists are no longer.
LEMMA CopyIsNoLarger ==
  ASSUME ConvertInv, Measured, Measured', TakeSingleTwin
  PROVE  CircuitSize' <= CircuitSize
<1> DEFINE Stays == {x \in DOMAIN table : ~Skipped(x)}
           S == Under(output) \cap Stays
<1>1. /\ TypeOK /\ Grounded /\ SameFunction /\ ListsInjective /\ PairsProper
      /\ output \in DOMAIN table
  BY DEF ConvertInv, Inv, OutputKept
<1>2. /\ inputIndex' = [g \in {h \in DOMAIN inputIndex : ~Skipped(h)} |-> TwinInputs(g)]
      /\ table' = [x \in Stays |-> table[x]]
      /\ made' = [n \in DOMAIN made |->
                    [made[n] EXCEPT !.pair = <<SingleTwin(@[1]), SingleTwin(@[2])>>]]
      /\ output' = SingleTwin(output)
  BY DEF TakeSingleTwin
<1>3. /\ Under(output) \subseteq DOMAIN table /\ output \in Under(output) /\ OperandClosed(Under(output))
      /\ \A x \in DOMAIN table : SizeOf(x) \in Nat
  BY DEF Measured, Numbered, Sizes
<1>4. \A x \in DOMAIN table : Operands(x) \subseteq DOMAIN table
  BY <1>1, OperandsAreGates
<1>5. \A x \in Under(output) : SingleTwin(x) \in S
  <2> DEFINE Good == {x \in DOMAIN table : x \in Under(output) => SingleTwin(x) \in Under(output)}
  <2>1. ASSUME NEW x \in DOMAIN table, Operands(x) \subseteq Good
        PROVE  x \in Good
    <3>1. CASE ~Skipped(x)
      BY <1>1, <3>1, TwinEquation
    <3>2. CASE Skipped(x)
      <4>1. TheInput(x) \in Operands(x) /\ SingleTwin(x) = SingleTwin(TheInput(x))
        BY <1>1, <3>2, TwinEquation DEF Skipped, TheInput, Operands
      <4> QED
        BY <1>3, <2>1, <4>1 DEF OperandClosed
    <3> QED
      BY <3>1, <3>2
  <2> HIDE DEF Good
  <2>2. DOMAIN table \subseteq Good
    BY <1>1, <2>1, FromInputsUp
  <2> QED
    BY <1>1, <1>3, <2>2, TwinFacts DEF Good
<1>6. ASSUME NEW x \in DOMAIN inputIndex, ~Skipped(x)
      PROVE  /\ x \in DOMAIN inputIndex' /\ Inputs(x)' = {SingleTwin(y) : y \in Inputs(x)}
             /\ SizeOf(x)' <= SizeOf(x)
  <2>1. x \in DOMAIN inputIndex' /\ inputIndex'[x] = TwinInputs(x)
    BY <1>2, <1>6
  <2>2. Inputs(x)' = {SingleTwin(y) : y \in Inputs(x)}
    BY <1>1, <2>1, TwinInputsProper DEF Inputs
  <2>3. IsFiniteSet(Inputs(x)) /\ Cardinality(Inputs(x)) \in Nat
    BY DEF Measured
  <2> DEFINE f == [y \in Inputs(x) |-> SingleTwin(y)]
  <2>4. f \in Surjection(Inputs(x), Inputs(x)')
    BY <2>2 DEF Surjection
  <2>5. Cardinality(Inputs(x)') <= Cardinality(Inputs(x)) /\ IsFiniteSet(Inputs(x)')
    BY <2>3, <2>4, FS_Surjection
  <2>6. Cardinality(Inputs(x)') \in Nat
    BY <2>5, FS_CardinalityType
  <2>7. /\ SizeOf(x) = Cardinality(Inputs(x)) - 1
        /\ SizeOf(x)' = Cardinality(Inputs(x)') - 1
    BY <2>1 DEF SizeOf
  <2> QED
    BY <2>1, <2>2, <2>3, <2>5, <2>6, <2>7
<1>7. \A n \in DOMAIN made :
        /\ n \notin DOMAIN inputIndex /\ n \notin DOMAIN inputIndex'
        /\ Operands(n)' = {SingleTwin(y) : y \in Operands(n)}
  <2> TAKE n \in DOMAIN made
  <2>1. n \notin DOMAIN inputIndex /\ n \notin DOMAIN inputIndex' /\ DOMAIN made' = DOMAIN made
    BY <1>1, <1>2, OperandsAreGates
  <2>2. Operands(n) = {made[n].pair[1], made[n].pair[2]}
    BY <2>1 DEF Operands
  <2>3. Operands(n)' = {made'[n].pair[1], made'[n].pair[2]}
    BY <2>1 DEF Operands
  <2> DEFINE twins == <<SingleTwin(made[n].pair[1]), SingleTwin(made[n].pair[2])>>
  <2>4. twins[1] = SingleTwin(made[n].pair[1]) /\ twins[2] = SingleTwin(made[n].pair[2])
    OBVIOUS
  <2>5. made'[n] = [made[n] EXCEPT !.pair = twins]
    BY <1>2
  <2>6. made[n] \in [type : MultiType, pair : (DOMAIN table) \X (DOMAIN table)]
    BY <1>1 DEF TypeOK
  <2> HIDE DEF twins
  <2>7. made'[n].pair = twins
    BY <2>5, <2>6
  <2> QED
    BY <2>1, <2>2, <2>3, <2>4, <2>7
<1>8. ASSUME NEW x \in S
      PROVE  Operands(x)' \subseteq S /\ SizeOf(x)' <= SizeOf(x)
  <2>1. x \in DOMAIN table /\ ~Skipped(x) /\ Operands(x) \subseteq Under(output)
    BY <1>3 DEF OperandClosed
  <2>2. CASE x \in DOMAIN inputIndex
    <3>1. Operands(x) = Inputs(x) /\ Operands(x)' = Inputs(x)'
      BY <1>6, <2>1, <2>2 DEF Operands
    <3> QED
      BY <1>5, <1>6, <2>1, <2>2, <3>1
  <2>3. CASE x \in DOMAIN made
    <3>1. SizeOf(x)' = 1 /\ SizeOf(x) = 1
      BY <1>7, <2>3 DEF SizeOf
    <3> QED
      BY <1>5, <1>7, <2>1, <2>3, <3>1
  <2>4. CASE x \notin DOMAIN inputIndex /\ x \notin DOMAIN made
    <3>1. x \notin DOMAIN inputIndex' /\ x \notin DOMAIN made'
      BY <1>2, <2>4
    <3>2. Operands(x)' = {} /\ SizeOf(x)' = 1 /\ SizeOf(x) = 1
      BY <2>4, <3>1 DEF Operands, SizeOf
    <3> QED
      BY <3>2
  <2> QED
    BY <2>2, <2>3, <2>4
<1>9. S \in SUBSET Under(output) /\ S \subseteq DOMAIN table' /\ output' \in S
  BY <1>2, <1>3, <1>5
<1> HIDE DEF S
<1> QED
  BY <1>8, <1>9, PartIsNoLarger

LEMMA MadeStaysFinite == FiniteMade /\ [ConvertNext]_convertVars => FiniteMade'
<1> SUFFICES ASSUME FiniteMade, [ConvertNext]_convertVars PROVE FiniteMade'
  OBVIOUS
<1>1. ASSUME NEW k, CreateGate(k)
      PROVE  FiniteMade'
  <2>1. DOMAIN made' = DOMAIN made \cup {Fresh}
    BY <1>1 DEF CreateGate
  <2> QED
    BY <2>1, FS_AddElement DEF FiniteMade
<1>2. CASE UNCHANGED made
  BY <1>2 DEF FiniteMade
<1>3. CASE TakeSingleTwin
  <2>1. DOMAIN made' = DOMAIN made
    BY <1>3 DEF TakeSingleTwin
  <2> QED
    BY <2>1 DEF FiniteMade
<1> QED
  BY <1>1, <1>2, <1>3
     DEF ConvertNext, ConvertStep, PhaseStep, Returned, Collect, Reinsert, Exhausted, ReplaceInputs,
         InsertNewElements, Drained, convertVars, vars

\* No step of convertToSingleOptimized makes the circuit larger than getSize
\* estimated it before, neither in a phase nor when the network is copied.
THEOREM NeverLarger == ConvertSpec => SizeNeverGrows
<1>1. ConvertInit => FiniteMade
  BY FS_EmptySet DEF ConvertInit, StartFrom, FiniteMade
<1>2. ConvertInv /\ Measured /\ Measured' /\ [ConvertNext]_convertVars
        => [CircuitSize' <= CircuitSize]_convertVars
  <2> SUFFICES ASSUME ConvertInv, Measured, Measured', ConvertNext
               PROVE  CircuitSize' <= CircuitSize
    OBVIOUS
  <2>1. CASE UNCHANGED <<inputIndex, made, table, output>>
    BY <2>1, SameSize
  <2>2. ASSUME NEW k \in ordered, CreateGate(k), output' = output
        PROVE  CircuitSize' <= CircuitSize
    BY <2>2, CreateIsNoLarger
  <2>3. ASSUME NEW g \in pending, ReplaceInputs(g), output' = output
        PROVE  CircuitSize' <= CircuitSize
    BY <2>3, ReplaceIsNoLarger
  <2>4. CASE TakeSingleTwin
    BY <2>4, CopyIsNoLarger
  <2> QED
    BY <2>1, <2>2, <2>3, <2>4
       DEF ConvertNext, ConvertStep, PhaseStep, Returned, Collect, Reinsert, Exhausted,
           InsertNewElements, Drained, convertVars, vars
<1>3. ConvertInv /\ FiniteMade => Measured
  BY MeasuredAlways
<1> QED
  BY <1>1, <1>2, <1>3, MadeStaysFinite, ConvertInvariance, PTL DEF ConvertSpec, SizeNeverGrows
=============================================================================
