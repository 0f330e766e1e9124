--------------------------- MODULE PairExtraction ---------------------------
(***************************************************************************)
(* One phase of CircuitWithoutNotGate::convertToSingleOptimized: the many- *)
(* input gates of one type (MultiAnd or MultiOr) are broken up into        *)
(* two-input gates.  The phase records, for every pair of inputs, the      *)
(* multi-gates that have both (MultiGate::addOccurrencesRecursive), takes  *)
(* the pair with the longest list from a std::set ordered by list length,  *)
(* makes one AndGate (OrGate) for it and puts that gate in the place of    *)
(* the pair in every multi-gate of the list (MultiGate::replaceInputs).    *)
(* The lists are repaired lazily: an entry that an earlier replacement     *)
(* made stale stays until its pair reaches the front                       *)
(* (CircuitWithoutNotGate::updateOccurrences).                             *)
(*                                                                         *)
(* Abstractions.  A shared_ptr is the gate it points to.  The std::map and *)
(* std::set order keys by address among equals; addresses are the          *)
(* allocator's choice, so ties are resolved in every way.  The two ends of *)
(* a pair <<x, newGate>> are put in address order by the code, the same    *)
(* one for all multi-gates: the model always writes the new gate second.   *)
(* A multi-gate's input list and its inputIndex map are one function from  *)
(* the inputs to their places in the list.                                 *)
(***************************************************************************)
EXTENDS Naturals, FiniteSets

CONSTANTS
  Gate,         \* the gates of the network before the conversion
  NewGate,      \* the gates make_shared may return during the conversion
  Kind,         \* Kind[g]: the type of gate g, of Gate
  Network,      \* the networks a conversion may start from
  Assignment    \* the assignments of the circuit's input variables

MultiType == {"MULTI_AND", "MULTI_OR"}
MultiGate == {g \in Gate : Kind[g] \in MultiType}
Operand == Gate \cup NewGate

\* The function a gate of the given type computes from the functions of its
\* inputs.  A Boolean function is the set of assignments that make it true.
Combine(type, tables) ==
  IF type = "MULTI_AND" THEN {s \in Assignment : \A t \in tables : s \in t}
                        ELSE UNION tables

\* A network: the places of every multi-gate's inputs in its input list, and
\* the function each of its gates computes.
WellFormed(net) ==
  /\ DOMAIN net.table \subseteq Gate
  /\ net.table \in [DOMAIN net.table -> SUBSET Assignment]
  /\ DOMAIN net.inputIndex = MultiGate \cap DOMAIN net.table
  /\ net.inputIndex = [g \in DOMAIN net.inputIndex |-> net.inputIndex[g]]
  /\ \A g \in DOMAIN net.inputIndex :
       /\ DOMAIN net.inputIndex[g] \in (SUBSET DOMAIN net.table) \ {{}}
       /\ net.inputIndex[g] \in
            [DOMAIN net.inputIndex[g] -> 1 .. Cardinality(Gate)]
       /\ \A x, y \in DOMAIN net.inputIndex[g] :
            net.inputIndex[g][x] = net.inputIndex[g][y] => x = y
       /\ net.table[g] = Combine(Kind[g],
                                 {net.table[x] : x \in DOMAIN net.inputIndex[g]})

ASSUME NetworkAssumption ==
  /\ IsFiniteSet(Gate)
  /\ Gate \cap NewGate = {}
  /\ DOMAIN Kind = Gate
  /\ \A net \in Network : WellFormed(net)

VARIABLES
  phase,        \* the type of the multi-gates being broken up
  pc,           \* "collect", "pop", "replace", "done", and "returned" when
                \* the caller has no more phases
  inputIndex,   \* multi-gate -> its inputs -> their places in the list
  place,        \* a place behind the last element of every input list
  made,         \* new two-input gate -> its type and the pair it combines
  table,        \* gate -> the function it computes
  occurrences,  \* occurrenceList: pair of inputs -> multi-gates recorded
  ordered,      \* occurrencesOrdered: the pairs still waiting
  highest,      \* the pair being extracted
  newGate,      \* the gate made for it
  pending,      \* the multi-gates of its list still to be rewritten
  newElements   \* pairs with newGate recorded for the first time

vars == <<phase, pc, inputIndex, place, made, table, occurrences, ordered,
          highest, newGate, pending, newElements>>

-----------------------------------------------------------------------------
Inputs(g) == DOMAIN inputIndex[g]
OfPhase == {g \in DOMAIN inputIndex : Kind[g] = phase}

HasInput(g, x) == x \in DOMAIN inputIndex[g]
HasPair(g, k) == HasInput(g, k[1]) /\ HasInput(g, k[2])

\* The pairs the two nested loops over the input list enumerate.
ListPairs(g) ==
  {k \in Inputs(g) \X Inputs(g) : inputIndex[g][k[1]] < inputIndex[g][k[2]]}

\* Mutant: updateOccurrences forgotten.
CurrentUnrepaired(k) == occurrences[k]

\* The elements of a list that updateOccurrences keeps.
Current(k) == {g \in occurrences[k] : HasPair(g, k)}

Size(k) == Cardinality(occurrences[k])

\* begin() of the ordered set: no waiting pair has a longer list.
FrontPair(k) == k \in ordered /\ \A j \in ordered : Size(j) <= Size(k)

\* Mutant: the length from before the repair is compared.
StillHighestStale(k) == \A j \in ordered \ {k} : Size(j) <= Size(k)

\* After the repair of k's list, is k still no shorter than the next pair?
StillHighest(k) == \A j \in ordered \ {k} : Size(j) <= Cardinality(Current(k))

-----------------------------------------------------------------------------
StartFrom(net) ==
  /\ inputIndex = net.inputIndex
  /\ table = net.table
  /\ place = 1 + Cardinality(Gate)
  /\ pc = "collect"
  /\ made = << >>
  /\ occurrences = << >>
  /\ ordered = {}
  /\ highest = << >>
  /\ newGate = << >>
  /\ pending = {}
  /\ newElements = {}

Init ==
  /\ phase \in MultiType
  /\ \E net \in Network : StartFrom(net)

\* addOccurrencesRecursive from the output, then every pair into the set.
Collect ==
  /\ pc = "collect"
  /\ LET keys == UNION {ListPairs(g) : g \in OfPhase}
     IN  /\ occurrences' = [k \in keys |-> {g \in OfPhase : k \in ListPairs(g)}]
         /\ ordered' = keys
  /\ pc' = "pop"
  /\ UNCHANGED <<phase, inputIndex, place, made, table, highest, newGate,
                 pending, newElements>>

\* The repaired list has become shorter than the next one: back into the set.
Reinsert(k) ==
  /\ pc = "pop"
  /\ FrontPair(k)
  /\ ~StillHighest(k)
  /\ occurrences' = [occurrences EXCEPT ![k] = Current(k)]
  /\ UNCHANGED <<phase, pc, inputIndex, place, made, table, ordered,
                 highest, newGate, pending, newElements>>

\* The longest list is empty, so all are: occurrencesOrdered.clear(); break.
Exhausted(k) ==
  /\ pc = "pop"
  /\ FrontPair(k)
  /\ StillHighest(k)
  /\ Current(k) = {}
  /\ occurrences' = [occurrences EXCEPT ![k] = {}]
  /\ ordered' = {}
  /\ pc' = "done"
  /\ UNCHANGED <<phase, inputIndex, place, made, table, highest, newGate,
                 pending, newElements>>

\* Mutant: the address of an earlier new gate comes back.
FreshReused == CHOOSE n \in NewGate : TRUE

\* An object make_shared has not returned yet; which one makes no difference.
Fresh == CHOOSE n \in NewGate : n \notin DOMAIN made

\* Mutant: the gate of the other phase.
CombinationOther(k) ==
  Combine(CHOOSE t \in MultiType : t # phase, {table[k[1]], table[k[2]]})

\* What a two-input gate of the phase's type computes from a pair.
Combination(k) == Combine(phase, {table[k[1]], table[k[2]]})

\* make_shared<AndGate> or make_shared<OrGate> for the pair.  NewGate is the
\* bound on the gates one conversion makes.
CreateGate(k) ==
  /\ pc = "pop"
  /\ ~(NewGate \subseteq DOMAIN made)
  /\ FrontPair(k)
  /\ StillHighest(k)
  /\ Current(k) # {}
  /\ occurrences' = [occurrences EXCEPT ![k] = Current(k)]
  /\ ordered' = ordered \ {k}
  /\ highest' = k
  /\ newGate' = Fresh
  /\ made' = [x \in DOMAIN made \cup {Fresh} |->
                IF x = Fresh THEN [type |-> phase, pair |-> k] ELSE made[x]]
  /\ table' = [x \in DOMAIN table \cup {Fresh} |->
                 IF x = Fresh THEN Combination(k) ELSE table[x]]
  /\ pending' = Current(k)
  /\ newElements' = {}
  /\ place' = place + 1
  /\ pc' = "replace"
  /\ UNCHANGED <<phase, inputIndex>>

\* Mutant: only the first input of the pair is removed.
RestWithoutFirst(g) == Inputs(g) \ {highest[1]}

\* The inputs that stay when the pair is removed.
Rest(g) == Inputs(g) \ {highest[1], highest[2]}

\* Mutant: only pairs without a list are recorded.
NewPairsUnknown(g) == {<<x, newGate>> : x \in Rest(g)} \ DOMAIN occurrences

\* The pairs replaceInputs appends the multi-gate to.
NewPairs(g) == {<<x, newGate>> : x \in Rest(g)}

\* MultiGate::replaceInputs: the pair's links go, the pairs of the remaining
\* inputs with the new gate are recorded, the new gate is appended.
ReplaceInputs(g) ==
  /\ pc = "replace"
  /\ g \in pending
  /\ LET known == DOMAIN occurrences
     IN  /\ occurrences' = [k \in known \cup NewPairs(g) |->
                              (IF k \in known THEN occurrences[k] ELSE {})
                                \cup (IF k \in NewPairs(g) THEN {g} ELSE {})]
         /\ newElements' = newElements \cup (NewPairs(g) \ known)
  /\ inputIndex' = [inputIndex EXCEPT ![g] =
                      [x \in Rest(g) \cup {newGate} |->
                         IF x = newGate THEN place ELSE @[x]]]
  /\ pending' = pending \ {g}
  /\ UNCHANGED <<phase, pc, place, made, table, ordered, highest, newGate>>

\* The loop that puts the new pairs into the ordered set.
InsertNewElements ==
  /\ pc = "replace"
  /\ pending = {}
  /\ ordered' = ordered \cup newElements
  /\ newElements' = {}
  /\ pc' = "pop"
  /\ UNCHANGED <<phase, inputIndex, place, made, table, occurrences,
                 highest, newGate, pending>>

\* while(!occurrencesOrdered.empty()) ends the phase.
Drained ==
  /\ pc = "pop"
  /\ ordered = {}
  /\ pc' = "done"
  /\ UNCHANGED <<phase, inputIndex, place, made, table, occurrences,
                 ordered, highest, newGate, pending, newElements>>

PhaseStep ==
  \/ Collect
  \/ \E k \in ordered : \/ Reinsert(k)
                        \/ Exhausted(k)
                        \/ CreateGate(k)
  \/ \E g \in pending : ReplaceInputs(g)
  \/ InsertNewElements
  \/ Drained

\* The phase returns to its caller.
Finished == pc = "done" /\ UNCHANGED vars

Next == PhaseStep \/ Finished

\* One thread runs the loop, so it goes on while it can.
Spec == Init /\ [][Next]_vars /\ WF_vars(PhaseStep)
-----------------------------------------------------------------------------
\* The variables keep their shapes: lists, recorded pairs and functions speak
\* of existing gates, and the working variables of a replacement are set
\* while one is under way.
TypeOK ==
  /\ phase \in MultiType
  /\ pc \in {"collect", "pop", "replace", "done", "returned"}
  /\ DOMAIN inputIndex = MultiGate \cap DOMAIN table
  /\ \A g \in DOMAIN inputIndex :
       /\ Inputs(g) \subseteq DOMAIN table
       /\ inputIndex[g] \in [Inputs(g) -> 1 .. place]
  /\ place \in Nat \ {0}
  /\ DOMAIN made = NewGate \cap DOMAIN table
  /\ made \in [DOMAIN made -> [type : MultiType, pair : (DOMAIN table) \X (DOMAIN table)]]
  /\ DOMAIN table \subseteq Operand
  /\ table \in [DOMAIN table -> SUBSET Assignment]
  /\ DOMAIN occurrences \subseteq (DOMAIN table) \X (DOMAIN table)
  /\ occurrences \in [DOMAIN occurrences -> SUBSET OfPhase]
  /\ ordered \subseteq DOMAIN occurrences
  /\ newElements \subseteq DOMAIN occurrences
  /\ pending \subseteq OfPhase
  /\ pc = "replace" => highest \in DOMAIN occurrences /\ newGate \in DOMAIN made

\* The inductive invariant behind the properties below.  Its conjuncts, by
\* the step of the loop they are about:
\* no two inputs share a place in a list, and the new gate goes behind all;
ListsInjective ==
  /\ \A g \in DOMAIN inputIndex : \A x, y \in Inputs(g) :
       inputIndex[g][x] = inputIndex[g][y] => x = y
  /\ pc = "replace" => \A g \in pending : \A x \in Inputs(g) : inputIndex[g][x] < place

\* a multi-gate never runs out of inputs, and pairs have two different ones;
PairsProper ==
  /\ \A g \in DOMAIN inputIndex : Inputs(g) # {}
  /\ \A k \in DOMAIN occurrences : k[1] # k[2]

\* while a pair is being replaced, the gates still to be rewritten have the
\* pair and not yet the new gate, exactly the pairs with the new gate are the
\* new elements, and the new gate computes what the pair does;
Replacing ==
  pc = "replace" =>
    /\ \A g \in pending : HasPair(g, highest) /\ newGate \notin Inputs(g)
    /\ \A k \in DOMAIN occurrences :
         newGate \in {k[1], k[2]} <=> k \in newElements
    /\ \A k \in newElements : k \notin ordered /\ occurrences[k] \cap pending = {}
    /\ highest \notin ordered \cup newElements
    /\ table[newGate] = Combination(highest)

\* between replacements nothing is left over, nor is anything at the end;
BetweenReplacements ==
  /\ pc # "replace" => pending = {} /\ newElements = {}
  /\ pc = "done" => ordered = {}

\* a pair of inputs is recorded in one direction or the other, and waits;
Waiting(g, k) ==
  /\ k \in DOMAIN occurrences
  /\ g \in occurrences[k]
  /\ k \in ordered \cup newElements \/ (k = highest /\ g \in pending)

PairsRecorded ==
  pc \in {"pop", "replace"} =>
    \A g \in OfPhase : \A x, y \in Inputs(g) :
      x # y => Waiting(g, <<x, y>>) \/ Waiting(g, <<y, x>>)

\* a pair that no longer waits is gone from every multi-gate that is listed.
ExtractedGone ==
  \A k \in DOMAIN occurrences \ (ordered \cup newElements) : \A g \in Current(k) :
    \/ pc = "done"
    \/ k = highest /\ g \in pending

\* replaceInputs looks both gates of the pair up in inputIndex and uses the
\* iterators without testing them, so every multi-gate it is still to be
\* called on must have both, whatever the earlier calls have removed.
ReplaceSafe ==
  pc = "replace" => /\ highest[1] # highest[2]
                    /\ \A g \in pending : HasPair(g, highest)

\* A multi-gate enters the list of a pair once: replaceInputs never appends
\* it to a list that has it already.  (A second entry would make the loop
\* over the list replace the pair twice in one gate.)
ListedOnce ==
  [][\A g \in pending \ pending' : \A k \in DOMAIN occurrences :
       g \in occurrences[k] => k \notin NewPairs(g)]_vars

\* Lengths of waiting lists are the sort keys of a std::set: while new pairs
\* are being recorded, no list that is in the set may change.
SortKeysStable ==
  [][pc = "replace" => \A k \in ordered : occurrences'[k] = occurrences[k]]_vars

\* Although lists are repaired only at the front, the pair that gets a gate
\* is one that most multi-gates still have, among all recorded pairs.
MostFrequentFirst ==
  [][made' # made =>
       \A k \in DOMAIN occurrences :
         Cardinality(Current(k)) <= Cardinality(pending')]_vars

\* The callers replace a finished multi-gate by its only input (MultiAnd and
\* MultiOr::getSingleTwin): when the loop ends, also by the early exit on an
\* empty list, every multi-gate of the type has exactly one input left.
OneInputLeft ==
  pc = "done" => \A g \in OfPhase : \E x \in Operand : Inputs(g) = {x}

\* Breaking up a multi-gate does not change what it computes: at every point
\* each multi-gate combines its inputs of the moment to its old function.
SameFunction ==
  \A g \in DOMAIN inputIndex :
    table[g] = Combine(Kind[g], {table[x] : x \in Inputs(g)})

\* All of it: what every step of the phase preserves.
Inv == /\ TypeOK
       /\ ListsInjective
       /\ PairsProper
       /\ Replacing
       /\ BetweenReplacements
       /\ PairsRecorded
       /\ ExtractedGone
       /\ OneInputLeft
       /\ SameFunction
=============================================================================
