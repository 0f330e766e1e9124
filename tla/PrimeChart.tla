----------------------------- MODULE PrimeChart -----------------------------
(***************************************************************************)
(* Quine_McClusky/PrimeChart: given, for every minterm, the list of prime  *)
(* implicants that cover it, find a smallest set of primes that covers     *)
(* every minterm.  Essential primes are taken first; then a depth-first    *)
(* search (buildSubtreeFromPosition) branches on the first minterm that is *)
(* not covered, tries its primes one by one, gives up a branch that has    *)
(* more terms than the best cover, and undoes each choice: it unmarks just *)
(* the minterms that this choice had marked.                               *)
(*                                                                         *)
(* Abstractions.  The recursion is a stack of frames, one per call that    *)
(* found an uncovered minterm.  A covering list is a set: the order in     *)
(* which a call tries its primes is left open.                             *)
(***************************************************************************)
EXTENDS Naturals, Sequences, FiniteSets

CONSTANTS
  Implicant,    \* the implicants a chart may hold
  UintMax,      \* UINT_MAX, the number of terms before a cover is found
  Charts        \* the charts a search may start from

\* A chart: the minterms (by number) each implicant covers.
ASSUME ChartAssumption ==
  /\ IsFiniteSet(Implicant)
  /\ UintMax \in Nat /\ Cardinality(Implicant) < UintMax
  /\ \A chart \in Charts :
       /\ chart.numOfMinterms \in Nat
       /\ chart.mintermIDs \in
            [Implicant -> SUBSET (0 .. chart.numOfMinterms - 1)]
       /\ \A i \in 0 .. chart.numOfMinterms - 1 :
            \E p \in Implicant : i \in chart.mintermIDs[p]

VARIABLES
  mintermIDs,           \* implicant -> the minterms it covers
  coveringImplicants,   \* minterm -> the implicants listed for it
  covered,              \* the minterms marked as covered
  currentDNF,           \* the implicants of the branch being explored
  frames,               \* the calls under way, outermost first
  position,             \* where the next call starts to look
  bestDNF,              \* the best cover so far
  bestNumOfTerms,       \* and its length
  pc                    \* "essential", "build", "loop", "undo" or "found"

chartVars == <<mintermIDs, coveringImplicants>>
searchVars == <<covered, currentDNF, frames, position, bestDNF,
                bestNumOfTerms, pc>>
primeVars == <<chartVars, searchVars>>

-----------------------------------------------------------------------------
Minterms == DOMAIN coveringImplicants
Current == {currentDNF[n] : n \in DOMAIN currentDNF}
CoveredBy(terms) == UNION {mintermIDs[p] : p \in terms}
Covers(terms) == Minterms \subseteq CoveredBy(terms)

Top == frames[Len(frames)]
Pop(s) == SubSeq(s, 1, Len(s) - 1)

\* The minterms a call that starts at the position finds uncovered.
Uncovered == {i \in Minterms : i >= position /\ i \notin covered}

-----------------------------------------------------------------------------
\* The constructor, and addToChart for every minterm of every implicant.
Listed(terms, ids, n) ==
  [i \in 0 .. n - 1 |-> {p \in terms : i \in ids[p]}]

StartSearch ==
  /\ covered = {}
  /\ currentDNF = << >>
  /\ frames = << >>
  /\ position = 0
  /\ bestDNF = << >>
  /\ bestNumOfTerms = UintMax

Init ==
  /\ \E chart \in Charts :
       /\ mintermIDs = chart.mintermIDs
       /\ coveringImplicants =
            Listed(Implicant, chart.mintermIDs, chart.numOfMinterms)
  /\ StartSearch
  /\ pc = "essential"

\* One turn of the loop of getEssentialPrimes: a minterm that only one
\* implicant covers makes that implicant essential.
ListEssential ==
  /\ pc = "essential"
  /\ position \in Minterms
  /\ position' = position + 1
  /\ IF position \notin covered /\ Cardinality(coveringImplicants[position]) = 1
       THEN \E p \in coveringImplicants[position] :
              /\ currentDNF' = Append(currentDNF, p)
              /\ covered' = covered \cup mintermIDs[p]
       ELSE UNCHANGED <<currentDNF, covered>>
  /\ UNCHANGED <<chartVars, frames, bestDNF, bestNumOfTerms, pc>>

\* getMinimalDNF calls buildSubtreeFromPosition(essentialPrimes, 0).
EndEssential ==
  /\ pc = "essential"
  /\ position \notin Minterms
  /\ position' = 0
  /\ pc' = "build"
  /\ UNCHANGED <<chartVars, covered, currentDNF, frames, bestDNF, bestNumOfTerms>>

\* The call finds its minterm and enters the loop over the covering list.
Branch ==
  /\ pc = "build"
  /\ \E i \in Uncovered :
       /\ \A j \in Uncovered : i <= j
       /\ frames' = Append(frames, [at |-> i, untried |-> coveringImplicants[i],
                                    setToCovered |-> {}])
  /\ pc' = "loop"
  /\ UNCHANGED <<chartVars, covered, currentDNF, position, bestDNF, bestNumOfTerms>>

\* A call returns to the loop that made it, which undoes its choice.
Returned(outer) == IF outer = << >> THEN "found" ELSE "undo"

\* The comparison with the best cover.
Better == Len(currentDNF) < bestNumOfTerms

\* Every minterm from the position on is covered: compare with the best.
Leaf ==
  /\ pc = "build"
  /\ Uncovered = {}
  /\ IF Better THEN /\ bestDNF' = currentDNF
                    /\ bestNumOfTerms' = Len(currentDNF)
               ELSE UNCHANGED <<bestDNF, bestNumOfTerms>>
  /\ pc' = Returned(frames)
  /\ UNCHANGED <<chartVars, covered, currentDNF, frames, position>>

NextPosition(frame) == frame.at + 1

\* Mutant: a branch with as many terms as the best, less one, is given up too.
WorthwhileStrict == Len(currentDNF) + 2 < bestNumOfTerms

\* After the choice, can the branch still be as short as the best cover?
Worthwhile == Len(currentDNF) + 1 <= bestNumOfTerms

\* Mutants: the prime stays on the list of those to try; the minterms to
\* unmark include those that were marked before.
NoteChoiceRepeatedly(p) ==
  frames' = [frames EXCEPT ![Len(frames)].setToCovered = mintermIDs[p] \ covered]

NoteChoiceAll(p) ==
  frames' = [frames EXCEPT ![Len(frames)] =
               [at |-> Top.at, untried |-> Top.untried \ {p},
                setToCovered |-> mintermIDs[p]]]

\* The frame notes the choice and the minterms it newly covers.
NoteChoice(p) ==
  frames' = [frames EXCEPT ![Len(frames)] =
               [at |-> Top.at, untried |-> Top.untried \ {p},
                setToCovered |-> mintermIDs[p] \ covered]]

Try(p) ==
  /\ pc = "loop"
  /\ p \in Top.untried
  /\ currentDNF' = Append(currentDNF, p)
  /\ covered' = covered \cup mintermIDs[p]
  /\ NoteChoice(p)
  /\ IF Worthwhile THEN pc' = "build" /\ position' = NextPosition(Top)
                   ELSE pc' = "undo" /\ position' = position
  /\ UNCHANGED <<chartVars, bestDNF, bestNumOfTerms>>

Undo ==
  /\ pc = "undo"
  /\ covered' = covered \ Top.setToCovered
  /\ currentDNF' = Pop(currentDNF)
  /\ pc' = "loop"
  /\ UNCHANGED <<chartVars, frames, position, bestDNF, bestNumOfTerms>>

\* The list is exhausted: the call returns.
EndLoop ==
  /\ pc = "loop"
  /\ Top.untried = {}
  /\ frames' = Pop(frames)
  /\ pc' = Returned(Pop(frames))
  /\ UNCHANGED <<chartVars, covered, currentDNF, position, bestDNF, bestNumOfTerms>>

SearchStep ==
  \/ ListEssential
  \/ EndEssential
  \/ Branch
  \/ Leaf
  \/ \E p \in DOMAIN mintermIDs : Try(p)
  \/ Undo
  \/ EndLoop

Found == pc = "found" /\ UNCHANGED primeVars

Next == SearchStep \/ Found

\* One thread runs the search.
Spec == Init /\ [][Next]_primeVars /\ WF_primeVars(SearchStep)
-----------------------------------------------------------------------------
Frame == [at : Nat, untried : SUBSET Implicant, setToCovered : SUBSET Nat]

\* The variables keep their shapes; a loop or an undo has a frame to work on.
TypeOK ==
  /\ mintermIDs \in [DOMAIN mintermIDs -> SUBSET Nat]
  /\ \A i \in Minterms : coveringImplicants[i] \subseteq DOMAIN mintermIDs
  /\ covered \subseteq Minterms
  /\ currentDNF \in Seq(DOMAIN mintermIDs)
  /\ frames \in Seq(Frame)
  /\ position \in Nat
  /\ bestDNF \in Seq(DOMAIN mintermIDs)
  /\ bestNumOfTerms \in 0 .. UintMax
  /\ pc \in {"essential", "build", "loop", "undo", "found"}
  /\ pc \in {"loop", "undo"} => frames # << >>
  /\ pc \in {"essential", "found"} => frames = << >>

\* Unmarking after a branch restores exactly what was covered before: the
\* marks are always those of the terms on the current branch, however the
\* primes of nested calls overlap.
CoveredExact == covered = CoveredBy(Current) \cap Minterms

\* A call looks for uncovered minterms only from its position on: all before
\* must be covered, and so a recorded cover misses none.
BestIsCover ==
  /\ pc = "build" => \A i \in Minterms : i < position => i \in covered
  /\ bestNumOfTerms # UintMax =>
       /\ Covers({bestDNF[n] : n \in DOMAIN bestDNF})
       /\ Len(bestDNF) = bestNumOfTerms

\* No prime is taken twice, although an essential prime, or one of an outer
\* call, may be on the covering lists of later minterms.
NoTermTwice ==
  \A m, n \in DOMAIN currentDNF : currentDNF[m] = currentDNF[n] => m = n

\* The implicants on the chart: those on some covering list.
Primes == UNION {coveringImplicants[i] : i \in Minterms}

\* Cutting branches longer than the best cover, and taking the essential
\* primes first, loses no smallest cover.
Minimum ==
  pc = "found" =>
    \A terms \in SUBSET Primes :
      Covers(terms) => bestNumOfTerms <= Cardinality(terms)

-----------------------------------------------------------------------------
\* The parts of the inductive invariant that are not properties themselves.

\* A chart lists its implicants exactly for the minterms they cover, and
\* leaves no minterm without one.
ChartOK ==
  /\ Minterms \subseteq Nat
  /\ DOMAIN mintermIDs \subseteq Implicant
  /\ mintermIDs \in [DOMAIN mintermIDs -> SUBSET Minterms]
  /\ Primes \subseteq DOMAIN mintermIDs
  /\ \A i \in Minterms : /\ coveringImplicants[i] # {}
                         /\ coveringImplicants[i] = {p \in Primes : i \in mintermIDs[p]}

\* The frames whose choice is on the branch, and the terms before the first.
NumOfChoices == IF pc = "loop" THEN Len(frames) - 1 ELSE Len(frames)
Base == Len(currentDNF) - NumOfChoices
Prefix(n) == {currentDNF[m] : m \in 1 .. n}
Before(k) == Prefix(Base + k - 1)

\* A frame works on the first minterm that the terms before its own leave
\* uncovered, and has noted just what its choice covers beyond them.
FrameExact(k) ==
  /\ frames[k].at \in Minterms \ CoveredBy(Before(k))
  /\ \A i \in Minterms : i < frames[k].at => i \in CoveredBy(Before(k))
  /\ frames[k].untried \subseteq coveringImplicants[frames[k].at]
  /\ k <= NumOfChoices =>
       frames[k].setToCovered =
         mintermIDs[currentDNF[Base + k]] \ CoveredBy(Before(k))

FramesExact ==
  /\ NumOfChoices <= Len(currentDNF)
  /\ \A k \in DOMAIN frames : FrameExact(k)

\* The search may still come to the terms: they include the whole branch and
\* it is being extended, or they include the branch up to a frame and one of
\* its untried implicants.
Promising(terms) ==
  \/ pc \in {"essential", "build"} /\ Current \subseteq terms
  \/ \E k \in DOMAIN frames : /\ Before(k) \subseteq terms
                              /\ frames[k].untried \cap terms # {}

\* No cover shorter than the best one has been passed over.
NoneLost ==
  \A terms \in SUBSET Primes :
    Covers(terms) => bestNumOfTerms <= Cardinality(terms) \/ Promising(terms)

\* The inductive invariant.
SearchInv == /\ TypeOK
             /\ ChartOK
             /\ CoveredExact
             /\ FramesExact
             /\ NoTermTwice
             /\ BestIsCover
             /\ NoneLost

\* The search comes to an end.
SearchEnds == <>(pc = "found")
=============================================================================
