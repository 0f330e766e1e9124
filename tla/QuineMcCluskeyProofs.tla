------------------------ MODULE QuineMcCluskeyProofs ------------------------
(***************************************************************************)
(* Proofs about the chart's search (PrimeChart) and about the whole        *)
(* minimisation (QuineMcCluskey), for every chart, every finite set of     *)
(* variables and every disjunctive normal form.                            *)
(*   - SearchInv is inductive; exact backtracking, the assertion of the    *)
(*     code and the optimality of the cover follow from it.                *)
(*   - The numbers of the minterms are exact, and the clauses found are    *)
(*     equivalent to those given and as few as possible.                   *)
(***************************************************************************)
EXTENDS QuineMcCluskey, FiniteSetTheorems, SequenceTheorems, FunctionTheorems, TLAPS

-----------------------------------------------------------------------------
\* The search.

\* The cover that a set of terms gives grows with the set.
LEMMA CoveredByMonotonic ==
  ASSUME NEW S, NEW T, S \subseteq T
  PROVE  CoveredBy(S) \subseteq CoveredBy(T)
BY DEF CoveredBy

LEMMA CoveredByAdd ==
  ASSUME NEW S, NEW p
  PROVE  CoveredBy(S \cup {p}) = CoveredBy(S) \cup mintermIDs[p]
<1> CoveredBy({p}) = mintermIDs[p]
  BY DEF CoveredBy
<1> QED
  BY DEF CoveredBy

\* The terms of a branch are its longest prefix, and a prefix with one more
\* term has one more element.
LEMMA PrefixFacts ==
  ASSUME TypeOK
  PROVE  /\ Current = Prefix(Len(currentDNF))
         /\ Len(currentDNF) \in Nat
         /\ \A n \in Nat : Prefix(n + 1) = Prefix(n) \cup {currentDNF[n + 1]}
         /\ \A m, n \in Nat : m <= n => Prefix(m) \subseteq Prefix(n)
<1>1. DOMAIN currentDNF = 1 .. Len(currentDNF) /\ Len(currentDNF) \in Nat
  BY DEF TypeOK
<1>2. Current = Prefix(Len(currentDNF))
  BY <1>1 DEF Current, Prefix
<1>3. ASSUME NEW n \in Nat
      PROVE  Prefix(n + 1) = Prefix(n) \cup {currentDNF[n + 1]}
  <2>1. 1 .. n + 1 = (1 .. n) \cup {n + 1}
    OBVIOUS
  <2> QED
    BY <2>1 DEF Prefix
<1>4. ASSUME NEW m \in Nat, NEW n \in Nat, m <= n
      PROVE  Prefix(m) \subseteq Prefix(n)
  <2>1. 1 .. m \subseteq 1 .. n
    BY <1>4
  <2> QED
    BY <2>1 DEF Prefix
<1> QED
  BY <1>1, <1>2, <1>3, <1>4

\* Taking an implicant (currentDNF.push_back) extends the branch and keeps its
\* prefixes.
LEMMA PushFacts ==
  ASSUME TypeOK, NEW p \in DOMAIN mintermIDs, currentDNF' = Append(currentDNF, p)
  PROVE  /\ currentDNF' \in Seq(DOMAIN mintermIDs)
         /\ Len(currentDNF') = Len(currentDNF) + 1
         /\ \A n \in 1 .. Len(currentDNF) : currentDNF'[n] = currentDNF[n]
         /\ currentDNF'[Len(currentDNF) + 1] = p
         /\ \A n \in 0 .. Len(currentDNF) : Prefix(n)' = Prefix(n)
         /\ Current' = Current \cup {p}
<1>1. /\ currentDNF' \in Seq(DOMAIN mintermIDs)
      /\ Len(currentDNF) \in Nat
      /\ Len(currentDNF') = Len(currentDNF) + 1
      /\ \A n \in 1 .. Len(currentDNF) : currentDNF'[n] = currentDNF[n]
      /\ currentDNF'[Len(currentDNF) + 1] = p
  BY AppendProperties DEF TypeOK
<1>2. ASSUME NEW n \in 0 .. Len(currentDNF)
      PROVE  Prefix(n)' = Prefix(n)
  <2>1. \A m \in 1 .. n : currentDNF'[m] = currentDNF[m]
    BY <1>1
  <2> QED
    BY <2>1 DEF Prefix
<1>3. DOMAIN currentDNF' = DOMAIN currentDNF \cup {Len(currentDNF) + 1}
  <2>1. DOMAIN currentDNF' = 1 .. Len(currentDNF) + 1
    BY <1>1
  <2>2. DOMAIN currentDNF = 1 .. Len(currentDNF)
    BY DEF TypeOK
  <2> QED
    BY <1>1, <2>1, <2>2
<1>4. \A n \in DOMAIN currentDNF : currentDNF'[n] = currentDNF[n]
  BY <1>1 DEF TypeOK
<1>5. Current' = Current \cup {p}
  BY <1>1, <1>3, <1>4 DEF Current
<1> QED
  BY <1>1, <1>2, <1>5

\* A sequence without its last element.
LEMMA PopProperties ==
  ASSUME NEW S, NEW s \in Seq(S), s # << >>
  PROVE  /\ Len(s) \in Nat \ {0}
         /\ Pop(s) \in Seq(S)
         /\ Len(Pop(s)) = Len(s) - 1
         /\ \A n \in 1 .. Len(s) - 1 : Pop(s)[n] = s[n]
<1>1. Len(s) \in Nat \ {0}
  BY EmptySeq
<1>2. PICK m \in Nat : m = Len(s) - 1
  BY <1>1
<1>3. 1 \in Int /\ m \in Int /\ \A n \in 1 .. m : s[n] \in S
  BY <1>1, <1>2, ElementOfSeq
<1>4. /\ SubSeq(s, 1, m) \in Seq(S)
      /\ Len(SubSeq(s, 1, m)) = IF 1 <= m THEN m - 1 + 1 ELSE 0
      /\ \A i \in 1 .. m - 1 + 1 : SubSeq(s, 1, m)[i] = s[1 + i - 1]
  BY <1>3, SubSeqProperties
<1>5. Pop(s) = SubSeq(s, 1, m)
  BY <1>2 DEF Pop
<1> QED
  BY <1>1, <1>2, <1>4, <1>5

\* Undoing a choice (currentDNF.pop_back) leaves the prefixes of the branch.
LEMMA PopFacts ==
  ASSUME TypeOK, currentDNF # << >>, currentDNF' = Pop(currentDNF)
  PROVE  /\ Len(currentDNF) \in Nat \ {0}
         /\ currentDNF' \in Seq(DOMAIN mintermIDs)
         /\ Len(currentDNF') = Len(currentDNF) - 1
         /\ \A n \in 1 .. Len(currentDNF) - 1 : currentDNF'[n] = currentDNF[n]
         /\ \A n \in 0 .. Len(currentDNF) - 1 : Prefix(n)' = Prefix(n)
         /\ Current' = Prefix(Len(currentDNF) - 1)
<1>1. /\ Len(currentDNF) \in Nat \ {0}
      /\ currentDNF' \in Seq(DOMAIN mintermIDs)
      /\ Len(currentDNF') = Len(currentDNF) - 1
      /\ \A n \in 1 .. Len(currentDNF) - 1 : currentDNF'[n] = currentDNF[n]
  BY PopProperties DEF TypeOK
<1>2. ASSUME NEW n \in 0 .. Len(currentDNF) - 1
      PROVE  Prefix(n)' = Prefix(n)
  <2>1. \A m \in 1 .. n : currentDNF'[m] = currentDNF[m]
    BY <1>1
  <2> QED
    BY <2>1 DEF Prefix
<1>3. Current' = Prefix(Len(currentDNF) - 1)
  <2>1. DOMAIN currentDNF' = 1 .. Len(currentDNF) - 1
    BY <1>1
  <2> QED
    BY <1>1, <2>1 DEF Current, Prefix
<1> QED
  BY <1>1, <1>2, <1>3

\* No action changes the chart.
LEMMA ChartKept ==
  ASSUME UNCHANGED chartVars, ChartOK
  PROVE  /\ ChartOK'
         /\ Minterms' = Minterms /\ Primes' = Primes
         /\ mintermIDs' = mintermIDs
         /\ coveringImplicants' = coveringImplicants
         /\ \A S : CoveredBy(S)' = CoveredBy(S) /\ Covers(S)' = Covers(S)
BY DEF chartVars, ChartOK, Minterms, Primes, CoveredBy, Covers

\* The implicants on a chart are finitely many.
LEMMA PrimesFinite ==
  ASSUME ChartOK
  PROVE  IsFiniteSet(Primes)
BY ChartAssumption, FS_Subset DEF ChartOK

\* A term that covers something new is not on the branch yet.
LEMMA NewTerm ==
  ASSUME TypeOK, ChartOK, CoveredExact, NEW i \in Minterms \ covered,
         NEW p \in Primes, i \in mintermIDs[p]
  PROVE  p \notin Current
BY DEF CoveredExact, CoveredBy

LEMMA PushNewTerm ==
  ASSUME TypeOK, ChartOK, NoTermTwice, CoveredExact, UNCHANGED chartVars,
         NEW p \in Primes \ Current, currentDNF' = Append(currentDNF, p),
         covered' = covered \cup mintermIDs[p]
  PROVE  NoTermTwice' /\ CoveredExact' /\ covered' \subseteq Minterms'
<1> USE ChartKept
<1>1. p \in DOMAIN mintermIDs
  BY DEF ChartOK
<1>2. NoTermTwice'
  <2>1. DOMAIN currentDNF = 1 .. Len(currentDNF) /\ Len(currentDNF) \in Nat
    BY DEF TypeOK
  <2>2. DOMAIN currentDNF' = 1 .. Len(currentDNF) + 1
    BY <1>1, <2>1, PushFacts
  <2>3. \A n \in 1 .. Len(currentDNF) : currentDNF'[n] = currentDNF[n] /\ currentDNF[n] # p
    BY <1>1, <2>1, PushFacts DEF Current
  <2>4. currentDNF'[Len(currentDNF) + 1] = p
    BY <1>1, PushFacts
  <2> QED
    BY <2>1, <2>2, <2>3, <2>4 DEF NoTermTwice
<1>3. mintermIDs[p] \subseteq Minterms /\ covered \subseteq Minterms
  BY DEF ChartOK, TypeOK
<1>4. CoveredBy(Current)' = CoveredBy(Current) \cup mintermIDs[p]
  <2>1. Current' = Current \cup {p}
    BY <1>1, PushFacts
  <2>2. CoveredBy(Current)' = CoveredBy(Current \cup {p})
    BY <2>1 DEF CoveredBy
  <2> QED
    BY <2>2, CoveredByAdd
<1> QED
  BY <1>2, <1>3, <1>4 DEF CoveredExact

\* A branch has as many terms as it is long, so no set of terms that includes
\* it is smaller.
LEMMA BranchLength ==
  ASSUME TypeOK, ChartOK, NoTermTwice, NEW terms \in SUBSET Primes, Current \subseteq terms
  PROVE  Cardinality(terms) \in Nat /\ Len(currentDNF) <= Cardinality(terms)
<1>1. IsFiniteSet(terms)
  BY PrimesFinite, FS_Subset
<1>2. currentDNF \in [1 .. Len(currentDNF) -> terms] /\ Len(currentDNF) \in Nat
  BY DEF TypeOK, Current
<1>3. currentDNF \in Injection(1 .. Len(currentDNF), terms)
  BY <1>2 DEF NoTermTwice, Injection, IsInjective
<1>4. Cardinality(1 .. Len(currentDNF)) <= Cardinality(terms)
  BY <1>1, <1>3, FS_Injection
<1>5. Cardinality(1 .. Len(currentDNF)) = Len(currentDNF)
  <2>1. ASSUME NEW n \in Nat
        PROVE  Cardinality(1 .. n) = n
    BY FS_Interval, 1 \in Int, n \in Int
  <2> QED
    BY <1>2, <2>1
<1> QED
  BY <1>1, <1>4, <1>5, FS_CardinalityType

\* A frame that an action leaves alone stays exact, as long as the branch up
\* to the frame stays the same.
LEMMA FrameKept ==
  ASSUME ChartOK, UNCHANGED chartVars, NEW k, FrameExact(k), frames'[k] = frames[k],
         Before(k)' = Before(k),
         k <= NumOfChoices' =>
           k <= NumOfChoices /\ currentDNF'[Base' + k] = currentDNF[Base + k]
  PROVE  FrameExact(k)'
BY ChartKept DEF FrameExact

LEMMA BeforeKept ==
  ASSUME NEW k, Base' = Base, \A n \in 0 .. Base + k - 1 : Prefix(n)' = Prefix(n),
         Base + k - 1 \in Nat
  PROVE  Before(k)' = Before(k)
<1>1. PICK n \in Nat : n = Base + k - 1
  OBVIOUS
<1>2. Before(k) = Prefix(n) /\ Before(k)' = Prefix(n)'
  <2>1. Before(k)' = Prefix(n)'
    BY <1>1 DEF Before, Prefix
  <2> QED
    BY <1>1, <2>1 DEF Before
<1> QED
  BY <1>1, <1>2

\* The sizes of the stack and of the branch.
LEMMA Depths ==
  ASSUME TypeOK, FramesExact
  PROVE  /\ Len(frames) \in Nat /\ DOMAIN frames = 1 .. Len(frames)
         /\ NumOfChoices \in Nat /\ Base \in Nat
         /\ Len(currentDNF) \in Nat /\ Len(currentDNF) = Base + NumOfChoices
         /\ pc \in {"loop", "undo"} => Len(frames) >= 1
<1>1. /\ Len(frames) \in Nat /\ DOMAIN frames = 1 .. Len(frames)
      /\ Len(currentDNF) \in Nat
  BY DEF TypeOK
<1>2. pc \in {"loop", "undo"} => Len(frames) >= 1
  BY <1>1, EmptySeq DEF TypeOK
<1>3. NumOfChoices \in Nat
  BY <1>1, <1>2 DEF NumOfChoices
<1> QED
  BY <1>1, <1>2, <1>3 DEF FramesExact, Base

-----------------------------------------------------------------------------
\* One lemma for each action: it preserves the invariant.

LEMMA ListEssentialKeeps ==
  ASSUME SearchInv, ListEssential
  PROVE  SearchInv'
<1> USE DEF SearchInv
<1>1. UNCHANGED chartVars /\ frames' = frames /\ pc = "essential" /\ pc' = pc
      /\ UNCHANGED <<bestDNF, bestNumOfTerms>>
  BY DEF ListEssential
<1>2. /\ ChartOK' /\ Minterms' = Minterms /\ Primes' = Primes
      /\ mintermIDs' = mintermIDs /\ coveringImplicants' = coveringImplicants
      /\ \A S : CoveredBy(S)' = CoveredBy(S) /\ Covers(S)' = Covers(S)
  BY <1>1, ChartKept
<1>3. frames = << >> /\ Len(frames) = 0 /\ DOMAIN frames = {}
  BY <1>1 DEF TypeOK
<1>4. Len(currentDNF) \in Nat
  BY DEF TypeOK
<1>5. BestIsCover'
  BY <1>1, <1>2 DEF BestIsCover, Covers, CoveredBy
<1>6. CASE UNCHANGED <<currentDNF, covered>>
  <2>1. TypeOK'
    BY <1>1, <1>2, <1>6 DEF TypeOK, ListEssential
  <2>2. CoveredExact' /\ NoTermTwice'
    BY <1>2, <1>6 DEF CoveredExact, NoTermTwice, Current, CoveredBy
  <2>3. FramesExact'
    BY <1>1, <1>3, <1>4, <1>6 DEF FramesExact, NumOfChoices
  <2>4. NoneLost'
    BY <1>1, <1>2, <1>3, <1>6 DEF NoneLost, Promising, Current
  <2> QED
    BY <1>2, <1>5, <2>1, <2>2, <2>3, <2>4
<1>7. ASSUME NEW p \in coveringImplicants[position],
             position \notin covered, Cardinality(coveringImplicants[position]) = 1,
             currentDNF' = Append(currentDNF, p), covered' = covered \cup mintermIDs[p]
      PROVE  SearchInv'
  <2>1. position \in Minterms /\ p \in Primes /\ position \in mintermIDs[p]
    BY <1>7 DEF ListEssential, ChartOK
  <2>2. p \notin Current
    BY <1>7, <2>1, NewTerm
  <2>3. /\ currentDNF' \in Seq(DOMAIN mintermIDs)
        /\ Len(currentDNF') = Len(currentDNF) + 1
        /\ Current' = Current \cup {p}
    BY <1>7, <2>1, PushFacts DEF ChartOK
  <2>4. NoTermTwice' /\ CoveredExact' /\ covered' \subseteq Minterms'
    BY <1>1, <1>7, <2>1, <2>2, PushNewTerm
  <2>5. TypeOK'
    BY <1>1, <1>2, <2>3, <2>4 DEF TypeOK, ListEssential
  <2>6. FramesExact'
    BY <1>1, <1>3, <1>4, <2>3 DEF FramesExact, NumOfChoices
  <2>7. ASSUME NEW terms \in SUBSET Primes, Covers(terms)
        PROVE  p \in terms
    <3>1. PICK q \in terms : position \in mintermIDs[q]
      BY <2>1, <2>7 DEF Covers, CoveredBy
    <3>2. q \in coveringImplicants[position]
      BY <2>1, <3>1 DEF ChartOK
    <3>3. IsFiniteSet(coveringImplicants[position])
      BY <2>1, PrimesFinite, FS_Subset DEF ChartOK
    <3> QED
      BY <1>7, <3>1, <3>2, <3>3, FS_Singleton
  <2>8. NoneLost'
    BY <1>1, <1>2, <1>3, <2>3, <2>7 DEF NoneLost, Promising
  <2> QED
    BY <1>2, <1>5, <2>4, <2>5, <2>6, <2>8
<1> QED
  BY <1>6, <1>7 DEF ListEssential

LEMMA EndEssentialKeeps ==
  ASSUME SearchInv, EndEssential
  PROVE  SearchInv'
<1> USE DEF SearchInv
<1>1. /\ UNCHANGED <<chartVars, covered, currentDNF, frames, bestDNF, bestNumOfTerms>>
      /\ pc = "essential" /\ pc' = "build" /\ position' = 0
  BY DEF EndEssential
<1>2. /\ ChartOK' /\ Minterms' = Minterms /\ Primes' = Primes
      /\ mintermIDs' = mintermIDs /\ coveringImplicants' = coveringImplicants
      /\ \A S : CoveredBy(S)' = CoveredBy(S) /\ Covers(S)' = Covers(S)
  BY <1>1, ChartKept
<1>3. frames = << >> /\ Len(frames) = 0 /\ DOMAIN frames = {} /\ Len(currentDNF) \in Nat
  BY <1>1 DEF TypeOK
<1>4. TypeOK'
  BY <1>1, <1>2 DEF TypeOK
<1>5. CoveredExact' /\ NoTermTwice'
  BY <1>1, <1>2 DEF CoveredExact, NoTermTwice, Current, CoveredBy
<1>6. FramesExact'
  BY <1>1, <1>3 DEF FramesExact, NumOfChoices
<1>7. BestIsCover'
  BY <1>1, <1>2 DEF BestIsCover, Covers, CoveredBy, ChartOK
<1>8. NoneLost'
  BY <1>1, <1>2, <1>3 DEF NoneLost, Promising, Current
<1> QED
  BY <1>2, <1>4, <1>5, <1>6, <1>7, <1>8

LEMMA BranchKeeps ==
  ASSUME SearchInv, Branch
  PROVE  SearchInv'
<1> USE DEF SearchInv
<1>0. PICK L \in Nat : L = Len(frames)
  BY Depths
<1>1. /\ UNCHANGED <<chartVars, covered, currentDNF, position, bestDNF, bestNumOfTerms>>
      /\ pc = "build" /\ pc' = "loop"
  BY DEF Branch
<1>2. /\ ChartOK' /\ Minterms' = Minterms /\ Primes' = Primes
      /\ mintermIDs' = mintermIDs /\ coveringImplicants' = coveringImplicants
      /\ \A S : CoveredBy(S)' = CoveredBy(S) /\ Covers(S)' = Covers(S)
  BY <1>1, ChartKept
<1>3. PICK i \in Uncovered :
        /\ \A j \in Uncovered : i <= j
        /\ frames' = Append(frames, [at |-> i, untried |-> coveringImplicants[i],
                                     setToCovered |-> {}])
  BY DEF Branch
<1>4. i \in Minterms \ covered /\ i \in Nat /\ Minterms \subseteq Nat
  BY <1>3 DEF Uncovered, ChartOK
<1>5. /\ L \in Nat /\ DOMAIN frames = 1 .. L /\ NumOfChoices = L /\ Base \in Nat
      /\ Len(currentDNF) = Base + L /\ Len(currentDNF) \in Nat
  BY <1>0, <1>1, Depths DEF NumOfChoices
<1>6. [at |-> i, untried |-> coveringImplicants[i], setToCovered |-> {}] \in Frame
  BY <1>4 DEF Frame, ChartOK
<1>7. /\ frames' \in Seq(Frame) /\ frames' # << >> /\ Len(frames') = L + 1
      /\ DOMAIN frames' = 1 .. L + 1
      /\ \A k \in 1 .. L : frames'[k] = frames[k]
      /\ frames'[L + 1] = [at |-> i, untried |-> coveringImplicants[i], setToCovered |-> {}]
  BY <1>0, <1>3, <1>6, AppendProperties DEF TypeOK
<1>8. NumOfChoices' = L /\ Base' = Base
  BY <1>1, <1>5, <1>7 DEF NumOfChoices, Base
<1>9. TypeOK'
  BY <1>1, <1>2, <1>7 DEF TypeOK
<1>10. CoveredExact' /\ NoTermTwice' /\ BestIsCover'
  BY <1>1, <1>2 DEF CoveredExact, NoTermTwice, BestIsCover, Current, CoveredBy, Covers
<1>11. ASSUME NEW k \in 1 .. L + 1
       PROVE  Before(k)' = Before(k)
  <2>1. \A n \in 0 .. Base + k - 1 : Prefix(n)' = Prefix(n)
    BY <1>1 DEF Prefix
  <2> QED
    BY <1>5, <1>8, <2>1, BeforeKept
<1>12. Before(L + 1) = Current
  BY <1>5, PrefixFacts DEF Before
<1>13. \A j \in Minterms : j < i => j \in CoveredBy(Current)
  <2> SUFFICES ASSUME NEW j \in Minterms, j < i
               PROVE  j \in CoveredBy(Current)
    OBVIOUS
  <2>1. position \in Nat /\ j \in Nat /\ ~(i <= j)
    BY <1>4 DEF TypeOK
  <2>2. j \notin Uncovered
    BY <1>3, <2>1
  <2>3. CASE j < position
    BY <1>1, <2>3 DEF BestIsCover, CoveredExact
  <2>4. CASE j >= position
    BY <2>2, <2>4 DEF Uncovered, CoveredExact
  <2> QED
    BY <2>1, <2>3, <2>4
<1>14. FramesExact'
  <2>1. ASSUME NEW k \in 1 .. L
        PROVE  FrameExact(k)'
    <3>1. FrameExact(k)
      BY <1>5 DEF FramesExact
    <3> QED
      BY <1>1, <1>5, <1>7, <1>8, <1>11, <3>1, FrameKept
  <2>2. FrameExact(L + 1)'
    <3>1. Before(L + 1)' = Current
      BY <1>5, <1>11, <1>12
    <3>2. i \notin CoveredBy(Current)
      BY <1>4 DEF CoveredExact
    <3>3. ~(L + 1 <= NumOfChoices')
      BY <1>5, <1>8
    <3> QED
      BY <1>2, <1>4, <1>7, <1>13, <3>1, <3>2, <3>3 DEF FrameExact
  <2> QED
    BY <1>1, <1>5, <1>7, <1>8, <2>1, <2>2 DEF FramesExact
<1>15. NoneLost'
  <2> SUFFICES ASSUME NEW terms \in SUBSET Primes, Covers(terms),
                      ~(bestNumOfTerms <= Cardinality(terms))
               PROVE  Promising(terms)'
    BY <1>1, <1>2 DEF NoneLost
  <2>1. Promising(terms)
    BY DEF NoneLost
  <2>2. CASE Current \subseteq terms
    <3>1. PICK p \in terms : i \in mintermIDs[p]
      BY <1>4 DEF Covers, CoveredBy
    <3>2. p \in coveringImplicants[i]
      BY <1>4, <3>1 DEF ChartOK
    <3> QED
      BY <1>5, <1>7, <1>11, <1>12, <2>2, <3>2 DEF Promising
  <2>3. ASSUME NEW k \in DOMAIN frames, Before(k) \subseteq terms,
               frames[k].untried \cap terms # {}
        PROVE  Promising(terms)'
    BY <1>5, <1>7, <1>11, <2>3 DEF Promising
  <2> QED
    BY <2>1, <2>2, <2>3 DEF Promising
<1> QED
  BY <1>2, <1>9, <1>10, <1>14, <1>15

LEMMA LeafKeeps ==
  ASSUME SearchInv, Leaf
  PROVE  SearchInv'
<1> USE DEF SearchInv
<1>1. /\ UNCHANGED <<chartVars, covered, currentDNF, frames, position>>
      /\ pc = "build" /\ pc' = Returned(frames) /\ Uncovered = {}
  BY DEF Leaf
<1>2. /\ ChartOK' /\ Minterms' = Minterms /\ Primes' = Primes
      /\ mintermIDs' = mintermIDs /\ coveringImplicants' = coveringImplicants
      /\ \A S : CoveredBy(S)' = CoveredBy(S) /\ Covers(S)' = Covers(S)
  BY <1>1, ChartKept
<1>3. pc' \in {"undo", "found"} /\ (pc' = "found" <=> frames = << >>)
  BY <1>1 DEF Returned
<1>4. /\ NumOfChoices' = NumOfChoices /\ Base' = Base
      /\ \A k : Before(k)' = Before(k)
  BY <1>1, <1>3 DEF NumOfChoices, Base, Before, Prefix
<1>5. Len(currentDNF) \in Nat /\ UintMax \in Nat /\ bestNumOfTerms \in 0 .. UintMax
  BY ChartAssumption, Depths DEF TypeOK
<1>6. /\ bestNumOfTerms' \in 0 .. UintMax /\ bestNumOfTerms' <= bestNumOfTerms
      /\ bestNumOfTerms' <= Len(currentDNF)
  BY <1>5 DEF Leaf, Better
<1>7. TypeOK'
  BY <1>1, <1>2, <1>3, <1>6 DEF TypeOK, Leaf
<1>8. CoveredExact' /\ NoTermTwice'
  BY <1>1, <1>2 DEF CoveredExact, NoTermTwice, Current, CoveredBy
<1>9. Covers(Current)
  BY <1>1 DEF Uncovered, BestIsCover, CoveredExact, Covers, TypeOK, ChartOK
<1>10. BestIsCover'
  <2>1. pc' # "build"
    BY <1>3
  <2>2. CASE UNCHANGED <<bestDNF, bestNumOfTerms>>
    BY <1>2, <2>1, <2>2 DEF BestIsCover, Covers, CoveredBy
  <2>3. CASE bestDNF' = currentDNF /\ bestNumOfTerms' = Len(currentDNF)
    BY <1>2, <1>9, <2>1, <2>3 DEF BestIsCover, Covers, CoveredBy, Current
  <2> QED
    BY <2>2, <2>3 DEF Leaf
<1>11. FramesExact'
  <2>1. ASSUME NEW k \in DOMAIN frames
        PROVE  FrameExact(k)'
    BY <1>1, <1>4, <2>1, FrameKept DEF FramesExact
  <2> QED
    BY <1>1, <1>4, <2>1 DEF FramesExact
<1>12. NoneLost'
  <2> SUFFICES ASSUME NEW terms \in SUBSET Primes, Covers(terms)
               PROVE  bestNumOfTerms' <= Cardinality(terms) \/ Promising(terms)'
    BY <1>2 DEF NoneLost
  <2>1. Cardinality(terms) \in Nat
    BY PrimesFinite, FS_Subset, FS_CardinalityType
  <2>2. CASE bestNumOfTerms <= Cardinality(terms)
    BY <1>5, <1>6, <2>1, <2>2
  <2>3. CASE Current \subseteq terms
    <3>1. Len(currentDNF) <= Cardinality(terms)
      BY <2>3, BranchLength
    <3> QED
      BY <1>5, <1>6, <2>1, <3>1
  <2>4. CASE \E k \in DOMAIN frames : /\ Before(k) \subseteq terms
                                      /\ frames[k].untried \cap terms # {}
    BY <1>1, <1>4, <2>4 DEF Promising
  <2> QED
    BY <2>2, <2>3, <2>4 DEF NoneLost, Promising
<1> QED
  BY <1>2, <1>7, <1>8, <1>10, <1>11, <1>12

LEMMA TryKeeps ==
  ASSUME SearchInv, NEW p \in DOMAIN mintermIDs, Try(p)
  PROVE  SearchInv'
<1> USE DEF SearchInv
<1>0. PICK L \in Nat : L = Len(frames)
  BY Depths
<1>1. /\ UNCHANGED <<chartVars, bestDNF, bestNumOfTerms>>
      /\ pc = "loop" /\ pc' \in {"build", "undo"}
      /\ currentDNF' = Append(currentDNF, p) /\ covered' = covered \cup mintermIDs[p]
  BY DEF Try
<1>2. /\ ChartOK' /\ Minterms' = Minterms /\ Primes' = Primes
      /\ mintermIDs' = mintermIDs /\ coveringImplicants' = coveringImplicants
      /\ \A S : CoveredBy(S)' = CoveredBy(S) /\ Covers(S)' = Covers(S)
  BY <1>1, ChartKept
<1>3. /\ L \in Nat /\ L >= 1 /\ L \in DOMAIN frames /\ DOMAIN frames = 1 .. L
      /\ NumOfChoices = L - 1 /\ Base \in Nat
      /\ Len(currentDNF) = Base + L - 1 /\ Len(currentDNF) \in Nat
  BY <1>0, <1>1, Depths DEF NumOfChoices
<1>4. Top = frames[L] /\ frames[L] \in Frame
  BY <1>0, <1>3 DEF Top, TypeOK
<1>5. /\ frames' \in Seq(Frame) /\ Len(frames') = L /\ DOMAIN frames' = 1 .. L
      /\ \A k \in 1 .. L - 1 : frames'[k] = frames[k]
      /\ frames'[L].at = frames[L].at
      /\ frames'[L].untried = frames[L].untried \ {p}
      /\ frames'[L].setToCovered = mintermIDs[p] \ covered
  <2> DEFINE frame == [at |-> frames[L].at, untried |-> frames[L].untried \ {p},
                       setToCovered |-> mintermIDs[p] \ covered]
  <2>1. frames' = [frames EXCEPT ![L] = frame]
    BY <1>0, <1>4 DEF Try, NoteChoice
  <2>2. /\ frame \in Frame /\ frame.at = frames[L].at
        /\ frame.untried = frames[L].untried \ {p}
        /\ frame.setToCovered = mintermIDs[p] \ covered
    BY <1>4 DEF Frame, TypeOK
  <2> HIDE DEF frame
  <2>3. frames \in Seq(Frame)
    BY DEF TypeOK
  <2>4. frames' \in Seq(Frame) /\ Len(frames') = L
    BY <1>0, <1>3, <2>1, <2>2, <2>3, ExceptSeq
  <2>5. frames'[L] = frame /\ \A k \in 1 .. L - 1 : frames'[k] = frames[k]
    BY <1>3, <2>1
  <2> QED
    BY <2>2, <2>4, <2>5
<1>6. PICK i \in Minterms : /\ i = frames[L].at /\ i \in Nat
                            /\ i \notin CoveredBy(Before(L))
                            /\ \A j \in Minterms : j < i => j \in CoveredBy(Before(L))
                            /\ frames[L].untried \subseteq coveringImplicants[i]
  BY <1>3 DEF FramesExact, FrameExact, ChartOK
<1>7. Before(L) = Current
  BY <1>3, PrefixFacts DEF Before
<1>8. i \in Minterms \ covered /\ p \in Primes /\ i \in mintermIDs[p]
  BY <1>1, <1>4, <1>6, <1>7 DEF CoveredExact, ChartOK, Try
<1>9. p \notin Current
  BY <1>8, NewTerm
<1>10. NoTermTwice' /\ CoveredExact' /\ covered' \subseteq Minterms'
  BY <1>1, <1>8, <1>9, PushNewTerm
<1>11. /\ currentDNF' \in Seq(DOMAIN mintermIDs)
       /\ Len(currentDNF') = Len(currentDNF) + 1
       /\ \A n \in 1 .. Len(currentDNF) : currentDNF'[n] = currentDNF[n]
       /\ currentDNF'[Len(currentDNF) + 1] = p
       /\ \A n \in 0 .. Len(currentDNF) : Prefix(n)' = Prefix(n)
       /\ Current' = Current \cup {p}
  BY <1>1, PushFacts
<1>12. NumOfChoices' = L /\ Base' = Base
  BY <1>1, <1>3, <1>5, <1>11 DEF NumOfChoices, Base
<1>13. ASSUME NEW k \in 1 .. L
       PROVE  Before(k)' = Before(k)
  <2>1. \A n \in 0 .. Base + k - 1 : Prefix(n)' = Prefix(n)
    BY <1>3, <1>11
  <2> QED
    BY <1>3, <1>12, <2>1, BeforeKept
<1>14. position' \in Nat /\ (pc' = "build" => position' = i + 1)
  BY <1>4, <1>6 DEF Try, NextPosition, TypeOK
<1>15. TypeOK'
  <2>1. frames' # << >>
    BY <1>3, <1>5
  <2> QED
    BY <1>1, <1>2, <1>5, <1>10, <1>11, <1>14, <2>1 DEF TypeOK
<1>16. BestIsCover'
  <2>1. ASSUME pc' = "build", NEW j \in Minterms, j < position'
        PROVE  j \in covered'
    <3>1. j = i \/ j < i
      BY <1>6, <1>14, <2>1 DEF ChartOK
    <3>2. j < i => j \in covered
      BY <1>6, <1>7 DEF CoveredExact
    <3> QED
      BY <1>1, <1>8, <3>1, <3>2
  <2> QED
    BY <1>1, <1>2, <2>1 DEF BestIsCover, Covers, CoveredBy
<1>17. FramesExact'
  <2>1. ASSUME NEW k \in 1 .. L - 1
        PROVE  FrameExact(k)'
    <3>0. FrameExact(k)
      BY <1>3 DEF FramesExact
    <3>1. FrameExact(k) /\ frames'[k] = frames[k] /\ Before(k)' = Before(k)
      BY <1>3, <1>5, <1>13, <3>0
    <3>2. k <= NumOfChoices /\ currentDNF'[Base' + k] = currentDNF[Base + k]
      BY <1>3, <1>11, <1>12
    <3> QED
      BY <1>1, <3>1, <3>2, FrameKept
  <2>2. FrameExact(L)'
    <3>1. Before(L)' = Current
      BY <1>3, <1>7, <1>13
    <3>2. currentDNF'[Base' + L] = p
      BY <1>3, <1>11, <1>12
    <3>3. frames'[L].setToCovered = mintermIDs[p] \ CoveredBy(Current)
      BY <1>5, <1>8 DEF CoveredExact, ChartOK
    <3> QED
      BY <1>2, <1>5, <1>6, <1>7, <3>1, <3>2, <3>3 DEF FrameExact
  <2>3. NumOfChoices' <= Len(currentDNF')
    BY <1>3, <1>11, <1>12
  <2>4. \A k \in DOMAIN frames' : k \in 1 .. L - 1 \/ k = L
    BY <1>3, <1>5
  <2> QED
    BY <2>1, <2>2, <2>3, <2>4 DEF FramesExact
<1>18. NoneLost'
  <2> SUFFICES ASSUME NEW terms \in SUBSET Primes, Covers(terms),
                      ~(bestNumOfTerms <= Cardinality(terms))
               PROVE  Promising(terms)'
    BY <1>1, <1>2 DEF NoneLost
  <2>1. PICK k \in DOMAIN frames : /\ Before(k) \subseteq terms
                                   /\ frames[k].untried \cap terms # {}
    BY <1>1 DEF NoneLost, Promising
  <2>2. CASE k # L \/ (frames[L].untried \ {p}) \cap terms # {}
    <3>1. Before(k)' = Before(k) /\ k \in DOMAIN frames'
      BY <1>3, <1>5, <1>13
    <3>2. frames'[k].untried \cap terms # {}
      BY <1>3, <1>5, <2>1, <2>2
    <3> QED
      BY <2>1, <3>1, <3>2 DEF Promising
  <2>3. CASE k = L /\ (frames[L].untried \ {p}) \cap terms = {}
    <3>1. p \in terms /\ Current \subseteq terms \ {p}
      BY <1>7, <1>9, <2>1, <2>3
    <3>2. IsFiniteSet(terms) /\ Cardinality(terms) \in Nat
      BY PrimesFinite, FS_Subset, FS_CardinalityType
    <3>3. Cardinality(terms \ {p}) = Cardinality(terms) - 1
      BY <3>1, <3>2, FS_RemoveElement
    <3>4. Len(currentDNF) <= Cardinality(terms) - 1
      <4>1. terms \ {p} \in SUBSET Primes
        OBVIOUS
      <4> QED
        BY <3>1, <3>3, <4>1, BranchLength
    <3>5. Worthwhile
      BY <1>3, <3>2, <3>4 DEF Worthwhile, TypeOK
    <3>6. pc' = "build"
      BY <3>5 DEF Try
    <3>7. Current' \subseteq terms
      BY <1>11, <3>1
    <3> QED
      BY <3>6, <3>7 DEF Promising
  <2> QED
    BY <2>2, <2>3
<1> QED
  BY <1>2, <1>10, <1>15, <1>16, <1>17, <1>18

LEMMA UndoKeeps ==
  ASSUME SearchInv, Undo
  PROVE  SearchInv'
<1> USE DEF SearchInv
<1>0. PICK L \in Nat : L = Len(frames)
  BY Depths
<1>1. /\ UNCHANGED <<chartVars, frames, position, bestDNF, bestNumOfTerms>>
      /\ pc = "undo" /\ pc' = "loop"
      /\ currentDNF' = Pop(currentDNF) /\ covered' = covered \ Top.setToCovered
  BY DEF Undo
<1>2. /\ ChartOK' /\ Minterms' = Minterms /\ Primes' = Primes
      /\ mintermIDs' = mintermIDs /\ coveringImplicants' = coveringImplicants
      /\ \A S : CoveredBy(S)' = CoveredBy(S) /\ Covers(S)' = Covers(S)
  BY <1>1, ChartKept
<1>3. /\ L >= 1 /\ L \in DOMAIN frames /\ DOMAIN frames = 1 .. L /\ frames # << >>
      /\ NumOfChoices = L /\ Base \in Nat
      /\ Len(currentDNF) = Base + L /\ Len(currentDNF) \in Nat
  BY <1>0, <1>1, Depths, EmptySeq DEF NumOfChoices
<1>4. currentDNF # << >>
  BY <1>3, EmptySeq
<1>5. /\ currentDNF' \in Seq(DOMAIN mintermIDs)
      /\ Len(currentDNF') = Len(currentDNF) - 1
      /\ \A n \in 1 .. Len(currentDNF) - 1 : currentDNF'[n] = currentDNF[n]
      /\ \A n \in 0 .. Len(currentDNF) - 1 : Prefix(n)' = Prefix(n)
      /\ Current' = Prefix(Len(currentDNF) - 1)
  BY <1>1, <1>4, PopFacts
<1>6. NumOfChoices' = L - 1 /\ Base' = Base
  BY <1>0, <1>1, <1>3, <1>5 DEF NumOfChoices, Base
<1>7. ASSUME NEW k \in 1 .. L
      PROVE  Before(k)' = Before(k)
  <2>1. \A n \in 0 .. Base + k - 1 : Prefix(n)' = Prefix(n)
    BY <1>3, <1>5
  <2> QED
    BY <1>3, <1>6, <2>1, BeforeKept
<1>8. TypeOK'
  BY <1>1, <1>2, <1>3, <1>5 DEF TypeOK
<1>9. CoveredExact'
  <2>1. Current' = Before(L)
    BY <1>3, <1>5 DEF Before
  <2>2. Current = Before(L) \cup {currentDNF[Base + L]}
    <3>1. PICK n \in Nat : n = Base + L - 1
      BY <1>3
    <3>2. Prefix(n + 1) = Prefix(n) \cup {currentDNF[n + 1]}
      BY PrefixFacts
    <3>3. n + 1 = Base + L /\ Current = Prefix(n + 1) /\ Before(L) = Prefix(n)
      BY <1>3, <3>1, PrefixFacts DEF Before
    <3> QED
      BY <3>2, <3>3
  <2>3. CoveredBy(Current) = CoveredBy(Before(L)) \cup mintermIDs[currentDNF[Base + L]]
    BY <2>2, CoveredByAdd
  <2>4. Top.setToCovered = mintermIDs[currentDNF[Base + L]] \ CoveredBy(Before(L))
    BY <1>0, <1>3 DEF FramesExact, FrameExact, Top
  <2>5. covered' = CoveredBy(Before(L)) \cap Minterms
    BY <1>1, <2>3, <2>4 DEF CoveredExact
  <2>6. CoveredBy(Current)' = CoveredBy(Before(L))
    BY <1>2, <2>1 DEF CoveredBy
  <2> QED
    BY <1>2, <2>5, <2>6 DEF CoveredExact
<1>10. NoTermTwice'
  <2>1. DOMAIN currentDNF' = 1 .. Len(currentDNF) - 1
    BY <1>3, <1>5
  <2>2. DOMAIN currentDNF = 1 .. Len(currentDNF)
    BY DEF TypeOK
  <2> QED
    BY <1>3, <1>5, <2>1, <2>2 DEF NoTermTwice
<1>11. BestIsCover'
  BY <1>1, <1>2 DEF BestIsCover, Covers, CoveredBy
<1>12. FramesExact'
  <2>1. ASSUME NEW k \in 1 .. L
        PROVE  FrameExact(k)'
    <3>1. FrameExact(k) /\ frames'[k] = frames[k] /\ Before(k)' = Before(k)
      BY <1>1, <1>3, <1>7 DEF FramesExact
    <3>2. k <= NumOfChoices' =>
            k <= NumOfChoices /\ currentDNF'[Base' + k] = currentDNF[Base + k]
      BY <1>3, <1>5, <1>6
    <3> QED
      BY <1>1, <3>1, <3>2, FrameKept
  <2>2. NumOfChoices' <= Len(currentDNF')
    BY <1>3, <1>5, <1>6
  <2> QED
    BY <1>1, <1>3, <2>1, <2>2 DEF FramesExact
<1>13. NoneLost'
  <2> SUFFICES ASSUME NEW terms \in SUBSET Primes, Covers(terms),
                      ~(bestNumOfTerms <= Cardinality(terms))
               PROVE  Promising(terms)'
    BY <1>1, <1>2 DEF NoneLost
  <2>1. PICK k \in DOMAIN frames : /\ Before(k) \subseteq terms
                                   /\ frames[k].untried \cap terms # {}
    BY <1>1 DEF NoneLost, Promising
  <2> QED
    BY <1>1, <1>3, <1>7, <2>1 DEF Promising
<1> QED
  BY <1>2, <1>8, <1>9, <1>10, <1>11, <1>12, <1>13

LEMMA EndLoopKeeps ==
  ASSUME SearchInv, EndLoop
  PROVE  SearchInv'
<1> USE DEF SearchInv
<1>0. PICK L \in Nat : L = Len(frames)
  BY Depths
<1>1. /\ UNCHANGED <<chartVars, covered, currentDNF, position, bestDNF, bestNumOfTerms>>
      /\ pc = "loop" /\ Top.untried = {} /\ frames' = Pop(frames)
      /\ pc' \in {"undo", "found"} /\ (pc' = "found" <=> frames' = << >>)
  BY DEF EndLoop, Returned
<1>2. /\ ChartOK' /\ Minterms' = Minterms /\ Primes' = Primes
      /\ mintermIDs' = mintermIDs /\ coveringImplicants' = coveringImplicants
      /\ \A S : CoveredBy(S)' = CoveredBy(S) /\ Covers(S)' = Covers(S)
  BY <1>1, ChartKept
<1>3. /\ L >= 1 /\ L \in DOMAIN frames /\ DOMAIN frames = 1 .. L /\ frames # << >>
      /\ NumOfChoices = L - 1 /\ Base \in Nat
      /\ Len(currentDNF) = Base + L - 1 /\ Len(currentDNF) \in Nat
  BY <1>0, <1>1, Depths, EmptySeq DEF NumOfChoices
<1>4. /\ frames' \in Seq(Frame) /\ Len(frames') = L - 1
      /\ \A k \in 1 .. L - 1 : frames'[k] = frames[k]
  BY <1>0, <1>1, <1>3, PopProperties DEF TypeOK
<1>5. DOMAIN frames' = 1 .. L - 1
  BY <1>4
<1>6. NumOfChoices' = L - 1 /\ Base' = Base
  BY <1>1, <1>3, <1>4 DEF NumOfChoices, Base
<1>7. \A k : Before(k)' = Before(k)
  BY <1>1, <1>6 DEF Before, Prefix
<1>8. TypeOK'
  BY <1>1, <1>2, <1>4 DEF TypeOK
<1>9. CoveredExact' /\ NoTermTwice' /\ BestIsCover'
  BY <1>1, <1>2 DEF CoveredExact, NoTermTwice, BestIsCover, Current, CoveredBy, Covers
<1>10. FramesExact'
  <2>1. ASSUME NEW k \in 1 .. L - 1
        PROVE  FrameExact(k)'
    <3>1. FrameExact(k) /\ k <= NumOfChoices
      BY <1>3 DEF FramesExact
    <3> QED
      BY <1>1, <1>4, <1>6, <1>7, <3>1, FrameKept
  <2> QED
    BY <1>1, <1>3, <1>5, <1>6, <2>1 DEF FramesExact
<1>11. NoneLost'
  <2> SUFFICES ASSUME NEW terms \in SUBSET Primes, Covers(terms),
                      ~(bestNumOfTerms <= Cardinality(terms))
               PROVE  Promising(terms)'
    BY <1>1, <1>2 DEF NoneLost
  <2>1. PICK k \in DOMAIN frames : /\ Before(k) \subseteq terms
                                   /\ frames[k].untried \cap terms # {}
    BY <1>1 DEF NoneLost, Promising
  <2>2. k # L
    BY <1>0, <1>1, <2>1 DEF Top
  <2>3. k \in DOMAIN frames' /\ frames'[k] = frames[k]
    BY <1>3, <1>4, <1>5, <2>2
  <2> QED
    BY <1>7, <2>1, <2>3 DEF Promising
<1> QED
  BY <1>2, <1>8, <1>9, <1>10, <1>11

LEMMA StutterKeeps ==
  ASSUME SearchInv, UNCHANGED primeVars
  PROVE  SearchInv'
<1> USE DEF SearchInv
<1>1. UNCHANGED <<chartVars, searchVars>>
  BY DEF primeVars
<1>2. /\ ChartOK' /\ Minterms' = Minterms /\ Primes' = Primes
      /\ mintermIDs' = mintermIDs /\ coveringImplicants' = coveringImplicants
      /\ \A S : CoveredBy(S)' = CoveredBy(S) /\ Covers(S)' = Covers(S)
  BY <1>1, ChartKept
<1>3. TypeOK'
  BY <1>1, <1>2 DEF TypeOK, searchVars
<1>4. CoveredExact' /\ NoTermTwice' /\ BestIsCover'
  BY <1>1, <1>2
     DEF CoveredExact, NoTermTwice, BestIsCover, Current, CoveredBy, Covers, searchVars
<1>5. /\ NumOfChoices' = NumOfChoices /\ Base' = Base
      /\ \A k : Before(k)' = Before(k)
  BY <1>1 DEF NumOfChoices, Base, Before, Prefix, searchVars
<1>6. FramesExact'
  BY <1>1, <1>2, <1>5 DEF FramesExact, FrameExact, CoveredBy, searchVars
<1>7. NoneLost'
  BY <1>1, <1>2, <1>5 DEF NoneLost, Promising, Current, searchVars
<1> QED
  BY <1>2, <1>3, <1>4, <1>6, <1>7

\* A search that starts on a good chart satisfies the invariant.
LEMMA StartOK == ChartOK /\ StartSearch /\ pc = "essential" => SearchInv
<1> SUFFICES ASSUME ChartOK, StartSearch, pc = "essential" PROVE SearchInv
  OBVIOUS
<1>1. /\ covered = {} /\ currentDNF = << >> /\ frames = << >> /\ position = 0
      /\ bestDNF = << >> /\ bestNumOfTerms = UintMax
  BY DEF StartSearch
<1>2. TypeOK
  <2>1. mintermIDs \in [DOMAIN mintermIDs -> SUBSET Nat]
    BY DEF ChartOK
  <2>2. \A i \in Minterms : coveringImplicants[i] \subseteq DOMAIN mintermIDs
    BY DEF ChartOK
  <2> QED
    BY <1>1, <2>1, <2>2, ChartAssumption DEF TypeOK
<1>3. Current = {} /\ DOMAIN frames = {} /\ Len(frames) = 0 /\ Len(currentDNF) = 0
  BY <1>1 DEF Current
<1>4. CoveredExact /\ NoTermTwice /\ BestIsCover
  BY <1>1, <1>3 DEF CoveredExact, NoTermTwice, BestIsCover, CoveredBy
<1>5. FramesExact
  BY <1>1, <1>3 DEF FramesExact, NumOfChoices
<1>6. NoneLost
  BY <1>1, <1>3 DEF NoneLost, Promising
<1> QED
  BY <1>2, <1>4, <1>5, <1>6 DEF SearchInv

LEMMA InitOK == Init => SearchInv
<1> SUFFICES ASSUME Init PROVE SearchInv
  OBVIOUS
<1>1. PICK chart \in Charts :
        /\ mintermIDs = chart.mintermIDs
        /\ coveringImplicants = Listed(Implicant, chart.mintermIDs, chart.numOfMinterms)
  BY DEF Init
<1>2. PICK n \in Nat : n = chart.numOfMinterms
  BY ChartAssumption
<1>3. coveringImplicants = [i \in 0 .. n - 1 |-> {p \in Implicant : i \in mintermIDs[p]}]
  BY <1>1, <1>2 DEF Listed
<1>4. /\ Minterms = 0 .. n - 1 /\ mintermIDs \in [Implicant -> SUBSET Minterms]
      /\ \A i \in Minterms : \E p \in Implicant : i \in mintermIDs[p]
  BY <1>1, <1>2, <1>3, ChartAssumption DEF Minterms
<1>5. Primes = {p \in Implicant : \E i \in Minterms : i \in mintermIDs[p]}
  BY <1>3, <1>4 DEF Primes
<1>6. ChartOK
  BY <1>3, <1>4, <1>5 DEF ChartOK
<1> QED
  BY <1>6, StartOK DEF Init

\* A step of the search leaves the chart alone and keeps the invariant.
LEMMA SearchStepKeeps ==
  ASSUME SearchInv, SearchStep
  PROVE  SearchInv' /\ UNCHANGED chartVars
<1>1. SearchInv'
  BY ListEssentialKeeps, EndEssentialKeeps, BranchKeeps, LeafKeeps, TryKeeps,
     UndoKeeps, EndLoopKeeps DEF SearchStep
<1>2. UNCHANGED chartVars
  BY DEF SearchStep, ListEssential, EndEssential, Branch, Leaf, Try, Undo, EndLoop
<1> QED
  BY <1>1, <1>2

-----------------------------------------------------------------------------
\* The search keeps, in every state, exact marks, exact frames, a best cover
\* that is one, and a way to every cover shorter than it
\* (PrimeChart::getEssentialPrimes, buildSubtreeFromPosition).
THEOREM SearchInvariance == Spec => []SearchInv
<1>1. SearchInv /\ [Next]_primeVars => SearchInv'
  BY SearchStepKeeps, StutterKeeps DEF Next, Found
<1> QED
  BY <1>1, InitOK, PTL DEF Spec

\* Unmarking after a branch restores exactly what was covered before.
THEOREM Backtracking == Spec => []CoveredExact
BY SearchInvariance, PTL DEF SearchInv

\* A recorded cover covers every minterm.
THEOREM CoverFound == Spec => []BestIsCover
BY SearchInvariance, PTL DEF SearchInv

\* No prime is on the branch twice.
THEOREM TermsDistinct == Spec => []NoTermTwice
BY SearchInvariance, PTL DEF SearchInv

\* When the search has ended, no set of implicants smaller than the cover it
\* returns covers every minterm: neither the essential primes taken first nor
\* the pruned branches lose the minimum.
THEOREM Optimality == Spec => []Minimum
<1>1. SearchInv => Minimum
  <2> SUFFICES ASSUME SearchInv, pc = "found",
                      NEW terms \in SUBSET Primes, Covers(terms)
               PROVE  bestNumOfTerms <= Cardinality(terms)
    BY DEF Minimum
  <2>1. DOMAIN frames = {}
    BY DEF SearchInv, TypeOK
  <2> QED
    BY <2>1 DEF SearchInv, NoneLost, Promising
<1> QED
  BY <1>1, SearchInvariance, PTL

-----------------------------------------------------------------------------
\* Implicants, their DONT_CAREs and their minterms.

\* Different variables give different implicants, so there are finitely many.
LEMMA VariableFinite == IsFiniteSet(Variable)
<1> DEFINE f == [v \in Variable |-> [w \in Variable |-> IF w = v THEN "TRUE" ELSE "FALSE"]]
<1>1. f \in [Variable -> Implicant]
  BY DnfAssumption DEF Value
<1>2. ASSUME NEW v \in Variable, NEW w \in Variable, f[v] = f[w]
      PROVE  v = w
  <2>1. f[v][v] = "TRUE" /\ f[w][v] = IF v = w THEN "TRUE" ELSE "FALSE"
    OBVIOUS
  <2> QED
    BY <1>2, <2>1
<1>3. f \in Injection(Variable, Implicant)
  BY <1>1, <1>2, Fun_IsInj
<1> QED
  BY <1>3, ChartAssumption, FS_Injection

LEMMA DontCaresFinite ==
  ASSUME NEW p
  PROVE  /\ DontCares(p) \subseteq Variable
         /\ IsFiniteSet(DontCares(p))
         /\ Cardinality(DontCares(p)) \in Nat
<1>1. DontCares(p) \subseteq Variable
  BY DEF DontCares
<1>2. IsFiniteSet(DontCares(p))
  BY <1>1, VariableFinite, FS_Subset
<1> QED
  BY <1>1, <1>2, FS_CardinalityType

\* A minterm is an implicant without DONT_CARE, of which it is the only minterm.
LEMMA MintermProperties ==
  /\ Minterm \subseteq Implicant
  /\ \A m \in Minterm : DontCares(m) = {} /\ Cube(m) = {m}
  /\ \A p \in Implicant : DontCares(p) = {} => p \in Minterm
<1>1. Minterm \subseteq Implicant
  BY DnfAssumption DEF Minterm, Value
<1>2. ASSUME NEW m \in Minterm
      PROVE  DontCares(m) = {} /\ Cube(m) = {m}
  <2>1. \A v \in Variable : m[v] \in {"TRUE", "FALSE"}
    BY DEF Minterm
  <2>2. DontCares(m) = {}
    BY <2>1 DEF DontCares
  <2>3. m \in Cube(m)
    BY DEF Cube
  <2>4. ASSUME NEW k \in Cube(m)
        PROVE  k = m
    <3>1. k \in Minterm /\ \A v \in Variable : m[v] = k[v]
      BY <2>1 DEF Cube
    <3> QED
      BY <3>1 DEF Minterm
  <2> QED
    BY <2>2, <2>3, <2>4
<1>3. ASSUME NEW p \in Implicant, DontCares(p) = {}
      PROVE  p \in Minterm
  <2>1. p \in [Variable -> Value] /\ \A v \in Variable : p[v] # "DONT_CARE"
    BY <1>3, DnfAssumption DEF DontCares
  <2> QED
    BY <2>1 DEF Minterm, Value
<1> QED
  BY <1>1, <1>2, <1>3

\* The DONT_CAREs of an implicant can be set, so it has a minterm.
LEMMA CubeNonempty ==
  ASSUME NEW p \in Implicant
  PROVE  Cube(p) # {}
<1> DEFINE m == [v \in Variable |-> IF p[v] = "DONT_CARE" THEN "TRUE" ELSE p[v]]
<1>1. \A v \in Variable : p[v] \in Value
  BY DnfAssumption
<1>2. m \in Minterm
  BY <1>1 DEF Minterm, Value
<1>3. m \in Cube(p)
  BY <1>2 DEF Cube
<1> QED
  BY <1>3

\* Implicant::merge: the merged implicant has the minterms of both and one
\* DONT_CARE more.
LEMMA MergeProperties ==
  ASSUME NEW x \in Implicant, NEW y \in Implicant, NEW v \in Variable, DifferAt(x, y, v)
  PROVE  /\ Merged(<<x, y, v>>) \in Implicant
         /\ Merged(<<x, y, v>>) = Widened(x, v) /\ Merged(<<x, y, v>>) = Widened(y, v)
         /\ Cube(Merged(<<x, y, v>>)) = Cube(x) \cup Cube(y)
         /\ v \notin DontCares(x) /\ v \notin DontCares(y)
<1> DEFINE p == Merged(<<x, y, v>>)
<1>1. /\ x \in [Variable -> Value] /\ y \in [Variable -> Value]
      /\ x[v] = "FALSE" /\ y[v] = "TRUE"
      /\ \A w \in Variable \ {v} : x[w] = y[w]
  BY DnfAssumption DEF DifferAt
<1>2. p = Widened(x, v) /\ p = Widened(y, v)
  BY <1>1 DEF Merged, Widened
<1>3. p \in Implicant
  BY <1>1, DnfAssumption DEF Merged, Value
<1>4. p[v] = "DONT_CARE" /\ \A w \in Variable \ {v} : p[w] = x[w]
  BY <1>1 DEF Merged
<1>5. Cube(p) \subseteq Cube(x) \cup Cube(y)
  <2> SUFFICES ASSUME NEW m \in Cube(p)
               PROVE  m \in Cube(x) \/ m \in Cube(y)
    OBVIOUS
  <2>1. m \in Minterm /\ m[v] \in {"TRUE", "FALSE"}
        /\ \A w \in Variable : p[w] \in {m[w], "DONT_CARE"}
    BY DEF Cube, Minterm
  <2>2. CASE m[v] = "FALSE"
    BY <1>1, <1>4, <2>1, <2>2 DEF Cube
  <2>3. CASE m[v] = "TRUE"
    BY <1>1, <1>4, <2>1, <2>3 DEF Cube
  <2> QED
    BY <2>1, <2>2, <2>3
<1>6. Cube(x) \cup Cube(y) \subseteq Cube(p)
  BY <1>1, <1>4 DEF Cube
<1>7. v \notin DontCares(x) /\ v \notin DontCares(y)
  BY <1>1 DEF DontCares
<1> QED
  BY <1>2, <1>3, <1>5, <1>6, <1>7

\* A widened implicant has one DONT_CARE more, and its minterms include those
\* of the implicant.
LEMMA WidenProperties ==
  ASSUME NEW p \in Implicant, NEW v \in Variable \ DontCares(p)
  PROVE  /\ Widened(p, v) \in Implicant
         /\ DontCares(Widened(p, v)) = DontCares(p) \cup {v}
         /\ Cardinality(DontCares(Widened(p, v))) = Cardinality(DontCares(p)) + 1
         /\ Cube(p) \subseteq Cube(Widened(p, v))
<1>1. p \in [Variable -> Value]
  BY DnfAssumption
<1>2. Widened(p, v) \in Implicant
  BY <1>1, DnfAssumption DEF Widened, Value
<1>3. DontCares(Widened(p, v)) = DontCares(p) \cup {v}
  BY <1>1 DEF Widened, DontCares
<1>4. Cardinality(DontCares(Widened(p, v))) = Cardinality(DontCares(p)) + 1
  BY <1>3, DontCaresFinite, FS_AddElement
<1>5. Cube(p) \subseteq Cube(Widened(p, v))
  BY <1>1 DEF Cube, Widened
<1> QED
  BY <1>2, <1>3, <1>4, <1>5

\* Every implicant with a DONT_CARE is the merge of two.
LEMMA SplitProperties ==
  ASSUME NEW p \in Implicant, NEW v \in DontCares(p)
  PROVE  LET x == [p EXCEPT ![v] = "FALSE"]
             y == [p EXCEPT ![v] = "TRUE"]
         IN  /\ x \in Implicant /\ y \in Implicant
             /\ DifferAt(x, y, v) /\ Merged(<<x, y, v>>) = p
             /\ DontCares(x) = DontCares(p) \ {v} /\ DontCares(y) = DontCares(p) \ {v}
             /\ Cardinality(DontCares(x)) = Cardinality(DontCares(p)) - 1
             /\ Cardinality(DontCares(y)) = Cardinality(DontCares(p)) - 1
<1> DEFINE x == [p EXCEPT ![v] = "FALSE"]
           y == [p EXCEPT ![v] = "TRUE"]
<1>1. p \in [Variable -> Value] /\ v \in Variable /\ p[v] = "DONT_CARE"
  BY DnfAssumption DEF DontCares
<1>2. x \in Implicant /\ y \in Implicant
  BY <1>1, DnfAssumption DEF Value
<1>3. DifferAt(x, y, v)
  BY <1>1 DEF DifferAt
<1>4. Merged(<<x, y, v>>) = p
  <2>1. Merged(<<x, y, v>>) = [x EXCEPT ![v] = "DONT_CARE"]
    BY DEF Merged
  <2>2. \A w \in Variable : [x EXCEPT ![v] = "DONT_CARE"][w] = p[w]
    BY <1>1
  <2> QED
    BY <1>1, <2>1, <2>2
<1>5. DontCares(x) = DontCares(p) \ {v} /\ DontCares(y) = DontCares(p) \ {v}
  BY <1>1 DEF DontCares
<1>6. Cardinality(DontCares(p) \ {v}) = Cardinality(DontCares(p)) - 1
  BY DontCaresFinite, FS_RemoveElement
<1> QED
  BY <1>2, <1>3, <1>4, <1>5, <1>6

-----------------------------------------------------------------------------
\* The brackets.

LEMMA BracketProperties ==
  ASSUME NEW n
  PROVE  /\ Bracket(n) \subseteq ImplicantsOf(goal)
         /\ ImplicantsOf(goal) \subseteq Implicant
         /\ IsFiniteSet(Bracket(n))
<1>1. Bracket(n) \subseteq ImplicantsOf(goal) /\ ImplicantsOf(goal) \subseteq Implicant
  BY DEF Bracket, ImplicantsOf
<1> QED
  BY <1>1, ChartAssumption, FS_Subset

\* One turn of mergeAllImplicants makes a complete bracket from a complete one.
LEMMA NextBracket ==
  ASSUME NEW n \in Nat \ {0}
  PROVE  {Merged(e) : e \in Merges(Bracket(n))} = Bracket(n + 1)
<1>1. ASSUME NEW e \in Merges(Bracket(n))
      PROVE  Merged(e) \in Bracket(n + 1)
  <2>1. PICK x \in Bracket(n), y \in Bracket(n), v \in Variable :
          e = <<x, y, v>> /\ DifferAt(x, y, v)
    BY DEF Merges
  <2>2. /\ x \in Implicant /\ Cube(x) \subseteq goal /\ Cardinality(DontCares(x)) = n - 1
        /\ y \in Implicant /\ Cube(y) \subseteq goal
    BY DEF Bracket, ImplicantsOf
  <2>3. /\ Merged(e) \in Implicant /\ Merged(e) = Widened(x, v)
        /\ Cube(Merged(e)) = Cube(x) \cup Cube(y) /\ v \notin DontCares(x)
    BY <2>1, <2>2, MergeProperties
  <2>4. Cardinality(DontCares(Merged(e))) = n
    BY <2>2, <2>3, WidenProperties
  <2> QED
    BY <2>2, <2>3, <2>4 DEF Bracket, ImplicantsOf
<1>2. ASSUME NEW p \in Bracket(n + 1)
      PROVE  \E e \in Merges(Bracket(n)) : p = Merged(e)
  <2>1. p \in Implicant /\ Cube(p) \subseteq goal /\ Cardinality(DontCares(p)) = n
    BY DEF Bracket, ImplicantsOf
  <2>2. PICK v \in DontCares(p) : TRUE
    BY <2>1, FS_EmptySet
  <2> DEFINE x == [p EXCEPT ![v] = "FALSE"]
             y == [p EXCEPT ![v] = "TRUE"]
  <2>3. /\ x \in Implicant /\ y \in Implicant /\ v \in Variable
        /\ DifferAt(x, y, v) /\ Merged(<<x, y, v>>) = p
        /\ Cardinality(DontCares(x)) = n - 1 /\ Cardinality(DontCares(y)) = n - 1
    BY <2>1, SplitProperties DEF DontCares
  <2> HIDE DEF x, y
  <2>4. Cube(x) \subseteq goal /\ Cube(y) \subseteq goal
    BY <2>1, <2>3, MergeProperties
  <2>5. x \in Bracket(n) /\ y \in Bracket(n)
    BY <2>3, <2>4 DEF Bracket, ImplicantsOf
  <2>6. <<x, y, v>> \in Merges(Bracket(n))
    BY <2>3, <2>5 DEF Merges
  <2> QED
    BY <2>3, <2>6
<1> QED
  BY <1>1, <1>2

\* It marks the implicants of the bracket that are not prime.
LEMMA MarkedInBracket ==
  ASSUME NEW n \in Nat \ {0}
  PROVE  MarkedBy(Merges(Bracket(n))) = {p \in Bracket(n) : Widenable(p)}
<1>1. ASSUME NEW p \in MarkedBy(Merges(Bracket(n)))
      PROVE  p \in Bracket(n) /\ Widenable(p)
  <2>1. PICK x \in Bracket(n), y \in Bracket(n), v \in Variable :
          DifferAt(x, y, v) /\ p \in {x, y}
    BY DEF MarkedBy, Merges
  <2>2. x \in Implicant /\ Cube(x) \subseteq goal /\ y \in Implicant /\ Cube(y) \subseteq goal
    BY DEF Bracket, ImplicantsOf
  <2>3. /\ Merged(<<x, y, v>>) \in Implicant /\ Merged(<<x, y, v>>) = Widened(p, v)
        /\ Cube(Merged(<<x, y, v>>)) = Cube(x) \cup Cube(y) /\ v \notin DontCares(p)
    BY <2>1, <2>2, MergeProperties
  <2>4. Widened(p, v) \in ImplicantsOf(goal)
    BY <2>2, <2>3 DEF ImplicantsOf
  <2> QED
    BY <2>1, <2>3, <2>4 DEF Widenable
<1>2. ASSUME NEW p \in Bracket(n), Widenable(p)
      PROVE  p \in MarkedBy(Merges(Bracket(n)))
  <2>1. PICK v \in Variable \ DontCares(p) : Widened(p, v) \in ImplicantsOf(goal)
    BY <1>2 DEF Widenable
  <2>2. /\ p \in Implicant /\ Cardinality(DontCares(p)) = n - 1
        /\ Cube(Widened(p, v)) \subseteq goal
    BY <2>1 DEF Bracket, ImplicantsOf
  <2> DEFINE q == Widened(p, v)
             x == [q EXCEPT ![v] = "FALSE"]
             y == [q EXCEPT ![v] = "TRUE"]
  <2>3. q \in Implicant /\ v \in DontCares(q) /\ Cardinality(DontCares(q)) = n
    BY <2>2, WidenProperties
  <2>4. /\ x \in Implicant /\ y \in Implicant
        /\ DifferAt(x, y, v) /\ Merged(<<x, y, v>>) = q
        /\ Cardinality(DontCares(x)) = n - 1 /\ Cardinality(DontCares(y)) = n - 1
    BY <2>3, SplitProperties
  <2>5. p \in {x, y}
    <3>1. p \in [Variable -> Value] /\ p[v] \in {"FALSE", "TRUE"}
      BY <2>1, <2>2, DnfAssumption DEF DontCares, Value
    <3>2. CASE p[v] = "FALSE"
      <4>1. x = p
        BY <3>1, <3>2 DEF Widened
      <4> QED
        BY <4>1
    <3>3. CASE p[v] = "TRUE"
      <4>1. y = p
        BY <3>1, <3>3 DEF Widened
      <4> QED
        BY <4>1
    <3> QED
      BY <3>1, <3>2, <3>3
  <2> HIDE DEF q, x, y
  <2>6. x \in Bracket(n) /\ y \in Bracket(n)
    <3>1. Cube(x) \subseteq goal /\ Cube(y) \subseteq goal
      BY <2>2, <2>4, MergeProperties DEF q
    <3> QED
      BY <2>4, <3>1 DEF Bracket, ImplicantsOf
  <2>7. <<x, y, v>> \in Merges(Bracket(n))
    BY <2>4, <2>6 DEF Merges
  <2> QED
    BY <2>5, <2>7 DEF MarkedBy
<1> QED
  BY <1>1, <1>2

\* A bracket without a pair is the last: an implicant with as many DONT_CAREs
\* would have two others below it in the bracket.
LEMMA LastBracket ==
  ASSUME NEW n \in Nat \ {0}, Cardinality(Bracket(n)) <= 1, NEW p \in ImplicantsOf(goal)
  PROVE  Cardinality(DontCares(p)) < n
<1> SUFFICES ASSUME Cardinality(DontCares(p)) >= n
             PROVE  FALSE
  BY DontCaresFinite
<1>1. p \in Implicant /\ Cube(p) \subseteq goal
  BY DEF ImplicantsOf
<1> DEFINE c == Cardinality(DontCares(p))
<1>2. PICK f : f \in Bijection(1 .. c, DontCares(p))
  BY DontCaresFinite, FS_CardinalityType DEF ExistsBijection
<1>3. c \in Nat /\ n <= c /\ f \in [1 .. c -> DontCares(p)]
      /\ \A i, j \in 1 .. c : f[i] = f[j] => i = j
  BY <1>2, DontCaresFinite, Fun_BijectionProperties
<1> DEFINE S == {f[i] : i \in 1 .. n - 1}
           v == f[n]
           Half(b) == [w \in Variable |-> IF w = v THEN b
                                          ELSE IF w \in DontCares(p) \ S THEN "TRUE"
                                          ELSE p[w]]
<1>4. S \subseteq DontCares(p) /\ v \in DontCares(p) /\ v \notin S /\ v \in Variable
  BY <1>3 DEF DontCares
<1>5. Cardinality(S) = n - 1
  <2> DEFINE g == [i \in 1 .. n - 1 |-> f[i]]
  <2>1. g \in [1 .. n - 1 -> S] /\ \A i, j \in 1 .. n - 1 : g[i] = g[j] => i = j
    BY <1>3
  <2>2. \A t \in S : \E i \in 1 .. n - 1 : g[i] = t
    OBVIOUS
  <2>3. g \in Bijection(1 .. n - 1, S)
    BY <2>1, <2>2, Fun_IsBij
  <2>4. ExistsBijection(1 .. n - 1, S)
    BY <2>3 DEF ExistsBijection
  <2>5. n - 1 \in Nat
    OBVIOUS
  <2> QED
    BY <2>4, <2>5, FS_CountingElements
<1> HIDE DEF S, v
<1>6. ASSUME NEW b \in {"TRUE", "FALSE"}
      PROVE  Half(b) \in Bracket(n) /\ Half(b)[v] = b
  <2>1. p \in [Variable -> Value]
    BY <1>1, DnfAssumption
  <2>2. Half(b) \in Implicant
    BY <2>1, DnfAssumption DEF Value
  <2>3. DontCares(Half(b)) = S
    BY <1>4 DEF DontCares
  <2>4. Cube(Half(b)) \subseteq Cube(p)
    <3> SUFFICES ASSUME NEW m \in Cube(Half(b)), NEW w \in Variable
                 PROVE  p[w] \in {m[w], "DONT_CARE"}
      BY DEF Cube
    <3>1. Half(b)[w] \in {m[w], "DONT_CARE"}
      BY DEF Cube
    <3>2. w \notin DontCares(p) => Half(b)[w] = p[w]
      BY <1>4
    <3> QED
      BY <3>1, <3>2 DEF DontCares
  <2>5. Half(b)[v] = b
    BY <1>4
  <2> HIDE DEF Half
  <2> QED
    BY <1>1, <1>5, <2>2, <2>3, <2>4, <2>5 DEF Bracket, ImplicantsOf
<1> HIDE DEF Half
<1>7. Half("TRUE") # Half("FALSE")
  BY <1>6
<1>8. \A b \in {"TRUE", "FALSE"} : Half(b) \in Bracket(n)
  BY <1>6
<1>9. Cardinality(Bracket(n)) \in Nat /\ Bracket(n) # {}
  BY <1>8, BracketProperties, FS_CardinalityType
<1>10. Cardinality(Bracket(n)) = 1
  BY <1>9, BracketProperties, FS_EmptySet
<1>11. PICK q : Bracket(n) = {q}
  BY <1>10, BracketProperties, FS_Singleton
<1> QED
  BY <1>7, <1>8, <1>11

\* Above every implicant of a function there is a prime one.
LEMMA PrimeAbove ==
  ASSUME NEW q \in ImplicantsOf(goal)
  PROVE  \E p \in ImplicantsOf(goal) : ~Widenable(p) /\ Cube(q) \subseteq Cube(p)
<1> DEFINE Above == {p \in ImplicantsOf(goal) : Cube(q) \subseteq Cube(p)}
           Fixed(p) == Variable \ DontCares(p)
           R == StrictSubsetOrdering(Variable)
<1>1. IsWellFoundedOn(R, SUBSET Variable)
  BY VariableFinite, FS_StrictSubsetOrderingWellFounded, FS_FiniteSubsetsOfFinite
<1>2. {Fixed(p) : p \in Above} \subseteq SUBSET Variable /\ {Fixed(p) : p \in Above} # {}
  OBVIOUS
<1>3. PICK s \in {Fixed(p) : p \in Above} : \A t \in {Fixed(p) : p \in Above} : <<t, s>> \notin R
  BY <1>1, <1>2, WFMin
<1>4. PICK p \in Above : s = Fixed(p)
  BY <1>3
<1>5. ASSUME Widenable(p)
      PROVE  FALSE
  <2>1. PICK v \in Variable \ DontCares(p) : Widened(p, v) \in ImplicantsOf(goal)
    BY <1>5 DEF Widenable
  <2>2. p \in Implicant
    BY DEF ImplicantsOf
  <2>3. /\ Cube(p) \subseteq Cube(Widened(p, v))
        /\ DontCares(Widened(p, v)) = DontCares(p) \cup {v}
    BY <2>1, <2>2, WidenProperties
  <2>4. Widened(p, v) \in Above
    BY <2>1, <2>3
  <2>5. <<Fixed(Widened(p, v)), Fixed(p)>> \in R
    BY <2>1, <2>3 DEF StrictSubsetOrdering
  <2> QED
    BY <1>3, <1>4, <2>4, <2>5
<1> QED
  BY <1>4, <1>5

\* Of two implicants, the one with all the minterms of the other has its values
\* or DONT_CAREs.
LEMMA CubeInclusion ==
  ASSUME NEW p \in Implicant, NEW q \in Implicant, Cube(p) \subseteq Cube(q)
  PROVE  \A v \in Variable : q[v] \in {p[v], "DONT_CARE"}
<1> SUFFICES ASSUME NEW v \in Variable
             PROVE  q[v] \in {p[v], "DONT_CARE"}
  OBVIOUS
<1> DEFINE With(b) == [w \in Variable |-> IF p[w] = "DONT_CARE" THEN b ELSE p[w]]
<1>1. \A w \in Variable : p[w] \in Value
  BY DnfAssumption
<1>2. ASSUME NEW b \in {"TRUE", "FALSE"}
      PROVE  q[v] \in {With(b)[v], "DONT_CARE"}
  <2>1. With(b) \in Minterm
    BY <1>1 DEF Minterm, Value
  <2>2. With(b) \in Cube(p)
    BY <2>1 DEF Cube
  <2> HIDE DEF With
  <2> QED
    BY <2>2 DEF Cube
<1>3. CASE p[v] = "DONT_CARE"
  BY <1>2, <1>3
<1>4. CASE p[v] # "DONT_CARE"
  BY <1>2, <1>4
<1> QED
  BY <1>3, <1>4

\* The implicants that cannot be widened in one variable are the prime ones.
LEMMA PrimesCannotBeWidened ==
  PrimesOf(goal) = {p \in ImplicantsOf(goal) : ~Widenable(p)}
<1>1. ASSUME NEW p \in ImplicantsOf(goal), Widenable(p)
      PROVE  p \notin PrimesOf(goal)
  <2>1. PICK v \in Variable \ DontCares(p) : Widened(p, v) \in ImplicantsOf(goal)
    BY <1>1 DEF Widenable
  <2>2. p \in Implicant
    BY DEF ImplicantsOf
  <2>3. /\ Cube(p) \subseteq Cube(Widened(p, v))
        /\ DontCares(Widened(p, v)) = DontCares(p) \cup {v}
    BY <2>1, <2>2, WidenProperties
  <2>4. Widened(p, v) # p
    BY <2>1, <2>3
  <2> QED
    BY <2>1, <2>3, <2>4 DEF PrimesOf
<1>2. ASSUME NEW p \in ImplicantsOf(goal), NEW q \in ImplicantsOf(goal),
             Cube(p) \subseteq Cube(q), q # p
      PROVE  Widenable(p)
  <2>1. /\ p \in Implicant /\ q \in Implicant /\ Cube(q) \subseteq goal
        /\ p \in [Variable -> Value] /\ q \in [Variable -> Value]
    BY DnfAssumption DEF ImplicantsOf
  <2>2. PICK v \in Variable : q[v] # p[v]
    BY <1>2, <2>1
  <2>3. \A w \in Variable : q[w] \in {p[w], "DONT_CARE"}
    BY <1>2, <2>1, CubeInclusion
  <2>4. q[v] = "DONT_CARE" /\ v \in Variable \ DontCares(p)
    BY <2>2, <2>3 DEF DontCares
  <2>5. Widened(p, v) \in Implicant
    BY <2>1, <2>4, WidenProperties
  <2>6. \A w \in Variable \ {v} : Widened(p, v)[w] = p[w]
    BY <2>1 DEF Widened
  <2>7. Cube(Widened(p, v)) \subseteq Cube(q)
    BY <2>3, <2>4, <2>6 DEF Cube
  <2> QED
    BY <2>1, <2>4, <2>5, <2>7 DEF Widenable, ImplicantsOf
<1> QED
  BY <1>1, <1>2 DEF PrimesOf

-----------------------------------------------------------------------------
\* One lemma for each action: it preserves the invariant.

\* A clause that is not valid has no minterms, and the implicant of a valid one
\* has just those that satisfy it.
LEMMA ClauseProperties ==
  ASSUME NEW c \in SUBSET Literal
  PROVE  {m \in Minterm : Satisfies(m, c)} =
           IF Valid(c) THEN Cube(ToImplicant(c)) ELSE {}
<1>1. ASSUME NEW m \in Minterm
      PROVE  Satisfies(m, c) <=> /\ \A v \in Variable : <<v, "TRUE">> \in c => m[v] = "TRUE"
                                 /\ \A v \in Variable : <<v, "FALSE">> \in c => m[v] = "FALSE"
  <2>1. Satisfies(m, c) => /\ \A v \in Variable : <<v, "TRUE">> \in c => m[v] = "TRUE"
                           /\ \A v \in Variable : <<v, "FALSE">> \in c => m[v] = "FALSE"
    BY DEF Satisfies
  <2>2. ASSUME \A v \in Variable : <<v, "TRUE">> \in c => m[v] = "TRUE",
               \A v \in Variable : <<v, "FALSE">> \in c => m[v] = "FALSE",
               NEW l \in c
        PROVE  m[l[1]] = l[2]
    <3>1. PICK v \in Variable, b \in {"TRUE", "FALSE"} : l = <<v, b>>
      BY DEF Literal
    <3> QED
      BY <2>2, <3>1
  <2> QED
    BY <2>1, <2>2 DEF Satisfies
<1>2. CASE ~Valid(c)
  BY <1>1, <1>2 DEF Valid
<1>3. CASE Valid(c)
  <2>1. ASSUME NEW m \in Minterm
        PROVE  Satisfies(m, c) <=> m \in Cube(ToImplicant(c))
    <3>1. \A v \in Variable : m[v] \in {"TRUE", "FALSE"}
      BY DEF Minterm
    <3>2. \A v \in Variable : ~(<<v, "TRUE">> \in c /\ <<v, "FALSE">> \in c)
      BY <1>3 DEF Valid
    <3>3. m \in Cube(ToImplicant(c)) <=>
            \A v \in Variable : ToImplicant(c)[v] \in {m[v], "DONT_CARE"}
      BY DEF Cube
    <3> QED
      BY <1>1, <3>1, <3>2, <3>3 DEF ToImplicant
  <2>2. Cube(ToImplicant(c)) \subseteq Minterm
    BY DEF Cube
  <2> QED
    BY <1>3, <2>1, <2>2
<1> QED
  BY <1>2, <1>3

LEMMA MinimizeInitOK == MinimizeInit => MinimizeInv
<1> SUFFICES ASSUME MinimizeInit PROVE MinimizeInv
  OBVIOUS
<1>1. /\ pc = "read" /\ DOMAIN mintermIDs = {} /\ DOMAIN coveringImplicants = {}
      /\ StartSearch /\ sizeBrackets = <<{}>> /\ expansion = {} /\ marked = {}
      /\ clauses \in Seq(SUBSET Literal)
      /\ goal = {m \in Minterm : \E n \in DOMAIN clauses : Satisfies(m, clauses[n])}
  BY DnfAssumption DEF MinimizeInit
<1>2. sizeBrackets[1] = {} /\ Cardinality(sizeBrackets[1]) = 0
  BY <1>1, FS_EmptySet
<1>3. NumbersExact /\ NumbersDense
  BY <1>1, <1>2 DEF NumbersExact, NumbersDense
<1>4. Reading
  BY <1>1 DEF Reading
<1>5. mintermIDs \in [DOMAIN mintermIDs -> SUBSET Nat]
  BY <1>1 DEF MinimizeInit
<1> QED
  BY <1>1, <1>3, <1>4, <1>5 DEF MinimizeInv

LEMMA ReadClauseKeeps ==
  ASSUME MinimizeInv, ReadClause
  PROVE  MinimizeInv'
<1>1. /\ pc = "read" /\ expansion = {} /\ clauses # << >> /\ clauses' = Tail(clauses)
      /\ expansion' = IF Valid(Head(clauses)) THEN Cube(ToImplicant(Head(clauses))) ELSE {}
      /\ pc' = "read"
      /\ UNCHANGED <<mintermIDs, coveringImplicants, covered, currentDNF, frames, position,
                     bestDNF, bestNumOfTerms, sizeBrackets, marked, goal>>
  BY DEF ReadClause, primeVars, chartVars, searchVars
<1>2. Reading /\ NumbersExact /\ NumbersDense /\ StartSearch /\ goal \subseteq Minterm
      /\ DOMAIN coveringImplicants = {}
  BY <1>1 DEF MinimizeInv
<1>3. NumbersExact' /\ NumbersDense' /\ StartSearch'
  <2>1. NumbersExact'
    BY <1>1, <1>2 DEF NumbersExact
  <2>2. NumbersDense'
    BY <1>1, <1>2 DEF NumbersDense
  <2>3. StartSearch'
    BY <1>1, <1>2 DEF StartSearch
  <2> QED
    BY <2>1, <2>2, <2>3
<1>4. /\ clauses \in Seq(SUBSET Literal) /\ Len(clauses) \in Nat \ {0}
      /\ DOMAIN clauses = 1 .. Len(clauses)
      /\ Head(clauses) = clauses[1] /\ clauses[1] \subseteq Literal
  BY <1>1, <1>2, EmptySeq DEF Reading
<1>5. /\ clauses' \in Seq(SUBSET Literal) /\ Len(clauses') = Len(clauses) - 1
      /\ DOMAIN clauses' = 1 .. Len(clauses) - 1
      /\ \A n \in 1 .. Len(clauses) - 1 : clauses'[n] = clauses[n + 1]
  BY <1>1, <1>4, HeadTailProperties
<1>6. expansion' = {m \in Minterm : Satisfies(m, clauses[1])}
  BY <1>1, <1>4, ClauseProperties
<1>7. ASSUME NEW m \in Minterm
      PROVE  (\E n \in DOMAIN clauses : Satisfies(m, clauses[n])) <=>
               m \in expansion' \/ \E n \in DOMAIN clauses' : Satisfies(m, clauses'[n])
  <2>1. ASSUME NEW n \in DOMAIN clauses, Satisfies(m, clauses[n]), n # 1
        PROVE  \E k \in DOMAIN clauses' : Satisfies(m, clauses'[k])
    <3>1. n - 1 \in DOMAIN clauses' /\ clauses'[n - 1] = clauses[n]
      BY <1>4, <1>5, <2>1
    <3> QED
      BY <2>1, <3>1
  <2>2. ASSUME NEW k \in DOMAIN clauses', Satisfies(m, clauses'[k])
        PROVE  \E n \in DOMAIN clauses : Satisfies(m, clauses[n])
    <3>1. k + 1 \in DOMAIN clauses /\ clauses'[k] = clauses[k + 1]
      BY <1>4, <1>5
    <3> QED
      BY <2>2, <3>1
  <2>3. m \in expansion' <=> Satisfies(m, clauses[1])
    BY <1>6
  <2>4. 1 \in DOMAIN clauses
    BY <1>4
  <2> QED
    BY <2>1, <2>2, <2>3, <2>4
<1>8. expansion' \subseteq Minterm
  BY <1>6
<1>9. goal = DOMAIN mintermIDs \cup expansion' \cup
             {m \in Minterm : \E n \in DOMAIN clauses' : Satisfies(m, clauses'[n])}
  <2>1. goal = DOMAIN mintermIDs \cup
               {m \in Minterm : \E n \in DOMAIN clauses : Satisfies(m, clauses[n])}
    BY <1>1, <1>2 DEF Reading
  <2> QED
    BY <1>7, <1>8, <2>1
<1>10. Reading'
  BY <1>1, <1>2, <1>5, <1>8, <1>9 DEF Reading
<1> QED
  BY <1>1, <1>2, <1>3, <1>10 DEF MinimizeInv

LEMMA AddMintermKeeps ==
  ASSUME MinimizeInv, AddMinterm
  PROVE  MinimizeInv'
<1>1. PICK m \in expansion :
        /\ pc = "read" /\ expansion' = expansion \ {m}
        /\ mintermIDs' = Number(m)
        /\ sizeBrackets' = [sizeBrackets EXCEPT ![1] = @ \cup {m}]
        /\ pc' = "read"
        /\ UNCHANGED <<coveringImplicants, covered, currentDNF, frames, position,
                       bestDNF, bestNumOfTerms, clauses, marked, goal>>
  BY DEF AddMinterm, searchVars
<1>2. Reading /\ NumbersExact /\ NumbersDense /\ StartSearch /\ goal \subseteq Minterm
      /\ DOMAIN coveringImplicants = {}
  BY <1>1 DEF MinimizeInv
<1>3. StartSearch'
  BY <1>1, <1>2 DEF StartSearch
<1> DEFINE B == DOMAIN mintermIDs
           c == Cardinality(B)
<1>4. /\ m \in Minterm /\ B \subseteq Minterm /\ sizeBrackets = <<B>>
      /\ sizeBrackets[1] = B /\ expansion \subseteq Minterm
  BY <1>2 DEF Reading
<1>5. DOMAIN mintermIDs' = B \cup {m} /\ sizeBrackets' = <<B \cup {m}>>
      /\ sizeBrackets'[1] = B \cup {m}
  BY <1>1, <1>4 DEF Number
<1>6. /\ \A k \in B : mintermIDs'[k] = mintermIDs[k]
      /\ m \notin B => mintermIDs'[m] = {c}
  BY <1>1 DEF Number
<1>7. IsFiniteSet(B) /\ c \in Nat
      /\ Cardinality(B \cup {m}) = IF m \in B THEN c ELSE c + 1
  <2>1. B \subseteq Implicant
    BY <1>4, MintermProperties
  <2> QED
    BY <2>1, ChartAssumption, FS_Subset, FS_CardinalityType, FS_AddElement
<1>8. /\ \A k \in B : \E i \in 0 .. c - 1 : mintermIDs[k] = {i}
      /\ \A i \in 0 .. c - 1 : \E k \in B : mintermIDs[k] = {i}
  BY <1>2, <1>4 DEF NumbersDense
<1>9. \A k, n \in B : mintermIDs[k] = mintermIDs[n] => k = n
  BY <1>2, <1>4 DEF NumbersExact
<1> HIDE DEF B, c
<1>10. NumbersDense'
  <2>1. CASE m \in B
    <3>1. sizeBrackets'[1] = B /\ Cardinality(sizeBrackets'[1]) = c
      BY <1>5, <1>7, <2>1
    <3>2. DOMAIN mintermIDs' \cap Minterm = B
      BY <1>4, <1>5, <2>1
    <3>3. /\ \A k \in B : \E i \in 0 .. c - 1 : mintermIDs'[k] = {i}
          /\ \A i \in 0 .. c - 1 : \E k \in B : mintermIDs'[k] = {i}
      BY <1>6, <1>8
    <3> QED
      BY <3>1, <3>2, <3>3 DEF NumbersDense
  <2>2. CASE m \notin B
    <3>1. Cardinality(sizeBrackets[1])' - 1 = c
      BY <1>5, <1>7, <2>2
    <3>2. \A k \in B \cup {m} : \E i \in 0 .. c : mintermIDs'[k] = {i}
      <4>1. \A k \in B : \E i \in 0 .. c : mintermIDs'[k] = {i}
        BY <1>6, <1>7, <1>8
      <4>2. c \in 0 .. c /\ mintermIDs'[m] = {c}
        BY <1>6, <1>7, <2>2
      <4> QED
        BY <4>1, <4>2
    <3>3. \A i \in 0 .. c : \E k \in B \cup {m} : mintermIDs'[k] = {i}
      <4>1. ASSUME NEW i \in 0 .. c
            PROVE  i \in 0 .. c - 1 \/ i = c
        BY <1>7
      <4>2. \A i \in 0 .. c - 1 : \E k \in B : mintermIDs'[k] = {i}
        BY <1>6, <1>8
      <4> QED
        BY <1>6, <2>2, <4>1, <4>2
    <3>4. DOMAIN mintermIDs' \cap Minterm = B \cup {m}
      BY <1>4, <1>5
    <3> QED
      BY <3>1, <3>2, <3>3, <3>4 DEF NumbersDense
  <2> QED
    BY <2>1, <2>2
<1>11. NumbersExact'
  <2>1. ASSUME NEW k \in B \cup {m}
        PROVE  mintermIDs'[k] = UNION {mintermIDs'[n] : n \in Cube(k)}
    <3>1. Cube(k) = {k}
      BY <1>4, MintermProperties
    <3>2. {mintermIDs'[n] : n \in Cube(k)} = {mintermIDs'[k]}
      BY <3>1
    <3> QED
      BY <3>2
  <2>2. ASSUME NEW k \in B \cup {m}, NEW n \in B \cup {m}, mintermIDs'[k] = mintermIDs'[n]
        PROVE  k = n
    <3>1. CASE k \in B /\ n \in B
      BY <1>6, <1>9, <2>2, <3>1
    <3>2. CASE m \notin B /\ (k = m \/ n = m)
      <4>1. \A j \in B : mintermIDs'[j] # {c}
        BY <1>6, <1>7, <1>8
      <4> QED
        BY <1>6, <2>2, <3>2, <4>1
    <3> QED
      BY <3>1, <3>2
  <2> QED
    BY <1>5, <2>1, <2>2 DEF NumbersExact
<1>12. Reading'
  BY <1>1, <1>2, <1>4, <1>5 DEF Reading, B
<1>13. mintermIDs' \in [DOMAIN mintermIDs' -> SUBSET Nat]
  <2>1. mintermIDs \in [B -> SUBSET Nat]
    BY DEF MinimizeInv, B
  <2>2. \A k \in B \cup {m} : mintermIDs'[k] \subseteq Nat
    BY <1>6, <1>7, <2>1
  <2> QED
    BY <1>1, <1>5, <2>2 DEF Number
<1> QED
  BY <1>1, <1>2, <1>3, <1>10, <1>11, <1>12, <1>13 DEF MinimizeInv

\* The first bracket holds the minterms of the circuit.
LEMMA FirstBracket ==
  ASSUME goal \subseteq Minterm
  PROVE  Bracket(1) = goal
<1>1. ASSUME NEW m \in goal
      PROVE  m \in Bracket(1)
  <2>1. m \in Implicant /\ Cube(m) = {m} /\ Cardinality(DontCares(m)) = 0
    BY MintermProperties, FS_EmptySet
  <2> QED
    BY <2>1 DEF Bracket, ImplicantsOf
<1>2. ASSUME NEW p \in Bracket(1)
      PROVE  p \in goal
  <2>1. p \in Implicant /\ Cube(p) \subseteq goal /\ Cardinality(DontCares(p)) = 0
    BY DEF Bracket, ImplicantsOf
  <2>2. DontCares(p) = {}
    BY <2>1, DontCaresFinite, FS_EmptySet
  <2> QED
    BY <2>1, <2>2, MintermProperties
<1> QED
  BY <1>1, <1>2

LEMMA AllReadKeeps ==
  ASSUME MinimizeInv, AllRead
  PROVE  MinimizeInv'
<1>1. /\ pc = "read" /\ expansion = {} /\ clauses = << >> /\ pc' = "merge"
      /\ UNCHANGED <<mintermIDs, coveringImplicants, covered, currentDNF, frames, position,
                     bestDNF, bestNumOfTerms, sizeBrackets, marked, goal>>
  BY DEF AllRead, chartVars, mergeVars
<1>2. Reading /\ NumbersExact /\ NumbersDense /\ StartSearch /\ goal \subseteq Minterm
      /\ DOMAIN coveringImplicants = {}
  BY <1>1 DEF MinimizeInv
<1>3. NumbersExact' /\ NumbersDense' /\ StartSearch'
  <2>1. NumbersExact'
    BY <1>1, <1>2 DEF NumbersExact
  <2>2. NumbersDense'
    BY <1>1, <1>2 DEF NumbersDense
  <2>3. StartSearch'
    BY <1>1, <1>2 DEF StartSearch
  <2> QED
    BY <2>1, <2>2, <2>3
<1>4. goal = DOMAIN mintermIDs /\ sizeBrackets = <<goal>> /\ marked = {}
  <2>1. DOMAIN clauses = {}
    BY <1>1
  <2> QED
    BY <1>1, <1>2, <2>1 DEF Reading
<1>5. Bracket(1) = goal
  BY <1>2, FirstBracket
<1>6. Merging
  <2>1. /\ sizeBrackets # << >> /\ Len(sizeBrackets) = 1 /\ DOMAIN sizeBrackets = {1}
        /\ sizeBrackets[1] = goal
    BY <1>4
  <2>2. goal \subseteq Implicant
    BY <1>2, MintermProperties
  <2>3. sizeBrackets \in Seq(SUBSET Implicant)
    BY <1>4, <2>2
  <2>4. UNION {sizeBrackets[n] : n \in DOMAIN sizeBrackets} = goal
    BY <2>1
  <2>5. UNION {{p \in Bracket(n) : Widenable(p)} : n \in 1 .. 0} = {}
    OBVIOUS
  <2> QED
    BY <1>4, <1>5, <2>1, <2>3, <2>4, <2>5 DEF Merging
<1>7. Merging'
  BY <1>1, <1>6 DEF Merging, Bracket, Widenable, ImplicantsOf
<1> QED
  BY <1>1, <1>2, <1>3, <1>7 DEF MinimizeInv

\* What the brackets hold while they are merged: different brackets have
\* nothing in common, and the first are the minterms of the circuit.
LEMMA MergingFacts ==
  ASSUME Merging, goal \subseteq Minterm
  PROVE  /\ Len(sizeBrackets) \in Nat \ {0}
         /\ DOMAIN sizeBrackets = 1 .. Len(sizeBrackets)
         /\ Last(sizeBrackets) = Bracket(Len(sizeBrackets))
         /\ sizeBrackets[1] = goal
         /\ goal \subseteq DOMAIN mintermIDs
         /\ DOMAIN mintermIDs \subseteq ImplicantsOf(goal)
         /\ \A p \in DOMAIN mintermIDs : Cardinality(DontCares(p)) < Len(sizeBrackets)
<1>1. Len(sizeBrackets) \in Nat \ {0} /\ DOMAIN sizeBrackets = 1 .. Len(sizeBrackets)
  BY EmptySeq, LenProperties DEF Merging
<1>2. Last(sizeBrackets) = Bracket(Len(sizeBrackets))
  BY <1>1 DEF Merging, Last
<1>3. sizeBrackets[1] = Bracket(1)
  BY <1>1 DEF Merging
<1>4. Bracket(1) = goal
  <2>1. ASSUME NEW m \in goal
        PROVE  m \in Bracket(1)
    <3>1. m \in Implicant /\ Cube(m) = {m} /\ Cardinality(DontCares(m)) = 0
      BY MintermProperties, FS_EmptySet
    <3> QED
      BY <3>1 DEF Bracket, ImplicantsOf
  <2>2. ASSUME NEW p \in Bracket(1)
        PROVE  p \in goal
    <3>1. p \in Implicant /\ Cube(p) \subseteq goal /\ Cardinality(DontCares(p)) = 0
      BY DEF Bracket, ImplicantsOf
    <3>2. DontCares(p) = {}
      BY <3>1, DontCaresFinite, FS_EmptySet
    <3> QED
      BY <3>1, <3>2, MintermProperties
  <2> QED
    BY <2>1, <2>2
<1>5. goal \subseteq DOMAIN mintermIDs
  BY <1>1, <1>3, <1>4 DEF Merging
<1>6. ASSUME NEW p \in DOMAIN mintermIDs
      PROVE  p \in ImplicantsOf(goal) /\ Cardinality(DontCares(p)) < Len(sizeBrackets)
  <2>1. PICK n \in 1 .. Len(sizeBrackets) : p \in Bracket(n)
    BY <1>1 DEF Merging
  <2> QED
    BY <1>1, <2>1 DEF Bracket
<1> QED
  BY <1>1, <1>2, <1>3, <1>4, <1>5, <1>6

LEMMA MergeBracketKeeps ==
  ASSUME MinimizeInv, MergeBracket
  PROVE  MinimizeInv'
<1> DEFINE n == Len(sizeBrackets)
           merges == Merges(Last(sizeBrackets))
           next == {Merged(e) : e \in merges}
<1>1. /\ pc = "merge" /\ pc' = "merge"
      /\ marked' = marked \cup MarkedBy(merges)
      /\ sizeBrackets' = Append(sizeBrackets, next)
      /\ mintermIDs' = [p \in DOMAIN mintermIDs \cup next |->
              IF p \in next
                THEN LET e == CHOOSE e \in merges : Merged(e) = p
                     IN  mintermIDs[e[1]] \cup mintermIDs[e[2]]
                ELSE mintermIDs[p]]
      /\ UNCHANGED <<coveringImplicants, covered, currentDNF, frames, position,
                     bestDNF, bestNumOfTerms, goal>>
  BY DEF MergeBracket, searchVars
<1>2. Merging /\ NumbersExact /\ NumbersDense /\ StartSearch /\ goal \subseteq Minterm
      /\ DOMAIN coveringImplicants = {}
  BY <1>1 DEF MinimizeInv
<1>3. StartSearch'
  BY <1>1, <1>2 DEF StartSearch
<1>4. /\ n \in Nat \ {0} /\ DOMAIN sizeBrackets = 1 .. n
      /\ Last(sizeBrackets) = Bracket(n) /\ sizeBrackets[1] = goal
      /\ goal \subseteq DOMAIN mintermIDs /\ DOMAIN mintermIDs \subseteq ImplicantsOf(goal)
      /\ \A p \in DOMAIN mintermIDs : Cardinality(DontCares(p)) < n
  BY <1>2, MergingFacts
<1>5. next = Bracket(n + 1) /\ MarkedBy(merges) = {p \in Bracket(n) : Widenable(p)}
  BY <1>4, NextBracket, MarkedInBracket
<1>6. next \subseteq Implicant
  BY <1>5, BracketProperties
<1>7. next \cap DOMAIN mintermIDs = {}
  <2>1. \A p \in next : Cardinality(DontCares(p)) = n
    BY <1>4, <1>5 DEF Bracket
  <2> QED
    BY <1>4, <2>1
<1>8. /\ sizeBrackets' \in Seq(SUBSET Implicant) /\ sizeBrackets' # << >>
      /\ Len(sizeBrackets') = n + 1 /\ DOMAIN sizeBrackets' = 1 .. n + 1
      /\ \A k \in 1 .. n : sizeBrackets'[k] = sizeBrackets[k]
      /\ sizeBrackets'[n + 1] = next
  <2>1. sizeBrackets \in Seq(SUBSET Implicant)
    BY <1>2 DEF Merging
  <2> HIDE DEF next
  <2> QED
    BY <1>1, <1>6, <2>1, AppendProperties, LenProperties
<1>9. ASSUME NEW e \in merges
      PROVE  /\ e[1] \in DOMAIN mintermIDs /\ e[2] \in DOMAIN mintermIDs
             /\ Cube(Merged(e)) = Cube(e[1]) \cup Cube(e[2])
  <2>1. PICK x \in Bracket(n), y \in Bracket(n), v \in Variable :
          e = <<x, y, v>> /\ DifferAt(x, y, v)
    BY <1>4 DEF Merges
  <2>2. x \in Implicant /\ y \in Implicant
    BY BracketProperties
  <2>3. Bracket(n) \subseteq DOMAIN mintermIDs
    BY <1>2, <1>4 DEF Merging
  <2> QED
    BY <2>1, <2>2, <2>3, MergeProperties
<1> HIDE DEF n, merges
<1>10. ASSUME NEW p \in next
       PROVE  \E x, y \in DOMAIN mintermIDs :
                 /\ mintermIDs'[p] = mintermIDs[x] \cup mintermIDs[y]
                 /\ Cube(p) = Cube(x) \cup Cube(y)
  <2> DEFINE e == CHOOSE e \in merges : Merged(e) = p
  <2>1. e \in merges /\ Merged(e) = p
    OBVIOUS
  <2>2. mintermIDs'[p] = mintermIDs[e[1]] \cup mintermIDs[e[2]]
    BY <1>1
  <2> HIDE DEF e
  <2> QED
    BY <1>9, <2>1, <2>2
<1> HIDE DEF next
<1>11. /\ DOMAIN mintermIDs' = DOMAIN mintermIDs \cup next
       /\ \A p \in DOMAIN mintermIDs : mintermIDs'[p] = mintermIDs[p]
  BY <1>1, <1>7
<1>12. DOMAIN mintermIDs' \cap Minterm = DOMAIN mintermIDs \cap Minterm
  <2>1. ASSUME NEW p \in next \cap Minterm
        PROVE  FALSE
    <3>1. Cardinality(DontCares(p)) = n /\ DontCares(p) = {}
      BY <1>4, <1>5, MintermProperties DEF Bracket
    <3> QED
      BY <1>4, <3>1, FS_EmptySet
  <2> QED
    BY <1>11, <2>1
<1>13. NumbersDense'
  <2>1. sizeBrackets'[1] = sizeBrackets[1]
    BY <1>4, <1>8
  <2> DEFINE numbers == 0 .. Cardinality(sizeBrackets[1]) - 1
             counted == DOMAIN mintermIDs \cap Minterm
  <2>2. /\ \A m \in counted : \E i \in numbers : mintermIDs[m] = {i}
        /\ \A i \in numbers : \E m \in counted : mintermIDs[m] = {i}
    BY <1>2 DEF NumbersDense
  <2>3. \A m \in counted : mintermIDs'[m] = mintermIDs[m]
    BY <1>11
  <2> HIDE DEF numbers, counted
  <2>4. /\ \A m \in counted : \E i \in numbers : mintermIDs'[m] = {i}
        /\ \A i \in numbers : \E m \in counted : mintermIDs'[m] = {i}
    BY <2>2, <2>3
  <2> QED
    BY <1>12, <2>1, <2>4 DEF NumbersDense, numbers, counted
<1>14. ASSUME NEW p \in DOMAIN mintermIDs'
       PROVE  mintermIDs'[p] = UNION {mintermIDs'[m] : m \in Cube(p)}
  <2>1. ASSUME NEW x \in DOMAIN mintermIDs
        PROVE  mintermIDs[x] = UNION {mintermIDs'[m] : m \in Cube(x)}
    <3>1. Cube(x) \subseteq DOMAIN mintermIDs
      BY <1>4 DEF ImplicantsOf
    <3>2. \A m \in Cube(x) : mintermIDs'[m] = mintermIDs[m]
      BY <1>11, <3>1
    <3>3. mintermIDs[x] = UNION {mintermIDs[m] : m \in Cube(x)}
      BY <1>2 DEF NumbersExact
    <3> QED
      BY <3>2, <3>3
  <2>2. CASE p \in DOMAIN mintermIDs
    BY <1>11, <2>1, <2>2
  <2>3. CASE p \in next
    <3>1. PICK x \in DOMAIN mintermIDs, y \in DOMAIN mintermIDs :
             /\ mintermIDs'[p] = mintermIDs[x] \cup mintermIDs[y]
             /\ Cube(p) = Cube(x) \cup Cube(y)
      BY <1>10, <2>3
    <3>2. /\ mintermIDs[x] = UNION {mintermIDs'[m] : m \in Cube(x)}
          /\ mintermIDs[y] = UNION {mintermIDs'[m] : m \in Cube(y)}
      BY <2>1
    <3> QED
      BY <3>1, <3>2
  <2> QED
    BY <1>11, <2>2, <2>3
<1>15. NumbersExact'
  <2>1. ASSUME NEW k \in DOMAIN mintermIDs' \cap Minterm, NEW m \in DOMAIN mintermIDs' \cap Minterm,
               mintermIDs'[k] = mintermIDs'[m]
        PROVE  k = m
    BY <1>2, <1>11, <1>12, <2>1 DEF NumbersExact
  <2> QED
    BY <1>14, <2>1 DEF NumbersExact
<1>16. Merging'
  <2>1. \A k : Bracket(k)' = Bracket(k)
    BY <1>1 DEF Bracket, ImplicantsOf
  <2>2. \A p : Widenable(p)' <=> Widenable(p)
    BY <1>1 DEF Widenable, ImplicantsOf
  <2>3. \A k \in 1 .. n + 1 : sizeBrackets'[k] = Bracket(k)
    <3>1. \A k \in 1 .. n : sizeBrackets'[k] = Bracket(k)
      BY <1>2, <1>4, <1>8 DEF Merging
    <3>2. \A k \in 1 .. n + 1 : k \in 1 .. n \/ k = n + 1
      BY <1>4
    <3> QED
      BY <1>5, <1>8, <3>1, <3>2
  <2>4. 1 .. n + 1 = (1 .. n) \cup {n + 1}
    BY <1>4
  <2>5. DOMAIN mintermIDs' = UNION {sizeBrackets'[k] : k \in DOMAIN sizeBrackets'}
    <3>1. DOMAIN mintermIDs = UNION {sizeBrackets[k] : k \in 1 .. n}
      BY <1>2, <1>4 DEF Merging
    <3>2. DOMAIN mintermIDs = UNION {sizeBrackets'[k] : k \in 1 .. n}
      BY <1>8, <3>1
    <3> QED
      BY <1>8, <1>11, <2>4, <3>2
  <2>6. marked' = UNION {{p \in Bracket(k) : Widenable(p)} : k \in 1 .. n}
    <3>1. marked = UNION {{p \in Bracket(k) : Widenable(p)} : k \in 1 .. n - 1}
      BY <1>2 DEF Merging, n
    <3>2. 1 .. n = (1 .. n - 1) \cup {n}
      BY <1>4
    <3> QED
      BY <1>1, <1>5, <3>1, <3>2
  <2>7. marked' = UNION {{p \in Bracket(k)' : Widenable(p)'} : k \in 1 .. Len(sizeBrackets') - 1}
    <3>1. Len(sizeBrackets') - 1 = n
      BY <1>4, <1>8
    <3> QED
      BY <2>1, <2>2, <2>6, <3>1
  <2>8. \A k \in DOMAIN sizeBrackets' : sizeBrackets'[k] = Bracket(k)'
    BY <1>8, <2>1, <2>3
  <2> QED
    BY <1>8, <2>5, <2>7, <2>8 DEF Merging
<1>17. mintermIDs' \in [DOMAIN mintermIDs' -> SUBSET Nat]
  <2>1. \A p \in DOMAIN mintermIDs : mintermIDs[p] \subseteq Nat
    BY DEF MinimizeInv
  <2>2. \A p \in DOMAIN mintermIDs' : mintermIDs'[p] \subseteq Nat
    <3>1. \A p \in next : mintermIDs'[p] \subseteq Nat
      BY <1>10, <2>1
    <3> QED
      BY <1>11, <2>1, <3>1
  <2>3. mintermIDs' = [p \in DOMAIN mintermIDs' |-> mintermIDs'[p]]
    BY <1>1
  <2> QED
    BY <2>2, <2>3
<1> QED
  BY <1>1, <1>2, <1>3, <1>13, <1>15, <1>16, <1>17 DEF MinimizeInv

\* When no pair is left, the brackets hold every implicant of the circuit, and
\* the unmarked ones are prime.
LEMMA AllMerged ==
  ASSUME Merging, goal \subseteq Minterm, Cardinality(Last(sizeBrackets)) <= 1
  PROVE  /\ DOMAIN mintermIDs = ImplicantsOf(goal)
         /\ ListedImplicants(sizeBrackets) = {p \in ImplicantsOf(goal) : ~Widenable(p)}
<1> DEFINE n == Len(sizeBrackets)
<1>1. /\ n \in Nat \ {0} /\ DOMAIN sizeBrackets = 1 .. n
      /\ Last(sizeBrackets) = Bracket(n)
      /\ DOMAIN mintermIDs \subseteq ImplicantsOf(goal)
  BY MergingFacts
<1>2. \A p \in ImplicantsOf(goal) : Cardinality(DontCares(p)) < n
  BY <1>1, LastBracket
<1> HIDE DEF n
<1>3. DOMAIN mintermIDs = UNION {Bracket(k) : k \in 1 .. n}
  BY <1>1 DEF Merging
<1>4. ASSUME NEW p \in ImplicantsOf(goal)
      PROVE  \E k \in 1 .. n : p \in Bracket(k)
  <2>1. PICK k \in 1 .. n : k - 1 = Cardinality(DontCares(p))
    <3>1. Cardinality(DontCares(p)) + 1 \in 1 .. n
      BY <1>1, <1>2, DontCaresFinite
    <3> QED
      BY <3>1, DontCaresFinite
  <2> QED
    BY <2>1 DEF Bracket
<1>5. DOMAIN mintermIDs = ImplicantsOf(goal)
  BY <1>1, <1>3, <1>4
<1>6. ASSUME NEW p \in ImplicantsOf(goal)
      PROVE  p \in marked <=> Widenable(p)
  <2>1. marked = UNION {{q \in Bracket(k) : Widenable(q)} : k \in 1 .. n - 1}
    BY DEF Merging, n
  <2>2. ASSUME Widenable(p)
        PROVE  p \in marked
    <3>1. PICK v \in Variable \ DontCares(p) : Widened(p, v) \in ImplicantsOf(goal)
      BY <2>2 DEF Widenable
    <3>2. Cardinality(DontCares(p)) + 1 < n
      <4>1. p \in Implicant
        BY DEF ImplicantsOf
      <4> QED
        BY <1>2, <3>1, <4>1, WidenProperties
    <3>3. PICK k \in 1 .. n : p \in Bracket(k)
      BY <1>4
    <3>4. k \in 1 .. n - 1
      BY <1>1, <3>2, <3>3 DEF Bracket
    <3> QED
      BY <2>1, <2>2, <3>3, <3>4
  <2> QED
    BY <2>1, <2>2
<1>7. ListedImplicants(sizeBrackets) = DOMAIN mintermIDs \ marked
  <2>1. DOMAIN mintermIDs = UNION {sizeBrackets[k] : k \in DOMAIN sizeBrackets}
    BY DEF Merging
  <2> QED
    BY <2>1 DEF ListedImplicants
<1> QED
  BY <1>5, <1>6, <1>7

LEMMA FillChartKeeps ==
  ASSUME MinimizeInv, FillChart
  PROVE  MinimizeInv'
<1> DEFINE listed == ListedImplicants(sizeBrackets)
           c == Cardinality(goal)
<1>1. /\ pc = "merge" /\ Cardinality(Last(sizeBrackets)) <= 1
      /\ coveringImplicants' = Listed(listed, mintermIDs, Cardinality(sizeBrackets[1]))
      /\ pc' = "essential"
      /\ UNCHANGED <<mintermIDs, covered, currentDNF, frames, position, bestDNF,
                     bestNumOfTerms, goal>>
  BY DEF FillChart
<1>2. Merging /\ NumbersExact /\ NumbersDense /\ StartSearch /\ goal \subseteq Minterm
  BY <1>1 DEF MinimizeInv
<1>3. StartSearch'
  BY <1>1, <1>2 DEF StartSearch
<1>4. NumbersExact'
  BY <1>1, <1>2 DEF NumbersExact
<1>5. DOMAIN mintermIDs = ImplicantsOf(goal)
      /\ listed = {p \in ImplicantsOf(goal) : ~Widenable(p)}
  BY <1>1, <1>2, AllMerged
<1>6. sizeBrackets[1] = goal /\ goal \subseteq ImplicantsOf(goal) /\ goal \subseteq Implicant
  <2>1. sizeBrackets[1] = goal
    BY <1>2, MergingFacts
  <2> QED
    BY <1>2, <2>1, MintermProperties DEF ImplicantsOf
<1>7. c \in Nat
  BY <1>6, ChartAssumption, FS_Subset, FS_CardinalityType
<1>8. DOMAIN mintermIDs \cap Minterm = goal
  <2>1. ASSUME NEW m \in ImplicantsOf(goal) \cap Minterm
        PROVE  m \in goal
    BY MintermProperties DEF ImplicantsOf
  <2> QED
    BY <1>2, <1>5, <1>6, <2>1
<1>9. /\ \A m \in goal : \E i \in 0 .. c - 1 : mintermIDs[m] = {i}
      /\ \A i \in 0 .. c - 1 : \E m \in goal : mintermIDs[m] = {i}
  BY <1>2, <1>6, <1>8 DEF NumbersDense
<1> HIDE DEF listed, c
<1>10. coveringImplicants' = [i \in 0 .. c - 1 |-> {p \in listed : i \in mintermIDs[p]}]
  BY <1>1, <1>6 DEF Listed, c
<1>11. Minterms' = 0 .. c - 1
  BY <1>10 DEF Minterms
<1>12. Primes' = {p \in listed : \E i \in 0 .. c - 1 : i \in mintermIDs[p]}
  BY <1>10, <1>11 DEF Primes
<1>13. \A p \in DOMAIN mintermIDs : mintermIDs[p] = UNION {mintermIDs[m] : m \in Cube(p)}
  BY <1>2 DEF NumbersExact
<1>14. ASSUME NEW q \in ImplicantsOf(goal)
       PROVE  \E p \in Primes' : Cube(q) \subseteq Cube(p)
  <2>1. PICK p \in ImplicantsOf(goal) : ~Widenable(p) /\ Cube(q) \subseteq Cube(p)
    BY PrimeAbove
  <2>2. PICK m \in Cube(p) : m \in goal
    <3>1. p \in Implicant /\ Cube(p) \subseteq goal
      BY DEF ImplicantsOf
    <3> QED
      BY <3>1, CubeNonempty
  <2>3. PICK i \in 0 .. c - 1 : mintermIDs[m] = {i}
    BY <1>9, <2>2
  <2>4. i \in mintermIDs[p]
    BY <1>5, <1>13, <2>2, <2>3
  <2> QED
    BY <1>5, <1>12, <2>1, <2>4
<1>15. Charted'
  <2>1. ImplicantsOf(goal)' = ImplicantsOf(goal)
    BY <1>1 DEF ImplicantsOf
  <2>2. \A p : Widenable(p)' <=> Widenable(p)
    BY <1>1 DEF Widenable, ImplicantsOf
  <2>3. Primes' = listed
    <3> SUFFICES ASSUME NEW p \in listed
                 PROVE  \E i \in 0 .. c - 1 : i \in mintermIDs[p]
      BY <1>12
    <3>1. p \in Implicant /\ Cube(p) \subseteq goal /\ p \in DOMAIN mintermIDs
      BY <1>5 DEF ImplicantsOf
    <3>2. PICK m \in Cube(p) : m \in goal
      BY <3>1, CubeNonempty
    <3> QED
      BY <1>9, <1>13, <3>1, <3>2
  <2>4. Primes' = {p \in ImplicantsOf(goal) : ~Widenable(p)}'
    BY <1>5, <2>1, <2>2, <2>3
  <2> QED
    BY <1>1, <1>5, <1>9, <1>11, <1>14, <2>1, <2>4 DEF Charted
<1>16. ChartOK'
  <2>1. ASSUME NEW p \in DOMAIN mintermIDs
        PROVE  mintermIDs[p] \subseteq 0 .. c - 1
    <3>1. \A m \in Cube(p) : m \in goal
      BY <1>5 DEF ImplicantsOf
    <3> QED
      BY <1>9, <1>13, <3>1
  <2>2. mintermIDs \in [DOMAIN mintermIDs -> SUBSET (0 .. c - 1)]
    <3>1. mintermIDs = [p \in DOMAIN mintermIDs |-> mintermIDs[p]]
      BY DEF MinimizeInv
    <3> QED
      BY <2>1, <3>1
  <2>3. ASSUME NEW i \in 0 .. c - 1
        PROVE  /\ coveringImplicants'[i] # {}
               /\ coveringImplicants'[i] = {p \in Primes' : i \in mintermIDs[p]}
    <3>1. PICK m \in goal : mintermIDs[m] = {i}
      BY <1>9
    <3>2. PICK p \in Primes' : Cube(m) \subseteq Cube(p)
      BY <1>6, <1>14
    <3>3. m \in Cube(p)
      BY <1>2, <3>2, MintermProperties
    <3>4. i \in mintermIDs[p]
      BY <1>5, <1>12, <1>13, <3>1, <3>3
    <3> QED
      BY <1>10, <1>12, <3>4
  <2>4. DOMAIN mintermIDs \subseteq Implicant /\ Primes' \subseteq DOMAIN mintermIDs
    BY <1>5, <1>12 DEF ImplicantsOf
  <2> QED
    BY <1>1, <1>11, <2>2, <2>3, <2>4 DEF ChartOK
<1>17. SearchInv'
  <2>1. (ChartOK /\ StartSearch /\ pc = "essential")' => SearchInv'
    BY StartOK, PTL
  <2> QED
    BY <1>1, <1>3, <1>16, <2>1
<1> QED
  BY <1>1, <1>2, <1>4, <1>15, <1>17 DEF MinimizeInv

LEMMA ChartedKept ==
  ASSUME Charted, UNCHANGED <<mintermIDs, coveringImplicants, goal>>
  PROVE  Charted'
<1>1. ImplicantsOf(goal)' = ImplicantsOf(goal)
  BY DEF ImplicantsOf
<1>2. Minterms' = Minterms /\ Primes' = Primes
  BY DEF Minterms, Primes
<1>3. \A p : Widenable(p)' <=> Widenable(p)
  BY DEF Widenable, ImplicantsOf
<1> QED
  BY <1>1, <1>2, <1>3 DEF Charted

\* The search runs on the chart that FillChart made.
LEMMA SearchKeeps ==
  ASSUME MinimizeInv, SearchStep, UNCHANGED mergeVars
  PROVE  MinimizeInv'
<1>1. pc \in {"essential", "build", "loop", "undo"}
  BY DEF SearchStep, ListEssential, EndEssential, Branch, Leaf, Try, Undo, EndLoop
<1>2. Charted /\ SearchInv /\ NumbersExact /\ goal \subseteq Minterm
  BY <1>1 DEF MinimizeInv
<1>3. SearchInv' /\ UNCHANGED chartVars
  BY <1>2, SearchStepKeeps
<1>4. pc' \notin {"read", "merge"}
  BY <1>3 DEF SearchInv, TypeOK
<1>5. UNCHANGED <<mintermIDs, coveringImplicants, goal>>
  BY <1>3 DEF chartVars, mergeVars
<1>6. NumbersExact'
  BY <1>2, <1>5 DEF NumbersExact
<1>7. Charted'
  BY <1>2, <1>5, ChartedKept
<1> QED
  BY <1>2, <1>3, <1>4, <1>5, <1>6, <1>7 DEF MinimizeInv

LEMMA MinimizeStutterKeeps ==
  ASSUME MinimizeInv, UNCHANGED minimizeVars
  PROVE  MinimizeInv'
<1>1. /\ UNCHANGED <<mintermIDs, coveringImplicants, covered, currentDNF, frames, position,
                     bestDNF, bestNumOfTerms, pc>>
      /\ UNCHANGED <<clauses, expansion, sizeBrackets, marked, goal>>
      /\ UNCHANGED primeVars
  BY DEF minimizeVars, primeVars, chartVars, searchVars, mergeVars
<1>2. NumbersExact => NumbersExact'
  BY <1>1 DEF NumbersExact
<1>3. NumbersDense => NumbersDense'
  BY <1>1 DEF NumbersDense
<1>4. StartSearch => StartSearch'
  BY <1>1 DEF StartSearch
<1>5. Reading => Reading'
  BY <1>1 DEF Reading
<1>6. Merging => Merging'
  BY <1>1 DEF Merging, Bracket, Widenable, ImplicantsOf
<1>7. Charted => Charted'
  BY <1>1, ChartedKept
<1>8. SearchInv => SearchInv'
  BY <1>1, StutterKeeps
<1> QED
  BY <1>1, <1>2, <1>3, <1>4, <1>5, <1>6, <1>7, <1>8 DEF MinimizeInv

-----------------------------------------------------------------------------
\* The invariant joins what the brackets hold while they are merged with the
\* invariant of the search: merging gives a chart as the search needs it
\* (DnfCircuit::minimizeQuineMcClusky).
THEOREM MinimizeInvariance == MinimizeSpec => []MinimizeInv
<1>1. MinimizeInv /\ [MinimizeNext]_minimizeVars => MinimizeInv'
  BY ReadClauseKeeps, AddMintermKeeps, AllReadKeeps, MergeBracketKeeps, FillChartKeeps,
     SearchKeeps, MinimizeStutterKeeps
     DEF MinimizeNext, MinimizeStep, Minimized
<1> QED
  BY <1>1, MinimizeInitOK, PTL DEF MinimizeSpec

\* The numbers of an implicant are those of its minterms, whichever merge made
\* it first, and no two minterms share one.
THEOREM ExactNumbers == MinimizeSpec => []NumbersExact
BY MinimizeInvariance, PTL DEF MinimizeInv

\* An implicant carries the number of a minterm exactly when it has the minterm.
LEMMA NumberOfMinterm ==
  ASSUME goal \subseteq Minterm, NumbersExact, Charted,
         NEW m \in goal, NEW i, mintermIDs[m] = {i}, NEW p \in ImplicantsOf(goal)
  PROVE  i \in mintermIDs[p] <=> m \in Cube(p)
<1>1. /\ DOMAIN mintermIDs = ImplicantsOf(goal)
      /\ goal \subseteq ImplicantsOf(goal)
      /\ Cube(p) \subseteq goal
  BY MintermProperties DEF Charted, ImplicantsOf
<1>2. mintermIDs[p] = UNION {mintermIDs[k] : k \in Cube(p)}
  BY <1>1 DEF NumbersExact
<1>3. ASSUME i \in mintermIDs[p]
      PROVE  m \in Cube(p)
  <2>1. PICK k \in Cube(p) : i \in mintermIDs[k]
    BY <1>2, <1>3
  <2>2. k \in goal
    BY <1>1
  <2>3. mintermIDs[k] = mintermIDs[m]
    BY <2>1, <2>2 DEF Charted
  <2>4. k \in DOMAIN mintermIDs \cap Minterm /\ m \in DOMAIN mintermIDs \cap Minterm
    BY <1>1, <2>2
  <2> QED
    BY <2>3, <2>4 DEF NumbersExact
<1> QED
  BY <1>2, <1>3

\* The search starts from a chart that lists, for each minterm of the circuit,
\* its prime implicants: brackets that are merged in pairs, by marks and with an
\* early stop, have left out none of them and listed nothing else.
THEOREM PrimesListed == MinimizeSpec => []ChartOfPrimes
<1>1. MinimizeInv => ChartOfPrimes
  <2> SUFFICES ASSUME MinimizeInv, pc \notin {"read", "merge"}
               PROVE  /\ \A m \in goal : \E i \in Minterms : mintermIDs[m] = {i}
                      /\ \A i \in Minterms : \E m \in goal :
                           /\ mintermIDs[m] = {i}
                           /\ coveringImplicants[i] = {p \in PrimesOf(goal) : m \in Cube(p)}
                           /\ coveringImplicants[i] # {}
    BY DEF ChartOfPrimes
  <2>1. goal \subseteq Minterm /\ NumbersExact /\ Charted /\ ChartOK
    BY DEF MinimizeInv, SearchInv
  <2>2. Primes = PrimesOf(goal) /\ Primes \subseteq ImplicantsOf(goal)
    BY <2>1, PrimesCannotBeWidened DEF Charted
  <2>3. ASSUME NEW i \in Minterms
        PROVE  \E m \in goal :
                 /\ mintermIDs[m] = {i}
                 /\ coveringImplicants[i] = {p \in PrimesOf(goal) : m \in Cube(p)}
                 /\ coveringImplicants[i] # {}
    <3>1. PICK m \in goal : mintermIDs[m] = {i}
      BY <2>1 DEF Charted
    <3>2. /\ coveringImplicants[i] = {p \in Primes : i \in mintermIDs[p]}
          /\ coveringImplicants[i] # {}
      BY <2>1 DEF ChartOK
    <3>3. \A p \in Primes : i \in mintermIDs[p] <=> m \in Cube(p)
      BY <2>1, <2>2, <3>1, NumberOfMinterm
    <3> QED
      BY <2>2, <3>1, <3>2, <3>3
  <2> QED
    BY <2>1, <2>3 DEF Charted
<1> QED
  BY <1>1, MinimizeInvariance, PTL

\* A set of implicants covers the numbers of the chart exactly when its
\* minterms are those of the circuit.
LEMMA CoversExact ==
  ASSUME goal \subseteq Minterm, NumbersExact, Charted, NEW S \in SUBSET ImplicantsOf(goal)
  PROVE  Covers(S) <=> UNION {Cube(p) : p \in S} = goal
<1>1. /\ DOMAIN mintermIDs = ImplicantsOf(goal)
      /\ goal \subseteq ImplicantsOf(goal)
      /\ \A p \in ImplicantsOf(goal) : Cube(p) \subseteq goal
  BY MintermProperties DEF Charted, ImplicantsOf
<1>2. ASSUME NEW m \in goal, NEW i, mintermIDs[m] = {i}, NEW p \in ImplicantsOf(goal)
      PROVE  i \in mintermIDs[p] <=> m \in Cube(p)
  BY <1>2, NumberOfMinterm
<1>3. ASSUME Covers(S), NEW m \in goal
      PROVE  \E p \in S : m \in Cube(p)
  <2>1. PICK i \in Minterms : mintermIDs[m] = {i}
    BY DEF Charted
  <2>2. PICK p \in S : i \in mintermIDs[p]
    BY <1>3, <2>1 DEF Covers, CoveredBy
  <2> QED
    BY <1>2, <2>1, <2>2
<1>4. ASSUME UNION {Cube(p) : p \in S} = goal, NEW i \in Minterms
      PROVE  \E p \in S : i \in mintermIDs[p]
  <2>1. PICK m \in goal : mintermIDs[m] = {i}
    BY DEF Charted
  <2>2. PICK p \in S : m \in Cube(p)
    BY <1>4, <2>1
  <2> QED
    BY <1>2, <2>1, <2>2
<1>5. UNION {Cube(p) : p \in S} \subseteq goal
  BY <1>1
<1> QED
  BY <1>3, <1>4, <1>5 DEF Covers, CoveredBy

\* When the search has ended it has found a cover.
LEMMA SearchFound ==
  ASSUME MinimizeInv, pc = "found"
  PROVE  /\ Charted /\ SearchInv
         /\ bestNumOfTerms # UintMax
         /\ \A terms \in SUBSET Primes : Covers(terms) => bestNumOfTerms <= Cardinality(terms)
<1>1. Charted /\ SearchInv
  BY DEF MinimizeInv
<1>2. DOMAIN frames = {}
  BY <1>1 DEF SearchInv, TypeOK
<1>3. \A terms \in SUBSET Primes : Covers(terms) => bestNumOfTerms <= Cardinality(terms)
  BY <1>1, <1>2 DEF SearchInv, NoneLost, Promising
<1>4. Covers(Primes)
  BY <1>1 DEF SearchInv, ChartOK, Covers, CoveredBy, Primes
<1>5. Cardinality(Primes) \in Nat /\ Cardinality(Primes) <= Cardinality(Implicant)
      /\ Cardinality(Implicant) \in Nat
  <2>1. Primes \subseteq Implicant
    BY <1>1 DEF SearchInv, ChartOK
  <2> QED
    BY <2>1, ChartAssumption, FS_Subset, FS_CardinalityType
<1>6. bestNumOfTerms <= Cardinality(Primes) /\ bestNumOfTerms \in 0 .. UintMax
  BY <1>1, <1>3, <1>4 DEF SearchInv, TypeOK
<1> QED
  BY <1>1, <1>3, <1>5, <1>6, ChartAssumption

\* The clauses that minimisation yields compute the function of the circuit
\* that was given to it.
THEOREM Equivalence == MinimizeSpec => []ResultEquivalent
<1>1. MinimizeInv => ResultEquivalent
  <2> SUFFICES ASSUME MinimizeInv, pc = "found"
               PROVE  UNION {Cube(p) : p \in ToSet(bestDNF)} = goal
    BY DEF ResultEquivalent
  <2>1. Charted /\ SearchInv /\ bestNumOfTerms # UintMax
    BY SearchFound
  <2>2. Covers({bestDNF[n] : n \in DOMAIN bestDNF})
    BY <2>1 DEF SearchInv, BestIsCover
  <2>3. ToSet(bestDNF) = {bestDNF[n] : n \in DOMAIN bestDNF}
    BY DEF ToSet
  <2>4. ToSet(bestDNF) \subseteq ImplicantsOf(goal)
    <3>1. bestDNF \in Seq(ImplicantsOf(goal))
      BY <2>1 DEF SearchInv, TypeOK, Charted
    <3> QED
      BY <2>3, <3>1
  <2>5. goal \subseteq Minterm /\ NumbersExact
    BY DEF MinimizeInv
  <2> QED
    BY <2>1, <2>2, <2>3, <2>4, <2>5, CoversExact
<1> QED
  BY <1>1, MinimizeInvariance, PTL

\* No disjunctive normal form of the circuit has fewer clauses: each of its
\* clauses lies below a prime implicant on the chart, and the search has found
\* no more terms than these primes are.
THEOREM Minimality == MinimizeSpec => []ResultMinimum
<1>1. MinimizeInv => ResultMinimum
  <2> SUFFICES ASSUME MinimizeInv, pc = "found", bestDNF # << >>,
                      NEW terms \in [1 .. Len(bestDNF) - 1 -> ImplicantsOf(goal)],
                      UNION {Cube(p) : p \in ToSet(terms)} = goal
               PROVE  FALSE
    BY DEF ResultMinimum
  <2>1. /\ Charted /\ SearchInv /\ bestNumOfTerms # UintMax
        /\ \A S \in SUBSET Primes : Covers(S) => bestNumOfTerms <= Cardinality(S)
        /\ goal \subseteq Minterm /\ NumbersExact
    BY SearchFound DEF MinimizeInv
  <2>2. PICK k \in Nat : k = Len(bestDNF) - 1
    <3>1. Len(bestDNF) \in Nat \ {0}
      BY <2>1, EmptySeq DEF SearchInv, TypeOK
    <3> QED
      BY <3>1
  <2> DEFINE Above(q) == CHOOSE p \in Primes : Cube(q) \subseteq Cube(p)
             T == {Above(terms[i]) : i \in 1 .. k}
  <2>3. terms \in [1 .. k -> ImplicantsOf(goal)]
    BY <2>2
  <2>4. ASSUME NEW q \in ImplicantsOf(goal)
        PROVE  Above(q) \in Primes /\ Cube(q) \subseteq Cube(Above(q))
    BY <2>1 DEF Charted
  <2>5. T \subseteq Primes
    BY <2>3, <2>4
  <2>6. Primes \subseteq ImplicantsOf(goal)
    BY <2>1 DEF SearchInv, ChartOK, Charted
  <2>7. UNION {Cube(p) : p \in T} = goal
    <3>1. \A p \in T : Cube(p) \subseteq goal
      BY <2>5, <2>6 DEF ImplicantsOf
    <3>2. ASSUME NEW m \in goal
          PROVE  \E p \in T : m \in Cube(p)
      <4>1. PICK i \in 1 .. k : m \in Cube(terms[i])
        <5>1. PICK q \in ToSet(terms) : m \in Cube(q)
          OBVIOUS
        <5>2. PICK i \in DOMAIN terms : q = terms[i]
          BY <5>1 DEF ToSet
        <5> QED
          BY <2>3, <5>1, <5>2
      <4>2. Above(terms[i]) \in T /\ Cube(terms[i]) \subseteq Cube(Above(terms[i]))
        BY <2>3, <2>4
      <4> QED
        BY <4>1, <4>2
    <3> HIDE DEF T
    <3> QED
      BY <3>1, <3>2
  <2>8. Cardinality(T) <= k
    <3> DEFINE f == [i \in 1 .. k |-> Above(terms[i])]
    <3>1. f \in [1 .. k -> T] /\ \A t \in T : \E i \in 1 .. k : f[i] = t
      OBVIOUS
    <3>2. f \in Surjection(1 .. k, T)
      BY <3>1, Fun_IsSurj
    <3>3. ExistsSurjection(1 .. k, T)
      BY <3>2 DEF ExistsSurjection
    <3> QED
      BY <3>3, FS_SurjCardinalityBound
  <2> HIDE DEF T
  <2>9. Covers(T)
    BY <2>1, <2>5, <2>6, <2>7, CoversExact
  <2>10. bestNumOfTerms <= Cardinality(T) /\ Cardinality(T) \in Nat
    <3>1. IsFiniteSet(Primes)
      BY <2>1, PrimesFinite DEF SearchInv
    <3> QED
      BY <2>1, <2>5, <2>9, <3>1, FS_Subset, FS_CardinalityType
  <2>11. Len(bestDNF) = bestNumOfTerms
    BY <2>1 DEF SearchInv, BestIsCover
  <2> QED
    BY <2>2, <2>8, <2>10, <2>11
<1> QED
  BY <1>1, MinimizeInvariance, PTL
=============================================================================
