-------------------------- MODULE CircuitCopyProofs --------------------------
(***************************************************************************)
(* Theorems about CircuitCopy, for every number of inputs, every set of    *)
(* circuits whose output reaches all inputs, and every number of copies.   *)
(***************************************************************************)
EXTENDS CircuitCopy, GateHeapProofs

-----------------------------------------------------------------------------
(* Ranks.                                                                  *)

\* In a finite set, some member is as high as any.
LEMMA HighestOf ==
  ASSUME NEW X, IsFiniteSet(X), X # {}, NEW f, \A x \in X : f[x] \in Nat
  PROVE  \E x \in X : \A y \in X : f[y] <= f[x]
<1> DEFINE Above(x) == {y \in X : f[x] < f[y]}
           T == {Above(x) : x \in X}
           R == StrictSubsetOrdering(X)
<1>1. IsWellFoundedOn(R, SUBSET X)
  BY FS_StrictSubsetOrderingWellFounded, FS_FiniteSubsetsOfFinite
<1>2. T \subseteq SUBSET X /\ T # {}
  OBVIOUS
<1>3. PICK t \in T : \A u \in T : ~ (<<u, t>> \in R)
  <2> HIDE DEF T, R
  <2> QED
    BY <1>1, <1>2, WFMin
<1>4. PICK x \in X : t = Above(x)
  OBVIOUS
<1>5. ASSUME NEW y \in X, ~ (f[y] <= f[x]) PROVE FALSE
  <2>1. \A z \in Above(y) : z \in Above(x)
    BY <1>5
  <2>2. y \in Above(x) /\ y \notin Above(y)
    BY <1>5
  <2>3. <<Above(y), Above(x)>> \in R
    BY <2>1, <2>2 DEF StrictSubsetOrdering
  <2> QED
    BY <1>3, <1>4, <2>3
<1> QED
  BY <1>5

\* What holds of a member as soon as it holds of all lower ones, holds.
LEMMA FromLowRank ==
  ASSUME NEW L, IsFiniteSet(L), NEW f, \A x \in L : f[x] \in Nat, NEW Good,
         \A x \in L : (\A y \in L : f[y] < f[x] => y \in Good) => x \in Good
  PROVE  L \subseteq Good
<1> DEFINE X == {x \in L : x \notin Good}
           Below(x) == {y \in X : f[y] < f[x]}
           T == {Below(x) : x \in X}
           R == StrictSubsetOrdering(X)
<1> SUFFICES ASSUME X # {} PROVE FALSE
  OBVIOUS
<1>1. IsWellFoundedOn(R, SUBSET X)
  <2>1. IsFiniteSet(X)
    BY FS_Subset
  <2> QED
    BY <2>1, FS_StrictSubsetOrderingWellFounded, FS_FiniteSubsetsOfFinite
<1>2. T \subseteq SUBSET X /\ T # {}
  <2>1. \A x \in X : Below(x) \in SUBSET X
    OBVIOUS
  <2> HIDE DEF X, Below
  <2> QED
    BY <2>1
<1>3. PICK t \in T : \A u \in T : ~ (<<u, t>> \in R)
  <2> HIDE DEF T, R
  <2> QED
    BY <1>1, <1>2, WFMin
<1>4. PICK x \in X : t = Below(x)
  OBVIOUS
<1>5. PICK y \in L : f[y] < f[x] /\ y \notin Good
  OBVIOUS
<1>6. \A z \in Below(y) : z \in Below(x)
  BY <1>5
<1>7. y \in Below(x) /\ y \notin Below(y)
  BY <1>5
<1>8. <<Below(y), Below(x)>> \in R
  BY <1>6, <1>7 DEF StrictSubsetOrdering
<1> QED
  BY <1>3, <1>4, <1>5, <1>8

-----------------------------------------------------------------------------
(* Owners.                                                                 *)

SelfOwned(h, pins, S) == S \subseteq pins \cup UNION {OwnedBy(h, g) : g \in S}

\* What is left is the greatest set of gates with an owner in the set.
LEMMA OwnedIsGreatest ==
  ASSUME NEW h, NEW pins, IsFiniteSet(Live(h))
  PROVE  Owned(h, pins) = UNION {S \in SUBSET Live(h) : SelfOwned(h, pins, S)}
<1> DEFINE L == Live(h)
           Top(S) == UNION {O \in SUBSET S : SelfOwned(h, pins, O)}
           By(S) == UNION {OwnedBy(h, g) : g \in S}
           Rest(S) == S \cap (pins \cup By(S))
           Body(r) == [S \in SUBSET L |-> IF Rest(S) = S THEN S ELSE r[Rest(S)]]
           R == CHOOSE r : r = Body(r)
<1>1. ASSUME NEW S, Rest(S) = S
      PROVE  Top(S) = S
  <2>1. SelfOwned(h, pins, S)
    BY <1>1 DEF SelfOwned
  <2> QED
    BY <2>1
<1>2. ASSUME NEW S
      PROVE  Top(Rest(S)) = Top(S) /\ Rest(S) \subseteq S
  <2>1. ASSUME NEW O \in SUBSET S, SelfOwned(h, pins, O)
        PROVE  O \subseteq Rest(S)
    <3>1. By(O) \subseteq By(S)
      OBVIOUS
    <3>2. O \subseteq pins \cup By(O)
      BY <2>1 DEF SelfOwned
    <3> HIDE DEF By
    <3> QED
      BY <3>1, <3>2
  <2>2. Rest(S) \subseteq S
    OBVIOUS
  <2> HIDE DEF Rest
  <2> QED
    BY <2>1, <2>2
<1>3. [S \in SUBSET L |-> Top(S)] = Body([S \in SUBSET L |-> Top(S)])
  <2> DEFINE f == [S \in SUBSET L |-> Top(S)]
  <2>1. ASSUME NEW S \in SUBSET L
        PROVE  f[S] = IF Rest(S) = S THEN S ELSE f[Rest(S)]
    <3>1. Rest(S) \in SUBSET L
      BY <1>2
    <3> HIDE DEF Top, Rest
    <3>2. f[S] = Top(S) /\ f[Rest(S)] = Top(Rest(S))
      BY <3>1
    <3> QED
      BY <1>1, <1>2, <3>2
  <2> HIDE DEF Top, Rest
  <2> QED
    BY <2>1
<1>4. R = Body(R)
  <2> HIDE DEF Body, Top
  <2> QED
    BY <1>3
<1>5. Owned(h, pins) = R[L]
  BY DEF Owned
<1> HIDE DEF R, Top, Rest
<1>6. \A S \in SUBSET L : R[S] = IF Rest(S) = S THEN S ELSE R[Rest(S)]
  BY <1>4
<1>7. \A S \in SUBSET L : R[S] = Top(S)
  <2> DEFINE Bad == {S \in SUBSET L : R[S] # Top(S)}
             Order == StrictSubsetOrdering(L)
  <2> SUFFICES ASSUME Bad # {} PROVE FALSE
    OBVIOUS
  <2>1. IsWellFoundedOn(Order, SUBSET L)
    BY FS_StrictSubsetOrderingWellFounded, FS_FiniteSubsetsOfFinite
  <2>2. Bad \subseteq SUBSET L
    OBVIOUS
  <2>3. PICK S \in Bad : \A O \in Bad : ~ (<<O, S>> \in Order)
    <3> HIDE DEF Bad, Order
    <3> QED
      BY <2>1, <2>2, WFMin
  <2>4. Rest(S) # S
    BY <1>1, <1>6
  <2>5. Rest(S) \in SUBSET L /\ Rest(S) \subseteq S
    BY <1>2
  <2>6. Rest(S) \in Bad
    BY <1>2, <1>6, <2>4, <2>5
  <2>7. <<Rest(S), S>> \in Order
    BY <2>4, <2>5 DEF StrictSubsetOrdering
  <2> QED
    BY <2>3, <2>6, <2>7
<1> QED
  BY <1>5, <1>7 DEF Top

LEMMA OwnedFacts ==
  ASSUME NEW h, NEW pins, IsFiniteSet(Live(h))
  PROVE  /\ Owned(h, pins) \subseteq Live(h) /\ SelfOwned(h, pins, Owned(h, pins))
         /\ \A S \in SUBSET Live(h) : SelfOwned(h, pins, S) => S \subseteq Owned(h, pins)
<1> DEFINE K == Owned(h, pins)
           Some == {S \in SUBSET Live(h) : SelfOwned(h, pins, S)}
<1>1. K = UNION Some
  BY OwnedIsGreatest
<1>2. SelfOwned(h, pins, K)
  <2> SUFFICES ASSUME NEW x \in K, x \notin pins PROVE \E g \in K : x \in OwnedBy(h, g)
    BY DEF SelfOwned
  <2>1. PICK S \in Some : x \in S
    BY <1>1
  <2>2. PICK g \in S : x \in OwnedBy(h, g)
    BY <2>1 DEF SelfOwned
  <2> QED
    BY <1>1, <2>2
<1> QED
  BY <1>1, <1>2

-----------------------------------------------------------------------------
(* Heaps with twins.                                                       *)

\* The fields of a heap are what they are meant to be.
HeapOK(h) ==
  /\ h = [next |-> h.next, kind |-> [g \in Live(h) |-> h.kind[g]],
          in |-> [g \in Live(h) |-> h.in[g]], id |-> [g \in DOMAIN h.id |-> h.id[g]],
          strong |-> [g \in DOMAIN h.strong |-> h.strong[g]],
          weak |-> [g \in DOMAIN h.weak |-> h.weak[g]], marked |-> h.marked]
  /\ h.next \in Nat \ {0} /\ Live(h) \subseteq 1 .. h.next - 1
  /\ \A g \in Live(h) :
       /\ h.kind[g] \in {"INPUT", "TRUE", "FALSE", "NOT", "AND", "OR"}
       /\ DOMAIN h.in[g] = 1 .. Arity(h.kind[g]) /\ Children(h, g) \subseteq Live(h)
       /\ g \in DOMAIN h.id <=> h.kind[g] = "INPUT"
  /\ h.marked \subseteq Live(h) /\ Twinned(h) \subseteq Live(h)
  /\ DOMAIN h.id \subseteq Live(h) /\ DOMAIN h.strong \cap DOMAIN h.weak = {}

(***************************************************************************)
(* What is known of a gate: a rank that is above those of its inputs, the  *)
(* circuit it is part of, the inputs it is above, and what it computes.    *)
(***************************************************************************)
Fits(h, w, g) ==
  LET first == w[h.in[g][1]]
      second == w[h.in[g][2]]
  IN  CASE h.kind[g] = "INPUT" ->
             /\ w[g].rank = 0 /\ w[g].inputs = {g}
             /\ w[g].value = {a \in Valuation : h.id[g] \in a}
        [] h.kind[g] = "TRUE" -> w[g].rank = 0 /\ w[g].inputs = {} /\ w[g].value = Valuation
        [] h.kind[g] = "FALSE" -> w[g].rank = 0 /\ w[g].inputs = {} /\ w[g].value = {}
        [] h.kind[g] = "NOT" ->
             /\ w[g].rank > first.rank /\ w[g].inputs = first.inputs
             /\ w[g].value = Valuation \ first.value
        [] OTHER ->
             /\ w[g].rank > 2 /\ w[g].rank > first.rank + 1 /\ w[g].rank > second.rank + 1
             /\ w[g].inputs = first.inputs \cup second.inputs
             /\ w[g].value = IF h.kind[g] = "AND" THEN first.value \cap second.value
                             ELSE first.value \cup second.value

Fitting(h, w) ==
  /\ DOMAIN w = Live(h)
  /\ \A g \in Live(h) :
       /\ w[g].rank \in Nat /\ w[g].part \in Nat /\ w[g].value \in SUBSET Valuation
       /\ \A x \in Children(h, g) : w[x].part = w[g].part
       /\ Fits(h, w, g)

\* Every circuit is a part of the heap, with all its inputs below its output.
CircuitsOK(h, w, cs, f) ==
  /\ Len(cs) \in Nat \ {0} /\ DOMAIN cs = 1 .. Len(cs)
  /\ \A g \in Live(h) : w[g].part \in 0 .. Len(cs)
  /\ \A n \in 1 .. Len(cs) :
       /\ cs[n].output \in Live(h) /\ w[cs[n].output].part = n
       /\ w[cs[n].output].value = f
       /\ DOMAIN cs[n].inputs = InputGate
       /\ w[cs[n].output].inputs = Range(cs[n].inputs)
       /\ Range(cs[n].inputs) = {g \in Live(h) : w[g].part = n /\ h.kind[g] = "INPUT"}

\* The NOT gates of circuit n, whose output is top.
Clean(h, w, n, top) ==
  \A g \in Live(h) : w[g].part = n /\ h.kind[g] = "NOT" =>
    /\ h.kind[h.in[g][1]] = "INPUT"
    /\ g = top
         \/ \A x \in Live(h) \ {g, top} :
              w[x].part = n /\ h.kind[x] = "NOT" => h.in[x] # h.in[g]

StrippedOK(h, w, cs, S) ==
  S \subseteq 1 .. Len(cs) /\ \A n \in S : Clean(h, w, n, cs[n].output)

\* Nothing is left from a constructor.
Idle ==
  phase = "idle" =>
    /\ stack = <<>> /\ Flagged(heap) = {}
    /\ Live(heap) = ReachableFrom(heap, Held(circuits))

-----------------------------------------------------------------------------
(* While circuit p is stripped: part 0 is the circuit it was copied from.  *)

Copies(h, w) == {h.strong[g] : g \in {x \in DOMAIN h.strong : w[x].part = 0}}

OriginalOK(h, w, p) ==
  /\ \A g \in Live(h) : w[g].part = 0 => g \in DOMAIN h.strong /\ w[h.strong[g]].part = p
  /\ \A g \in Flagged(h) : w[g].part \in {0, p}
  /\ \A g \in h.marked \cup DOMAIN h.weak : w[g].part = p
  /\ \A g \in DOMAIN h.strong : h.strong[g] \in Live(h)

\* Whatever is neither a copy nor a gate that was made for one has an owner
\* among the links, or is held.
HeldOK(h, w, p, pins) ==
  \A g \in Live(h) : w[g].part # p =>
    g \in pins \/ \E x \in Live(h) : g \in Children(h, x)

\* The twins of the gates of p are their negations.
NegationOf(h, w, g, t) ==
  /\ t \in Live(h) /\ w[t].part = w[g].part
  /\ w[t].inputs = w[g].inputs /\ w[t].value = Valuation \ w[g].value

StrongOK(h, w, p) ==
  \A g \in DOMAIN h.strong : w[g].part = p =>
    LET t == h.strong[g] IN
    /\ g \in Copies(h, w) /\ NegationOf(h, w, g, t)
    /\ IF h.kind[g] = "NOT" THEN t = h.in[g][1]
       ELSE /\ t \in DOMAIN h.weak /\ h.weak[t] = g
            /\ IF h.kind[g] = "INPUT"
               THEN h.kind[t] = "NOT" /\ h.in[t] = <<g>> /\ w[t].rank = 1
               ELSE h.kind[t] = Negation(h.kind[g]) /\ w[t].rank = w[g].rank

WeakOK(h, w, p) ==
  \A g \in Live(h) : w[g].part = p =>
    /\ g \in Copies(h, w) <=> g \notin DOMAIN h.weak
    /\ g \in DOMAIN h.weak => /\ h.weak[g] \in DOMAIN h.strong /\ h.strong[h.weak[g]] = g
                              /\ w[h.weak[g]].part = p /\ h.kind[h.weak[g]] # "NOT"

TwinsOK(h, w, p, pins) ==
  OriginalOK(h, w, p) /\ HeldOK(h, w, p, pins) /\ StrongOK(h, w, p) /\ WeakOK(h, w, p)

\* What the walk has left behind it at slot s of g.
Settled(h, g, s) ==
  LET x == h.in[g][s] IN
  /\ x \in h.marked
  /\ h.kind[x] = "NOT" => /\ h.kind[h.in[x][1]] = "INPUT"
                          /\ h.in[x][1] \in DOMAIN h.strong /\ h.strong[h.in[x][1]] = x

WalkOK(h, w, st) ==
  /\ st \in Seq([gate : h.marked, slot : Nat \ {0}])
  /\ \A i, j \in 1 .. Len(st) : i < j => w[st[i].gate].rank < w[st[j].gate].rank
  /\ \A g \in h.marked : h.kind[g] = "NOT" => h.kind[h.in[g][1]] = "INPUT"
  /\ \A g \in h.marked : \A s \in DOMAIN h.in[g] :
       Settled(h, g, s) \/ \E i \in 1 .. Len(st) : st[i].gate = g /\ st[i].slot <= s

Stripping(w) ==
  phase # "idle" =>
    /\ last \notin stripped /\ TwinsOK(heap, w, last, Held(circuits) \cup {oldOutput})
    /\ IF phase = "top" THEN stack = <<>> /\ heap.marked = {}
       ELSE circuits[last].output \in heap.marked /\ WalkOK(heap, w, stack)

Sound(w) ==
  /\ HeapOK(heap) /\ Fitting(heap, w) /\ CircuitsOK(heap, w, circuits, goal)
  /\ StrippedOK(heap, w, circuits, stripped)
  /\ phase \in {"idle", "top", "walk"} /\ Idle /\ Stripping(w)
  /\ phase = "idle" => \A g \in Live(heap) : w[g].part # 0

CopyInv == \E w : Sound(w)

LEMMA HeapFacts ==
  ASSUME NEW h, HeapOK(h)
  PROVE  /\ IsFiniteSet(Live(h)) /\ \A g \in Live(h) : g \in Nat \ {0} /\ g < h.next
         /\ \A g \in Live(h) :
              /\ Children(h, g) \subseteq Live(h)
              /\ h.kind[g] \in {"INPUT", "TRUE", "FALSE"} => Children(h, g) = {} /\ DOMAIN h.in[g] = {}
              /\ h.kind[g] = "NOT" => /\ DOMAIN h.in[g] = {1} /\ Children(h, g) = {h.in[g][1]}
                                      /\ h.in[g][1] \in Live(h)
              /\ h.kind[g] \in {"AND", "OR"} =>
                   /\ DOMAIN h.in[g] = {1, 2} /\ Children(h, g) = {h.in[g][1], h.in[g][2]}
                   /\ h.in[g][1] \in Live(h) /\ h.in[g][2] \in Live(h)
<1>1. h.next \in Nat \ {0} /\ Live(h) \in SUBSET (1 .. h.next - 1)
  BY DEF HeapOK
<1>2. IsFiniteSet(Live(h))
  <2>1. IsFiniteSet(1 .. h.next - 1)
    BY <1>1, FS_Interval
  <2> QED
    BY <1>1, <2>1, FS_Subset
<1>3. ASSUME NEW g \in Live(h)
      PROVE  /\ Children(h, g) \subseteq Live(h)
             /\ h.kind[g] \in {"INPUT", "TRUE", "FALSE"} => Children(h, g) = {} /\ DOMAIN h.in[g] = {}
             /\ h.kind[g] = "NOT" => DOMAIN h.in[g] = {1} /\ Children(h, g) = {h.in[g][1]}
             /\ h.kind[g] \in {"AND", "OR"} =>
                  DOMAIN h.in[g] = {1, 2} /\ Children(h, g) = {h.in[g][1], h.in[g][2]}
  <2>1. Children(h, g) \subseteq Live(h) /\ DOMAIN h.in[g] = 1 .. Arity(h.kind[g])
    BY DEF HeapOK
  <2>2. Children(h, g) = {h.in[g][s] : s \in DOMAIN h.in[g]}
    BY DEF Children, Range
  <2>3. h.kind[g] \in {"INPUT", "TRUE", "FALSE"} => Arity(h.kind[g]) = 0
    BY DEF Arity
  <2>4. h.kind[g] = "NOT" => Arity(h.kind[g]) = 1
    BY DEF Arity
  <2>5. h.kind[g] \in {"AND", "OR"} => Arity(h.kind[g]) = 2
    BY DEF Arity
  <2>6. 1 .. 0 = {} /\ 1 .. 1 = {1} /\ 1 .. 2 = {1, 2}
    OBVIOUS
  <2> QED
    BY <2>1, <2>2, <2>3, <2>4, <2>5, <2>6
<1>4. \A g \in Live(h) : g \in Nat \ {0} /\ g < h.next
  BY <1>1
<1> QED
  BY <1>2, <1>3, <1>4

LEMMA ReachOK ==
  ASSUME NEW h, HeapOK(h), NEW gates \in SUBSET Live(h)
  PROVE  /\ gates \subseteq ReachableFrom(h, gates) /\ ReachableFrom(h, gates) \subseteq Live(h)
         /\ Downward(h, ReachableFrom(h, gates))
         /\ \A T : gates \subseteq T /\ Downward(h, T) => ReachableFrom(h, gates) \subseteq T
<1> DEFINE next == [g \in Live(h) |-> Children(h, g)]
<1>1. next \in [Live(h) -> SUBSET Live(h)] /\ IsFiniteSet(Live(h))
  BY HeapFacts
<1>2. \A T : Downward(h, T) <=> Closed(next, T)
  BY DEF Downward, Closed
<1>3. ReachableFrom(h, gates) = Closure(next, gates)
  BY DEF ReachableFrom
<1> HIDE DEF next
<1>4. /\ gates \subseteq Closure(next, gates) /\ Closure(next, gates) \subseteq Live(h)
      /\ Closed(next, Closure(next, gates))
      /\ \A T : gates \subseteq T /\ Closed(next, T) => Closure(next, gates) \subseteq T
  BY <1>1, ClosureFacts
<1> QED
  BY <1>2, <1>3, <1>4

\* A gate that can be reached is a start or the input of one that can.
LEMMA ReachedFrom ==
  ASSUME NEW h, HeapOK(h), NEW gates \in SUBSET Live(h), NEW g \in ReachableFrom(h, gates)
  PROVE  g \in gates \/ \E x \in ReachableFrom(h, gates) : g \in Children(h, x)
<1> DEFINE R == ReachableFrom(h, gates)
           T == {y \in R : y \in gates \/ \E x \in R : y \in Children(h, x)}
<1>1. gates \subseteq R /\ R \subseteq Live(h) /\ Downward(h, R)
      /\ \A S : gates \subseteq S /\ Downward(h, S) => R \subseteq S
  BY ReachOK
<1> HIDE DEF R
<1>2. Downward(h, T) /\ gates \subseteq T
  BY <1>1 DEF Downward
<1> QED
  BY <1>1, <1>2 DEF R

-----------------------------------------------------------------------------
(* What gates compute and reach.                                           *)

\* What is known of a gate is true of it: by rank, there is only one solution.
LEMMA TablesAre ==
  ASSUME NEW h, HeapOK(h), NEW w, Fitting(h, w), NEW g \in Live(h)
  PROVE  Table(h, g) = w[g].value
<1> DEFINE L == Live(h)
           v == [x \in L |-> w[x].value]
           rank == [x \in L |-> w[x].rank]
           T == CHOOSE t : t = [x \in L |-> Computed(h, t, x)]
           Good == {x \in L : T[x] = v[x]}
<1>1. ASSUME NEW x \in L
      PROVE  v[x] = Computed(h, v, x)
  <2>1. Fits(h, w, x) /\ v[x] = w[x].value
    BY DEF Fitting
  <2>2. h.kind[x] \in {"INPUT", "TRUE", "FALSE", "NOT", "AND", "OR"}
    BY DEF HeapOK
  <2>3. CASE h.kind[x] \in {"INPUT", "TRUE", "FALSE"}
    BY <2>1, <2>3 DEF Fits, Computed
  <2>4. CASE h.kind[x] = "NOT"
    <3>1. v[h.in[x][1]] = w[h.in[x][1]].value
      BY <2>4, HeapFacts
    <3> QED
      BY <2>1, <2>4, <3>1 DEF Fits, Computed
  <2>5. CASE h.kind[x] \in {"AND", "OR"}
    <3>1. v[h.in[x][1]] = w[h.in[x][1]].value /\ v[h.in[x][2]] = w[h.in[x][2]].value
      BY <2>5, HeapFacts
    <3> QED
      BY <2>1, <2>5, <3>1 DEF Fits, Computed
  <2> QED
    BY <2>2, <2>3, <2>4, <2>5
<1>2. v = [x \in L |-> Computed(h, v, x)]
  BY <1>1
<1>3. T = [x \in L |-> Computed(h, T, x)]
  <2> HIDE DEF v
  <2> QED
    BY <1>2
<1>4. Tables(h) = T
  BY DEF Tables, Computed, L
<1> HIDE DEF T
<1>5. ASSUME NEW x \in L, \A y \in L : rank[y] < rank[x] => y \in Good
      PROVE  x \in Good
  <2>1. Fits(h, w, x) /\ \A y \in L : w[y].rank \in Nat
    BY DEF Fitting
  <2>2. h.kind[x] \in {"INPUT", "TRUE", "FALSE", "NOT", "AND", "OR"}
    BY DEF HeapOK
  <2>3. T[x] = Computed(h, T, x) /\ v[x] = Computed(h, v, x)
    BY <1>1, <1>3
  <2>4. CASE h.kind[x] \in {"INPUT", "TRUE", "FALSE"}
    BY <2>3, <2>4 DEF Computed
  <2>5. CASE h.kind[x] = "NOT"
    <3>1. h.in[x][1] \in L /\ rank[h.in[x][1]] < rank[x]
      BY <2>1, <2>5, HeapFacts DEF Fits
    <3>2. T[h.in[x][1]] = v[h.in[x][1]]
      BY <1>5, <3>1
    <3> HIDE DEF v
    <3> QED
      BY <2>3, <2>5, <3>2 DEF Computed
  <2>6. CASE h.kind[x] \in {"AND", "OR"}
    <3>1. /\ h.in[x][1] \in L /\ rank[h.in[x][1]] < rank[x]
          /\ h.in[x][2] \in L /\ rank[h.in[x][2]] < rank[x]
      BY <2>1, <2>6, HeapFacts DEF Fits
    <3>2. T[h.in[x][1]] = v[h.in[x][1]] /\ T[h.in[x][2]] = v[h.in[x][2]]
      BY <1>5, <3>1
    <3> HIDE DEF v
    <3> QED
      BY <2>3, <2>6, <3>2 DEF Computed
  <2> QED
    BY <2>2, <2>4, <2>5, <2>6
<1>6. IsFiniteSet(L) /\ \A x \in L : rank[x] \in Nat
  BY HeapFacts DEF Fitting
<1> HIDE DEF Good, rank
<1>7. L \subseteq Good
  BY <1>5, <1>6, FromLowRank
<1> QED
  BY <1>4, <1>7 DEF Good, Table

\* The inputs a gate is known to be above can be reached from it.
LEMMA InputsReached ==
  ASSUME NEW h, HeapOK(h), NEW w, Fitting(h, w), NEW T, Downward(h, T)
  PROVE  \A g \in T \cap Live(h) : w[g].inputs \subseteq T
<1> DEFINE L == Live(h)
           rank == [x \in L |-> w[x].rank]
           Good == {x \in L : x \in T => w[x].inputs \subseteq T}
<1>1. ASSUME NEW x \in L, \A y \in L : rank[y] < rank[x] => y \in Good
      PROVE  x \in Good
  <2>1. Fits(h, w, x) /\ \A y \in L : w[y].rank \in Nat
    BY DEF Fitting
  <2>2. h.kind[x] \in {"INPUT", "TRUE", "FALSE", "NOT", "AND", "OR"}
    BY DEF HeapOK
  <2>3. CASE h.kind[x] \in {"INPUT", "TRUE", "FALSE"}
    BY <2>1, <2>3 DEF Fits
  <2>4. CASE h.kind[x] = "NOT"
    <3>1. h.in[x][1] \in L /\ rank[h.in[x][1]] < rank[x] /\ w[x].inputs = w[h.in[x][1]].inputs
      BY <2>1, <2>4, HeapFacts DEF Fits
    <3>2. x \in T => h.in[x][1] \in T
      BY <2>4, HeapFacts DEF Downward
    <3> QED
      BY <1>1, <3>1, <3>2
  <2>5. CASE h.kind[x] \in {"AND", "OR"}
    <3>1. /\ h.in[x][1] \in L /\ rank[h.in[x][1]] < rank[x]
          /\ h.in[x][2] \in L /\ rank[h.in[x][2]] < rank[x]
          /\ w[x].inputs = w[h.in[x][1]].inputs \cup w[h.in[x][2]].inputs
      BY <2>1, <2>5, HeapFacts DEF Fits
    <3>2. x \in T => h.in[x][1] \in T /\ h.in[x][2] \in T
      BY <2>5, HeapFacts DEF Downward
    <3> QED
      BY <1>1, <3>1, <3>2
  <2> QED
    BY <2>2, <2>3, <2>4, <2>5
<1>2. IsFiniteSet(L) /\ \A x \in L : rank[x] \in Nat
  BY HeapFacts DEF Fitting
<1> HIDE DEF Good, rank
<1>3. L \subseteq Good
  BY <1>1, <1>2, FromLowRank
<1> QED
  BY <1>3 DEF Good

-----------------------------------------------------------------------------
(* New gates.                                                              *)

\* j has the gates of h and a new one, in new, for each gate in M.
Making(h, j, kinds, ins, M, new) ==
  /\ M \subseteq Live(h) /\ DOMAIN kinds = M /\ DOMAIN ins = M
  /\ \A x : x \in new <=> \E g \in M : x = h.next + g
  /\ j.kind = Joined(h.kind, Shifted(h, kinds)) /\ j.in = Joined(h.in, Shifted(h, ins))
  /\ j.next = IF M = {} THEN h.next ELSE h.next + h.next

LEMMA MadeHeap ==
  ASSUME NEW h, HeapOK(h), NEW j, NEW kinds, NEW ins, NEW M, NEW new,
         Making(h, j, kinds, ins, M, new)
  PROVE  /\ Live(j) = Live(h) \cup new /\ new \cap Live(h) = {}
         /\ j.next \in Nat \ {0} /\ Live(j) \subseteq 1 .. j.next - 1
         /\ \A g \in Live(h) : j.kind[g] = h.kind[g] /\ j.in[g] = h.in[g]
         /\ \A g \in M : j.kind[h.next + g] = kinds[g] /\ j.in[h.next + g] = ins[g]
         /\ j.kind = [g \in Live(j) |-> j.kind[g]] /\ j.in = [g \in Live(j) |-> j.in[g]]
<1> DEFINE n == h.next
<1>0. /\ M \subseteq Live(h) /\ DOMAIN kinds = M /\ DOMAIN ins = M
      /\ new = {n + g : g \in M}
      /\ j.kind = Joined(h.kind, Shifted(h, kinds)) /\ j.in = Joined(h.in, Shifted(h, ins))
      /\ j.next = IF M = {} THEN n ELSE n + n
  BY DEF Making
<1>1. n \in Nat \ {0} /\ M \subseteq Live(h) /\ \A g \in Live(h) : g \in Nat \ {0} /\ g < n
  BY <1>0, HeapFacts DEF HeapOK
<1>2. h.kind = [g \in Live(h) |-> h.kind[g]] /\ h.in = [g \in Live(h) |-> h.in[g]]
  BY DEF HeapOK
<1>3. DOMAIN h.kind = Live(h) /\ DOMAIN h.in = Live(h)
  BY <1>2 DEF Live
<1>4. Shifted(h, kinds) = [m \in new |-> kinds[m - n]] /\ Shifted(h, ins) = [m \in new |-> ins[m - n]]
  BY <1>0 DEF Shifted
<1>5. new \cap Live(h) = {}
  <2> SUFFICES ASSUME NEW g \in M, n + g \in Live(h) PROVE FALSE
    BY <1>0
  <2> QED
    BY <1>1
<1>6. \A g \in M : n + g \in new /\ (n + g) - n = g
  BY <1>0, <1>1
<1>7. j.kind = [x \in Live(h) \cup new |-> IF x \in Live(h) THEN h.kind[x] ELSE kinds[x - n]]
  BY <1>0, <1>3, <1>4 DEF Joined
<1>8. j.in = [x \in Live(h) \cup new |-> IF x \in Live(h) THEN h.in[x] ELSE ins[x - n]]
  BY <1>0, <1>3, <1>4 DEF Joined
<1>9. Live(j) = Live(h) \cup new
  BY <1>7 DEF Live
<1>10. j.next \in Nat \ {0} /\ Live(j) \subseteq 1 .. j.next - 1
  <2>1. CASE M = {}
    BY <1>0, <1>1, <1>9, <2>1
  <2>2. CASE M # {}
    <3>1. j.next = n + n
      BY <1>0, <2>2
    <3>2. \A g \in Live(h) : g \in 1 .. n + n - 1 /\ n + g \in 1 .. n + n - 1
      BY <1>1
    <3> QED
      BY <1>0, <1>1, <1>9, <3>1, <3>2
  <2> QED
    BY <2>1, <2>2
<1>11. \A g \in Live(h) : j.kind[g] = h.kind[g] /\ j.in[g] = h.in[g]
  BY <1>7, <1>8
<1>12. \A g \in M : j.kind[n + g] = kinds[g] /\ j.in[n + g] = ins[g]
  <2> SUFFICES ASSUME NEW g \in M PROVE j.kind[n + g] = kinds[g] /\ j.in[n + g] = ins[g]
    OBVIOUS
  <2>1. n + g \in new /\ n + g \notin Live(h) /\ (n + g) - n = g
    BY <1>5, <1>6
  <2> QED
    BY <1>7, <1>8, <2>1
<1>13. j.kind = [g \in Live(j) |-> j.kind[g]] /\ j.in = [g \in Live(j) |-> j.in[g]]
  BY <1>7, <1>8, <1>9
<1> QED
  BY <1>5, <1>9, <1>10, <1>11, <1>12, <1>13

\* j is h with a copy of every gate in C.
CopiedHeap(h, j, C) ==
  /\ HeapOK(j) /\ Live(j) = Live(h) \cup {h.next + g : g \in C}
  /\ \A g \in C : h.next + g \notin Live(h)
  /\ \A g \in Live(h) : /\ j.kind[g] = h.kind[g] /\ j.in[g] = h.in[g]
                        /\ h.kind[g] = "INPUT" => j.id[g] = h.id[g]
  /\ \A g \in C : /\ j.kind[h.next + g] = h.kind[g] /\ DOMAIN j.in[h.next + g] = DOMAIN h.in[g]
                  /\ \A s \in DOMAIN h.in[g] : j.in[h.next + g][s] = h.next + h.in[g][s]
                  /\ h.kind[g] = "INPUT" => j.id[h.next + g] = h.id[g]
  /\ j.strong = [g \in C |-> h.next + g] /\ j.weak = h.weak /\ j.marked = h.marked

LEMMA CopyFacts ==
  ASSUME NEW h, HeapOK(h), Flagged(h) = {}, NEW gates \in SUBSET Live(h)
  PROVE  CopiedHeap(h, WithCopy(h, gates), ReachableFrom(h, gates))
<1> DEFINE C == ReachableFrom(h, gates)
           n == h.next
           j == WithCopy(h, gates)
           twin == Joined([g \in C |-> n + g], h.strong)
           kinds == [g \in C |-> h.kind[g]]
           ins == [g \in C |-> [s \in DOMAIN h.in[g] |-> twin[h.in[g][s]]]]
           ids == [g \in C \cap DOMAIN h.id |-> h.id[g]]
           m == MakeGates(h, kinds, ins)
           new == {n + g : g \in C}
<1>1. Twinned(h) = {} /\ DOMAIN h.strong = {} /\ DOMAIN h.weak = {} /\ h.marked = {}
  BY DEF Flagged, Twinned
<1>2. ToCopy(h, gates) = C
  <2>1. [g \in Live(h) |-> Children(h, g) \ Twinned(h)] = [g \in Live(h) |-> Children(h, g)]
    BY <1>1
  <2>2. gates \ Twinned(h) = gates
    BY <1>1
  <2> QED
    BY <2>1, <2>2 DEF ToCopy, ReachableFrom
<1>3. C \subseteq Live(h) /\ \A g \in C : Children(h, g) \subseteq C
  BY ReachOK DEF Downward
<1>4. twin = [g \in C |-> n + g]
  BY <1>1 DEF Joined
<1>5. j = [m EXCEPT !.id = Joined(@, Shifted(h, ids)), !.strong = twin]
  BY <1>2 DEF WithCopy
<1>6. m = [h EXCEPT !.kind = Joined(h.kind, Shifted(h, kinds)), !.in = Joined(h.in, Shifted(h, ins)),
                    !.next = IF C = {} THEN n ELSE n + n]
  BY DEF MakeGates
<1>7. h = [next |-> h.next, kind |-> h.kind, in |-> h.in, id |-> h.id,
           strong |-> h.strong, weak |-> h.weak, marked |-> h.marked]
  BY DEF HeapOK
<1> HIDE DEF C, twin, kinds, ins, ids
<1>8. /\ j.kind = Joined(h.kind, Shifted(h, kinds)) /\ j.in = Joined(h.in, Shifted(h, ins))
      /\ j.next = (IF C = {} THEN n ELSE n + n)
      /\ j.id = Joined(h.id, Shifted(h, ids)) /\ j.strong = twin
      /\ j.weak = h.weak /\ j.marked = h.marked
      /\ j = [next |-> j.next, kind |-> j.kind, in |-> j.in, id |-> j.id,
              strong |-> j.strong, weak |-> j.weak, marked |-> j.marked]
  BY <1>5, <1>6, <1>7
<1> HIDE DEF j, m
<1>9. DOMAIN kinds = C /\ DOMAIN ins = C /\ DOMAIN ids = C \cap DOMAIN h.id
  BY DEF kinds, ins, ids
<1>10. /\ Live(j) = Live(h) \cup new /\ new \cap Live(h) = {}
       /\ j.next \in Nat \ {0} /\ Live(j) \subseteq 1 .. j.next - 1
       /\ \A g \in Live(h) : j.kind[g] = h.kind[g] /\ j.in[g] = h.in[g]
       /\ \A g \in C : j.kind[n + g] = kinds[g] /\ j.in[n + g] = ins[g]
       /\ j.kind = [g \in Live(j) |-> j.kind[g]] /\ j.in = [g \in Live(j) |-> j.in[g]]
  <2>1. \A x : x \in new <=> \E g \in C : x = h.next + g
    OBVIOUS
  <2>2. j.next = IF C = {} THEN h.next ELSE h.next + h.next
    BY <1>8
  <2> HIDE DEF new
  <2>3. Making(h, j, kinds, ins, C, new)
    BY <1>3, <1>8, <1>9, <2>1, <2>2 DEF Making
  <2> QED
    BY <2>3, MadeHeap
<1>11. \A g \in C : /\ j.kind[n + g] = h.kind[g] /\ DOMAIN j.in[n + g] = DOMAIN h.in[g]
                    /\ \A s \in DOMAIN h.in[g] : j.in[n + g][s] = n + h.in[g][s]
  <2> SUFFICES ASSUME NEW g \in C
               PROVE  /\ kinds[g] = h.kind[g] /\ DOMAIN ins[g] = DOMAIN h.in[g]
                      /\ \A s \in DOMAIN h.in[g] : ins[g][s] = n + h.in[g][s]
    BY <1>10
  <2>1. \A s \in DOMAIN h.in[g] : h.in[g][s] \in C
    BY <1>3 DEF Children, Range
  <2> QED
    BY <1>4, <2>1 DEF kinds, ins
<1>12. /\ DOMAIN h.id = {g \in Live(h) : h.kind[g] = "INPUT"}
       /\ \A g \in Live(h) : g \in Nat \ {0} /\ g < n
       /\ n \in Nat
  BY HeapFacts DEF HeapOK
<1>13. /\ j.id = [x \in DOMAIN h.id \cup {n + g : g \in C \cap DOMAIN h.id}
                    |-> IF x \in DOMAIN h.id THEN h.id[x] ELSE ids[x - n]]
  <2>1. Shifted(h, ids) = [x \in {n + g : g \in C \cap DOMAIN h.id} |-> ids[x - n]]
    BY <1>9 DEF Shifted
  <2> QED
    BY <1>8, <2>1 DEF Joined
<1>14. \A g \in Live(h) : h.kind[g] = "INPUT" => j.id[g] = h.id[g]
  BY <1>12, <1>13
<1>15. \A g \in C : n + g \notin Live(h) /\ (n + g) - n = g
  BY <1>3, <1>10, <1>12
<1>16. \A g \in C : h.kind[g] = "INPUT" => j.id[n + g] = h.id[g]
  <2> SUFFICES ASSUME NEW g \in C, h.kind[g] = "INPUT" PROVE j.id[n + g] = h.id[g]
    OBVIOUS
  <2>1. g \in C \cap DOMAIN h.id /\ n + g \notin DOMAIN h.id
    BY <1>3, <1>12, <1>15
  <2>2. j.id[n + g] = ids[(n + g) - n]
    BY <1>13, <2>1
  <2> QED
    BY <1>15, <2>1, <2>2 DEF ids
<1>17. DOMAIN j.id = {x \in Live(j) : j.kind[x] = "INPUT"}
  <2>1. DOMAIN j.id = DOMAIN h.id \cup {n + g : g \in C \cap DOMAIN h.id}
    BY <1>13
  <2>2. \A x \in Live(h) : x \in DOMAIN j.id <=> j.kind[x] = "INPUT"
    <3>1. \A g \in C : n + g \notin Live(h)
      BY <1>15
    <3> QED
      BY <1>10, <1>12, <2>1, <3>1
  <2>3. ASSUME NEW g \in C
        PROVE  n + g \in DOMAIN j.id <=> j.kind[n + g] = "INPUT"
    <3>1. n + g \notin DOMAIN h.id
      BY <1>12, <1>15
    <3>2. \A x \in C : n + x = n + g => x = g
      BY <1>3, <1>12
    <3>3. n + g \in DOMAIN j.id <=> g \in DOMAIN h.id
      BY <2>1, <3>1, <3>2
    <3> QED
      BY <1>3, <1>11, <1>12, <3>3
  <2>4. DOMAIN j.id \subseteq Live(j)
    BY <1>10, <1>12, <2>1
  <2> QED
    BY <1>10, <2>2, <2>3, <2>4
<1>18. ASSUME NEW x \in Live(j)
       PROVE  /\ j.kind[x] \in {"INPUT", "TRUE", "FALSE", "NOT", "AND", "OR"}
              /\ DOMAIN j.in[x] = 1 .. Arity(j.kind[x]) /\ Children(j, x) \subseteq Live(j)
  <2>1. \A g \in Live(h) : /\ h.kind[g] \in {"INPUT", "TRUE", "FALSE", "NOT", "AND", "OR"}
                           /\ DOMAIN h.in[g] = 1 .. Arity(h.kind[g])
                           /\ \A s \in DOMAIN h.in[g] : h.in[g][s] \in Live(h)
    BY DEF HeapOK, Children, Range
  <2>2. CASE x \in Live(h)
    BY <1>10, <2>1, <2>2 DEF Children, Range
  <2>3. CASE x \in new
    <3>1. PICK g \in C : x = n + g
      BY <2>3
    <3>2. \A s \in DOMAIN h.in[g] : h.in[g][s] \in C
      BY <1>3 DEF Children, Range
    <3>3. \A s \in DOMAIN j.in[x] : j.in[x][s] \in Live(j)
      <4>1. \A s \in DOMAIN h.in[g] : n + h.in[g][s] \in Live(j)
        BY <1>10, <3>2
      <4> HIDE DEF n
      <4> QED
        BY <1>11, <3>1, <4>1
    <3> QED
      BY <1>3, <1>11, <2>1, <3>1, <3>3 DEF Children, Range
  <2> QED
    BY <1>10, <2>2, <2>3
<1>19. HeapOK(j)
  <2>1. j.id = [x \in DOMAIN j.id |-> j.id[x]]
    BY <1>13
  <2>2. /\ j.strong = [g \in DOMAIN j.strong |-> j.strong[g]] /\ DOMAIN j.strong = C
        /\ j.weak = [g \in DOMAIN j.weak |-> j.weak[g]] /\ DOMAIN j.weak = {} /\ j.marked = {}
    <3>1. h.weak = [g \in DOMAIN h.weak |-> h.weak[g]]
      BY DEF HeapOK
    <3> QED
      BY <1>1, <1>4, <1>8, <3>1
  <2> QED
    BY <1>3, <1>8, <1>10, <1>17, <1>18, <2>1, <2>2 DEF HeapOK, Twinned
<1> QED
  BY <1>4, <1>8, <1>10, <1>11, <1>14, <1>15, <1>16, <1>19 DEF CopiedHeap, C, j

-----------------------------------------------------------------------------
(* Negated twins.                                                          *)

\* A gate that is asked has no twin, and a NOT gate does not ask further.
LEMMA AskedFacts ==
  ASSUME NEW h, HeapOK(h), NEW g \in Live(h)
  PROVE  /\ ToNegate(h, g) \subseteq Live(h) \ Twinned(h)
         /\ g \in ToNegate(h, g) \cup Twinned(h)
         /\ \A x \in ToNegate(h, g) :
              h.kind[x] # "NOT" => Children(h, x) \subseteq ToNegate(h, g) \cup Twinned(h)
         /\ \A T : g \in T /\ Downward(h, T) => ToNegate(h, g) \subseteq T
<1> DEFINE L == Live(h)
           next == [x \in L |-> IF h.kind[x] = "NOT" THEN {} ELSE Children(h, x) \ Twinned(h)]
           start == {g} \ Twinned(h)
           C == Closure(next, start)
<1>1. IsFiniteSet(L) /\ next \in [L -> SUBSET L] /\ start \in SUBSET L
  BY HeapFacts
<1>2. /\ start \subseteq C /\ C \subseteq L /\ Closed(next, C)
      /\ \A T : start \subseteq T /\ Closed(next, T) => C \subseteq T
  <2> HIDE DEF next, start, L
  <2> QED
    BY <1>1, ClosureFacts
<1>3. ToNegate(h, g) = C
  BY DEF ToNegate
<1> HIDE DEF C
<1>4. C \subseteq L \ Twinned(h)
  <2>1. Closed(next, L \ Twinned(h))
    <3> SUFFICES ASSUME NEW x \in L, x \notin Twinned(h), NEW y \in next[x]
                 PROVE  y \in L \ Twinned(h)
      BY DEF Closed
    <3> QED
      BY HeapFacts
  <2>2. start \subseteq L \ Twinned(h)
    OBVIOUS
  <2> QED
    BY <1>2, <2>1, <2>2
<1>5. \A T : g \in T /\ Downward(h, T) => C \subseteq T
  <2> SUFFICES ASSUME NEW T, g \in T, Downward(h, T) PROVE C \subseteq T
    OBVIOUS
  <2>1. Closed(next, T)
    <3> SUFFICES ASSUME NEW x \in T \cap L PROVE next[x] \subseteq T
      BY DEF Closed
    <3> QED
      BY DEF Downward
  <2> QED
    BY <1>2, <2>1
<1>6. ASSUME NEW x \in C, h.kind[x] # "NOT"
      PROVE  Children(h, x) \subseteq C \cup Twinned(h)
  <2>1. next[x] \subseteq C
    BY <1>2 DEF Closed
  <2>2. next[x] = Children(h, x) \ Twinned(h)
    BY <1>2, <1>6
  <2> QED
    BY <2>1, <2>2
<1> QED
  BY <1>2, <1>3, <1>4, <1>5, <1>6

\* A twin computes the negation, from the same inputs, and is hardly higher.
TwinOf(h, v, g, t, p) ==
  /\ t \in Live(h) /\ v[t].part = p /\ v[t].inputs = v[g].inputs
  /\ v[t].value = Valuation \ v[g].value
  /\ v[t].rank \in Nat /\ v[t].rank <= IF h.kind[g] = "INPUT" THEN 1 ELSE v[g].rank

LEMMA TwinIsNegation ==
  ASSUME NEW h, HeapOK(h), NEW w, Fitting(h, w), NEW p, NEW pins, TwinsOK(h, w, p, pins),
         NEW g \in Twinned(h), w[g].part = p
  PROVE  TwinOf(h, w, g, Twin(h, g), p)
<1>1. g \in Live(h) /\ Twinned(h) = DOMAIN h.strong \cup DOMAIN h.weak
  BY DEF HeapOK, Twinned
<1>2. \A x \in Live(h) : /\ w[x].rank \in Nat /\ w[x].value \subseteq Valuation /\ Fits(h, w, x)
                         /\ h.kind[x] \in {"INPUT", "TRUE", "FALSE", "NOT", "AND", "OR"}
  BY DEF Fitting, HeapOK
<1>3. ASSUME NEW x \in DOMAIN h.strong, w[x].part = p, x \in Live(h)
      PROVE  LET t == h.strong[x] IN
             /\ t \in Live(h) /\ w[t].part = p /\ w[t].inputs = w[x].inputs
             /\ w[t].value = Valuation \ w[x].value
             /\ h.kind[x] = "NOT" => t = h.in[x][1]
             /\ h.kind[x] = "INPUT" => h.kind[t] = "NOT" /\ h.in[t] = <<x>> /\ w[t].rank = 1
             /\ h.kind[x] \notin {"NOT", "INPUT"} =>
                  h.kind[t] = Negation(h.kind[x]) /\ w[t].rank = w[x].rank
  BY <1>3 DEF TwinsOK, StrongOK, NegationOf
<1>4. CASE g \in DOMAIN h.strong
  <2> DEFINE t == h.strong[g]
  <2>1. Twin(h, g) = t
    BY <1>4 DEF Twin
  <2>2. t \in Live(h) /\ w[t].rank \in Nat
    BY <1>1, <1>2, <1>3, <1>4
  <2>3. w[t].rank <= IF h.kind[g] = "INPUT" THEN 1 ELSE w[g].rank
    <3>1. CASE h.kind[g] = "NOT"
      <4>1. t = h.in[g][1] /\ w[g].rank > w[h.in[g][1]].rank
        BY <1>1, <1>2, <1>3, <1>4, <3>1 DEF Fits
      <4> QED
        BY <1>1, <1>2, <2>2, <3>1, <4>1
    <3>2. CASE h.kind[g] = "INPUT"
      BY <1>1, <1>3, <1>4, <3>2
    <3>3. CASE h.kind[g] \notin {"NOT", "INPUT"}
      <4>1. w[t].rank = w[g].rank
        BY <1>1, <1>3, <1>4, <3>3
      <4> QED
        BY <2>2, <3>3, <4>1
    <3> QED
      BY <3>1, <3>2, <3>3
  <2> QED
    BY <1>1, <1>3, <1>4, <2>1, <2>2, <2>3 DEF TwinOf
<1>5. CASE g \notin DOMAIN h.strong
  <2> DEFINE b == h.weak[g]
  <2>1. Twin(h, g) = b /\ g \in DOMAIN h.weak
    BY <1>1, <1>5 DEF Twin
  <2>2. b \in DOMAIN h.strong /\ h.strong[b] = g /\ w[b].part = p /\ h.kind[b] # "NOT"
    BY <1>1, <2>1 DEF TwinsOK, WeakOK
  <2>3. b \in Live(h)
    BY <2>2 DEF HeapOK, Twinned
  <2>4. /\ w[g].inputs = w[b].inputs /\ w[g].value = Valuation \ w[b].value
        /\ h.kind[b] = "INPUT" => h.kind[g] = "NOT" /\ w[g].rank = 1
        /\ h.kind[b] # "INPUT" => h.kind[g] = Negation(h.kind[b]) /\ w[g].rank = w[b].rank
    BY <1>3, <2>2, <2>3
  <2>5. w[b].rank \in Nat /\ w[b].value \subseteq Valuation /\ Fits(h, w, b)
        /\ h.kind[b] \in {"INPUT", "TRUE", "FALSE", "NOT", "AND", "OR"}
    BY <1>2, <2>3
  <2>6. w[b].value = Valuation \ w[g].value
    BY <2>4, <2>5
  <2>7. h.kind[g] # "INPUT" /\ w[b].rank <= w[g].rank
    <3>1. CASE h.kind[b] = "INPUT"
      <4>1. w[b].rank = 0
        BY <2>5, <3>1 DEF Fits
      <4> QED
        BY <2>4, <3>1, <4>1
    <3>2. CASE h.kind[b] # "INPUT"
      <4>1. Negation(h.kind[b]) # "INPUT"
        BY <2>2, <2>5, <3>2 DEF Negation, Dual
      <4> QED
        BY <2>4, <2>5, <3>2, <4>1
    <3> QED
      BY <3>1, <3>2
  <2> QED
    BY <2>1, <2>2, <2>3, <2>4, <2>5, <2>6, <2>7 DEF TwinOf
<1> QED
  BY <1>4, <1>5

\* j is h with a negated twin for every gate of A that had none.
NegatedHeap(h, j, A) ==
  LET Made == {x \in A : h.kind[x] # "NOT"} IN
  /\ HeapOK(j) /\ Live(j) = Live(h) \cup {h.next + x : x \in Made}
  /\ \A x \in Made : h.next + x \notin Live(h)
  /\ \A x \in Live(h) : /\ j.kind[x] = h.kind[x] /\ j.in[x] = h.in[x]
                        /\ h.kind[x] = "INPUT" => j.id[x] = h.id[x]
  /\ \A x \in Made :
       IF h.kind[x] = "INPUT" THEN j.kind[h.next + x] = "NOT" /\ j.in[h.next + x] = <<x>>
       ELSE /\ j.kind[h.next + x] = Negation(h.kind[x])
            /\ DOMAIN j.in[h.next + x] = DOMAIN h.in[x]
            /\ \A s \in DOMAIN h.in[x] : j.in[h.next + x][s] = Twin(j, h.in[x][s])
  /\ j.marked = h.marked
  /\ DOMAIN j.strong = A \cup DOMAIN h.strong
  /\ \A x \in DOMAIN h.strong : j.strong[x] = h.strong[x]
  /\ \A x \in A : j.strong[x] = IF h.kind[x] = "NOT" THEN h.in[x][1] ELSE h.next + x
  /\ DOMAIN j.weak = DOMAIN h.weak \cup {h.next + x : x \in Made}
  /\ \A x \in DOMAIN h.weak : j.weak[x] = h.weak[x]
  /\ \A x \in Made : j.weak[h.next + x] = x

LEMMA NegationFacts ==
  ASSUME NEW h, HeapOK(h), NEW g \in Live(h), NEW T, g \in T, Downward(h, T),
         \A x \in T \cap Twinned(h) : Twin(h, x) \in Live(h)
  PROVE  NegatedHeap(h, WithNegation(h, g), ToNegate(h, g))
<1> DEFINE A == ToNegate(h, g)
           M == {x \in A : h.kind[x] # "NOT"}
           n == h.next
           j == WithNegation(h, g)
           own == [x \in A |-> IF x \in M THEN n + x ELSE h.in[x][1]]
           twin == Joined(own, h.strong)
           TwinOn(x) == IF x \in DOMAIN twin THEN twin[x] ELSE h.weak[x]
           kinds == [x \in M |-> IF h.kind[x] = "INPUT" THEN "NOT" ELSE Negation(h.kind[x])]
           ins == [x \in M |-> IF h.kind[x] = "INPUT" THEN <<x>>
                               ELSE [s \in DOMAIN h.in[x] |-> TwinOn(h.in[x][s])]]
           self == [x \in M |-> x]
           m == MakeGates(h, kinds, ins)
           new == {n + x : x \in M}
<1>1. /\ A \subseteq Live(h) \ Twinned(h) /\ A \subseteq T
      /\ \A x \in M : Children(h, x) \subseteq A \cup Twinned(h)
  BY AskedFacts
<1>2. j = [m EXCEPT !.strong = twin, !.weak = Joined(@, Shifted(h, self))]
  BY DEF WithNegation
<1>3. m = [h EXCEPT !.kind = Joined(h.kind, Shifted(h, kinds)), !.in = Joined(h.in, Shifted(h, ins)),
                    !.next = IF M = {} THEN n ELSE n + n]
  BY DEF MakeGates
<1>4. h = [next |-> h.next, kind |-> h.kind, in |-> h.in, id |-> h.id,
           strong |-> h.strong, weak |-> h.weak, marked |-> h.marked]
  BY DEF HeapOK
<1>5. DOMAIN kinds = M /\ DOMAIN ins = M /\ DOMAIN self = M /\ M \subseteq Live(h)
  BY <1>1
<1> HIDE DEF A, M, twin, kinds, ins, self
<1>6. /\ j.kind = Joined(h.kind, Shifted(h, kinds)) /\ j.in = Joined(h.in, Shifted(h, ins))
      /\ j.next = (IF M = {} THEN n ELSE n + n)
      /\ j.id = h.id /\ j.strong = twin /\ j.marked = h.marked
      /\ j.weak = Joined(h.weak, Shifted(h, self))
      /\ j = [next |-> j.next, kind |-> j.kind, in |-> j.in, id |-> j.id,
              strong |-> j.strong, weak |-> j.weak, marked |-> j.marked]
  <2> DEFINE kind == Joined(h.kind, Shifted(h, kinds))
             in == Joined(h.in, Shifted(h, ins))
             weak == Joined(h.weak, Shifted(h, self))
             next == IF M = {} THEN n ELSE n + n
  <2> HIDE DEF kind, in, weak, next, m
  <2>1. m = [next |-> next, kind |-> kind, in |-> in, id |-> h.id,
             strong |-> h.strong, weak |-> h.weak, marked |-> h.marked]
    BY <1>3, <1>4 DEF kind, in, next
  <2>2. Joined(m.weak, Shifted(h, self)) = weak
    BY <2>1 DEF weak
  <2>3. j = [next |-> next, kind |-> kind, in |-> in, id |-> h.id,
             strong |-> twin, weak |-> weak, marked |-> h.marked]
    <3> HIDE DEF j
    <3>1. j = [m EXCEPT !.strong = twin, !.weak = weak]
      BY <1>2, <2>2
    <3> QED
      BY <2>1, <3>1
  <2> HIDE DEF j
  <2> QED
    BY <2>3 DEF kind, in, weak, next
<1> HIDE DEF j, m
<1>7. /\ Live(j) = Live(h) \cup new /\ new \cap Live(h) = {}
      /\ j.next \in Nat \ {0} /\ Live(j) \subseteq 1 .. j.next - 1
      /\ \A x \in Live(h) : j.kind[x] = h.kind[x] /\ j.in[x] = h.in[x]
      /\ \A x \in M : j.kind[n + x] = kinds[x] /\ j.in[n + x] = ins[x]
      /\ j.kind = [x \in Live(j) |-> j.kind[x]] /\ j.in = [x \in Live(j) |-> j.in[x]]
  <2>1. \A x : x \in new <=> \E y \in M : x = h.next + y
    OBVIOUS
  <2>2. j.next = IF M = {} THEN h.next ELSE h.next + h.next
    BY <1>6
  <2> HIDE DEF new
  <2>3. Making(h, j, kinds, ins, M, new)
    BY <1>5, <1>6, <2>1, <2>2 DEF Making
  <2> QED
    BY <2>3, MadeHeap
<1>8. /\ DOMAIN h.id = {x \in Live(h) : h.kind[x] = "INPUT"}
      /\ \A x \in Live(h) : x \in Nat \ {0} /\ x < n
      /\ n \in Nat /\ DOMAIN h.strong \subseteq Live(h) /\ DOMAIN h.weak \subseteq Live(h)
      /\ DOMAIN h.strong \cap DOMAIN h.weak = {}
      /\ Twinned(h) = DOMAIN h.strong \cup DOMAIN h.weak
  BY HeapFacts DEF HeapOK, Twinned
<1>9. \A x \in M : n + x \in new /\ n + x \notin Live(h) /\ (n + x) - n = x
  BY <1>5, <1>7, <1>8
<1>10. /\ DOMAIN twin = A \cup DOMAIN h.strong
       /\ \A x \in DOMAIN h.strong : twin[x] = h.strong[x]
       /\ \A x \in A : twin[x] = IF h.kind[x] = "NOT" THEN h.in[x][1] ELSE n + x
       /\ twin = [x \in DOMAIN twin |-> twin[x]]
  <2>1. twin = [x \in A \cup DOMAIN h.strong |-> IF x \in A THEN own[x] ELSE h.strong[x]]
    BY DEF twin, Joined
  <2>2. A \cap DOMAIN h.strong = {}
    BY <1>1, <1>8
  <2>3. \A x \in A : own[x] = IF h.kind[x] = "NOT" THEN h.in[x][1] ELSE n + x
    BY DEF M
  <2> HIDE DEF own
  <2> QED
    BY <2>1, <2>2, <2>3
<1>11. /\ DOMAIN j.weak = DOMAIN h.weak \cup new
       /\ \A x \in DOMAIN h.weak : j.weak[x] = h.weak[x]
       /\ \A x \in M : j.weak[n + x] = x
       /\ j.weak = [x \in DOMAIN j.weak |-> j.weak[x]]
  <2>1. Shifted(h, self) = [x \in new |-> self[x - n]]
    BY <1>5 DEF Shifted
  <2>2. j.weak = [x \in DOMAIN h.weak \cup new |-> IF x \in DOMAIN h.weak THEN h.weak[x] ELSE self[x - n]]
    BY <1>6, <2>1 DEF Joined
  <2>3. \A x \in M : j.weak[n + x] = self[x]
    <3> SUFFICES ASSUME NEW x \in M PROVE j.weak[n + x] = self[x]
      OBVIOUS
    <3>1. n + x \in new /\ n + x \notin DOMAIN h.weak /\ (n + x) - n = x
      BY <1>8, <1>9
    <3> QED
      BY <2>2, <3>1
  <2> QED
    BY <2>2, <2>3 DEF self
<1>12. \A x \in A \cup Twinned(h) : Twin(j, x) = TwinOn(x)
  BY <1>6, <1>8, <1>10, <1>11 DEF Twin
<1>13. \A x \in A \cup Twinned(h) : x \in T => Twin(j, x) \in Live(j)
  <2> SUFFICES ASSUME NEW x \in A \cup Twinned(h), x \in T PROVE TwinOn(x) \in Live(j)
    BY <1>12
  <2>1. CASE x \in A /\ h.kind[x] = "NOT"
    <3>1. h.in[x][1] \in Live(h)
      BY <1>1, <2>1, HeapFacts
    <3> QED
      BY <1>7, <1>10, <2>1, <3>1
  <2>2. CASE x \in A /\ h.kind[x] # "NOT"
    <3>1. x \in M
      BY <2>2 DEF M
    <3> QED
      BY <1>7, <1>9, <1>10, <2>2, <3>1
  <2>3. CASE x \in Twinned(h) /\ x \notin A
    <3>1. TwinOn(x) = Twin(h, x)
      BY <1>8, <1>10, <2>3 DEF Twin
    <3> QED
      BY <1>7, <2>3, <3>1
  <2> QED
    BY <2>1, <2>2, <2>3
<1>14. \A x \in Live(h) : /\ h.kind[x] \in {"INPUT", "TRUE", "FALSE", "NOT", "AND", "OR"}
                          /\ DOMAIN h.in[x] = 1 .. Arity(h.kind[x])
                          /\ \A s \in DOMAIN h.in[x] : h.in[x][s] \in Children(h, x)
                          /\ Children(h, x) \subseteq Live(h)
  BY DEF HeapOK, Children, Range
<1>15. ASSUME NEW x \in M
       PROVE  /\ x \in Live(h) /\ x \in T /\ h.kind[x] # "NOT"
              /\ IF h.kind[x] = "INPUT" THEN j.kind[n + x] = "NOT" /\ j.in[n + x] = <<x>>
                 ELSE /\ j.kind[n + x] = Negation(h.kind[x])
                      /\ DOMAIN j.in[n + x] = DOMAIN h.in[x]
                      /\ \A s \in DOMAIN h.in[x] : j.in[n + x][s] = Twin(j, h.in[x][s])
  <2>1. x \in A /\ h.kind[x] # "NOT"
    BY DEF M
  <2>2. x \in Live(h) /\ x \in T
    BY <1>1, <2>1
  <2>3. CASE h.kind[x] = "INPUT"
    BY <1>7, <2>1, <2>2, <2>3 DEF kinds, ins
  <2>4. CASE h.kind[x] # "INPUT"
    <3>1. ins[x] = [s \in DOMAIN h.in[x] |-> TwinOn(h.in[x][s])]
      BY <2>4 DEF ins
    <3>2. \A s \in DOMAIN h.in[x] : h.in[x][s] \in A \cup Twinned(h)
      BY <1>1, <1>14, <2>2
    <3>3. \A s \in DOMAIN h.in[x] : ins[x][s] = Twin(j, h.in[x][s])
      <4> HIDE DEF TwinOn
      <4> QED
        BY <1>12, <3>1, <3>2
    <3>4. kinds[x] = Negation(h.kind[x])
      BY <2>4 DEF kinds
    <3>5. DOMAIN ins[x] = DOMAIN h.in[x]
      BY <3>1
    <3> QED
      BY <1>7, <2>1, <2>2, <2>4, <3>3, <3>4, <3>5
  <2> QED
    BY <2>3, <2>4
<1>16. ASSUME NEW x \in Live(j)
       PROVE  /\ j.kind[x] \in {"INPUT", "TRUE", "FALSE", "NOT", "AND", "OR"}
              /\ DOMAIN j.in[x] = 1 .. Arity(j.kind[x]) /\ Children(j, x) \subseteq Live(j)
              /\ x \in DOMAIN j.id <=> j.kind[x] = "INPUT"
  <2>1. CASE x \in Live(h)
    BY <1>6, <1>7, <1>8, <1>14, <2>1 DEF Children, Range
  <2>2. CASE x \in new
    <3>1. PICK y \in M : x = n + y
      BY <2>2
    <3>2. x \notin DOMAIN j.id
      BY <1>6, <1>8, <1>9, <3>1
    <3>3. CASE h.kind[y] = "INPUT"
      <4>1. j.kind[x] = "NOT" /\ j.in[x] = <<y>>
        BY <1>15, <3>1, <3>3
      <4>2. Arity("NOT") = 1 /\ 1 .. 1 = {1}
        BY DEF Arity
      <4>3. DOMAIN j.in[x] = {1} /\ j.in[x][1] = y /\ y \in Live(j)
        <5>1. DOMAIN <<y>> = {1} /\ <<y>>[1] = y
          OBVIOUS
        <5>2. y \in Live(j)
          BY <1>7, <1>15
        <5> QED
          BY <4>1, <5>1, <5>2
      <4> QED
        BY <3>2, <4>1, <4>2, <4>3 DEF Children, Range
    <3>4. CASE h.kind[y] # "INPUT"
      <4>1. /\ j.kind[x] = Negation(h.kind[y]) /\ DOMAIN j.in[x] = DOMAIN h.in[y]
            /\ \A s \in DOMAIN h.in[y] : j.in[x][s] = Twin(j, h.in[y][s])
        BY <1>15, <3>1, <3>4
      <4>2. h.kind[y] \in {"TRUE", "FALSE", "AND", "OR"}
        BY <1>14, <1>15, <3>4
      <4>3. Negation(h.kind[y]) \in {"TRUE", "FALSE", "AND", "OR"}
            /\ Arity(Negation(h.kind[y])) = Arity(h.kind[y])
        BY <4>2 DEF Negation, Dual, Arity
      <4>4. \A s \in DOMAIN h.in[y] : j.in[x][s] \in Live(j)
        <5>1. \A s \in DOMAIN h.in[y] : h.in[y][s] \in A \cup Twinned(h) /\ h.in[y][s] \in T
          BY <1>1, <1>14, <1>15 DEF Downward
        <5> QED
          BY <1>13, <4>1, <5>1
      <4> QED
        BY <1>14, <1>15, <3>2, <4>1, <4>3, <4>4 DEF Children, Range
    <3> QED
      BY <3>3, <3>4
  <2> QED
    BY <1>7, <2>1, <2>2
<1>17. HeapOK(j)
  <2>1. j.id = [x \in DOMAIN j.id |-> j.id[x]] /\ DOMAIN j.id \subseteq Live(j)
    <3>1. h.id = [x \in DOMAIN h.id |-> h.id[x]]
      BY DEF HeapOK
    <3> QED
      BY <1>6, <1>7, <1>8, <3>1
  <2>2. /\ j.strong = [x \in DOMAIN j.strong |-> j.strong[x]]
        /\ j.weak = [x \in DOMAIN j.weak |-> j.weak[x]]
        /\ DOMAIN j.strong = A \cup DOMAIN h.strong
    BY <1>6, <1>10, <1>11
  <2>3. Twinned(j) \subseteq Live(j)
    BY <1>1, <1>7, <1>8, <1>11, <2>2 DEF Twinned
  <2>4. DOMAIN j.strong \cap DOMAIN j.weak = {}
    <3>1. A \cap DOMAIN h.weak = {} /\ A \subseteq Live(h)
      BY <1>1, <1>8
    <3> QED
      BY <1>7, <1>8, <1>11, <2>2, <3>1
  <2>5. j.marked \subseteq Live(j)
    BY <1>6, <1>7 DEF HeapOK
  <2> QED
    BY <1>6, <1>7, <1>16, <2>1, <2>2, <2>3, <2>4, <2>5 DEF HeapOK
<1>18. /\ M = {x \in A : h.kind[x] # "NOT"}
       /\ \A x \in Live(h) : h.kind[x] = "INPUT" => j.id[x] = h.id[x]
  BY <1>6 DEF M
<1>19. NegatedHeap(h, j, A)
  <2> HIDE DEF TwinOn
  <2>1. /\ DOMAIN j.strong = A \cup DOMAIN h.strong
        /\ \A x \in DOMAIN h.strong : j.strong[x] = h.strong[x]
        /\ \A x \in A : j.strong[x] = IF h.kind[x] = "NOT" THEN h.in[x][1] ELSE n + x
    BY <1>6, <1>10
  <2> QED
    BY <1>6, <1>7, <1>9, <1>11, <1>15, <1>17, <1>18, <2>1 DEF NegatedHeap
<1> QED
  BY <1>19 DEF A, j

\* v knows of gate y what w knows of gate x.
Alike(w, x, v, y) ==
  v[y].rank = w[x].rank /\ v[y].inputs = w[x].inputs /\ v[y].value = w[x].value

\* What fits a gate depends on it and its inputs only.
LEMMA SameFits ==
  ASSUME NEW h, HeapOK(h), NEW w, NEW x \in Live(h), Fits(h, w, x), NEW j, NEW v,
         j.kind[x] = h.kind[x], j.in[x] = h.in[x], h.kind[x] = "INPUT" => j.id[x] = h.id[x],
         Alike(w, x, v, x), \A c \in Children(h, x) : Alike(w, c, v, c)
  PROVE  Fits(j, v, x)
<1>1. h.kind[x] \in {"INPUT", "TRUE", "FALSE", "NOT", "AND", "OR"}
  BY DEF HeapOK
<1>2. CASE h.kind[x] \in {"INPUT", "TRUE", "FALSE"}
  BY <1>2 DEF Fits, Alike
<1>3. CASE h.kind[x] = "NOT"
  <2>1. Alike(w, h.in[x][1], v, h.in[x][1])
    BY <1>3, HeapFacts
  <2> QED
    BY <1>3, <2>1 DEF Fits, Alike
<1>4. CASE h.kind[x] \in {"AND", "OR"}
  <2>1. Alike(w, h.in[x][1], v, h.in[x][1]) /\ Alike(w, h.in[x][2], v, h.in[x][2])
    BY <1>4, HeapFacts
  <2> QED
    BY <1>4, <2>1 DEF Fits, Alike
<1> QED
  BY <1>1, <1>2, <1>3, <1>4

\* The inputs of a gate are part of the same circuit.
LEMMA PartsAreDownward ==
  ASSUME NEW h, HeapOK(h), NEW w, Fitting(h, w), NEW P
  PROVE  Downward(h, {x \in Live(h) : w[x].part \in P})
BY HeapFacts DEF Downward, Fitting

\* j is h with negated twins of gates of circuit p; v knows what w knew.
Negated(h, j, w, v, p, pins) ==
  /\ HeapOK(j) /\ Fitting(j, v) /\ TwinsOK(j, v, p, pins) /\ Live(h) \subseteq Live(j)
  /\ \A x \in Live(h) : /\ j.kind[x] = h.kind[x] /\ j.in[x] = h.in[x] /\ v[x] = w[x]
                        /\ h.kind[x] = "INPUT" => j.id[x] = h.id[x]
  /\ \A x \in Live(j) \ Live(h) : v[x].part = p /\ j.kind[x] # "INPUT"
  /\ j.marked = h.marked
  /\ \A x \in DOMAIN h.strong : x \in DOMAIN j.strong /\ j.strong[x] = h.strong[x]

\* The negation of a gate, from the twins of its inputs, is one: De Morgan.
LEMMA NegationFits ==
  ASSUME NEW h, HeapOK(h), NEW w, Fitting(h, w), NEW x \in Live(h), h.kind[x] # "NOT",
         NEW j, NEW v, NEW y, NEW p, \A c \in Live(h) : v[c] = w[c],
         IF h.kind[x] = "INPUT" THEN j.kind[y] = "NOT" /\ j.in[y] = <<x>>
         ELSE /\ j.kind[y] = Negation(h.kind[x])
              /\ \A s \in DOMAIN h.in[x] : TwinOf(j, v, h.in[x][s], j.in[y][s], p),
         \A c \in Live(h) : j.kind[c] = h.kind[c],
         v[y].rank = IF h.kind[x] = "INPUT" THEN 1 ELSE w[x].rank,
         v[y].inputs = w[x].inputs, v[y].value = Valuation \ w[x].value
  PROVE  Fits(j, v, y)
<1>1. /\ h.kind[x] \in {"INPUT", "TRUE", "FALSE", "NOT", "AND", "OR"} /\ Fits(h, w, x)
      /\ \A c \in Live(h) : w[c].rank \in Nat /\ w[c].value \subseteq Valuation
  BY DEF HeapOK, Fitting
<1>2. CASE h.kind[x] = "INPUT"
  <2>1. w[x].rank = 0 /\ v[x] = w[x] /\ <<x>>[1] = x
    BY <1>1, <1>2 DEF Fits
  <2> QED
    BY <1>2, <2>1 DEF Fits
<1>3. CASE h.kind[x] \in {"TRUE", "FALSE"}
  BY <1>1, <1>3 DEF Fits, Negation
<1>4. CASE h.kind[x] \in {"AND", "OR"}
  <2> DEFINE a == h.in[x][1]
             b == h.in[x][2]
             c == j.in[y][1]
             d == j.in[y][2]
  <2>1. /\ a \in Live(h) /\ b \in Live(h) /\ 1 \in DOMAIN h.in[x] /\ 2 \in DOMAIN h.in[x]
        /\ v[a] = w[a] /\ v[b] = w[b] /\ j.kind[a] = h.kind[a] /\ j.kind[b] = h.kind[b]
    BY <1>4, HeapFacts
  <2>2. TwinOf(j, v, a, c, p) /\ TwinOf(j, v, b, d, p)
    BY <1>4, <2>1
  <2>3. /\ w[x].rank > 2 /\ w[x].rank > w[a].rank + 1 /\ w[x].rank > w[b].rank + 1
        /\ w[x].inputs = w[a].inputs \cup w[b].inputs
        /\ w[x].value = IF h.kind[x] = "AND" THEN w[a].value \cap w[b].value
                        ELSE w[a].value \cup w[b].value
    BY <1>1, <1>4 DEF Fits
  <2>4. v[y].rank > 2 /\ v[y].rank > v[c].rank + 1 /\ v[y].rank > v[d].rank + 1
    <3> HIDE DEF a, b, c, d
    <3> QED
      BY <1>1, <1>4, <2>1, <2>2, <2>3 DEF TwinOf
  <2>5. v[y].inputs = v[c].inputs \cup v[d].inputs
    BY <2>1, <2>2, <2>3 DEF TwinOf
  <2>6. j.kind[y] = (IF h.kind[x] = "AND" THEN "OR" ELSE "AND")
    BY <1>4 DEF Negation, Dual
  <2>7. v[y].value = IF j.kind[y] = "AND" THEN v[c].value \cap v[d].value
                     ELSE v[c].value \cup v[d].value
    <3>1. v[c].value = Valuation \ w[a].value /\ v[d].value = Valuation \ w[b].value
      BY <2>1, <2>2 DEF TwinOf
    <3> HIDE DEF a, b, c, d
    <3> QED
      BY <1>4, <2>3, <2>6, <3>1
  <2> QED
    BY <1>4, <2>4, <2>5, <2>6, <2>7 DEF Fits
<1> QED
  BY <1>1, <1>2, <1>3, <1>4

\* getNegatedTwin of a gate of circuit p keeps what is known of the heap.
LEMMA NegationStep ==
  ASSUME NEW h, HeapOK(h), NEW w, Fitting(h, w), NEW p \in Nat \ {0},
         NEW pins, TwinsOK(h, w, p, pins),
         NEW g \in Live(h), w[g].part = p
  PROVE  /\ \E v : Negated(h, WithNegation(h, g), w, v, p, pins)
         /\ g \in Twinned(WithNegation(h, g))
<1> DEFINE A == ToNegate(h, g)
           M == {x \in A : h.kind[x] # "NOT"}
           n == h.next
           j == WithNegation(h, g)
           T == {x \in Live(h) : w[x].part = p}
           new == {n + x : x \in M}
           Known(x) == [rank |-> IF h.kind[x] = "INPUT" THEN 1 ELSE w[x].rank, part |-> p,
                        inputs |-> w[x].inputs, value |-> Valuation \ w[x].value]
           v == [x \in Live(h) \cup new |-> IF x \in Live(h) THEN w[x] ELSE Known(x - n)]
<1>1. Downward(h, T) /\ g \in T
  BY HeapFacts DEF Downward, Fitting
<1>2. \A x \in T \cap Twinned(h) : TwinOf(h, w, x, Twin(h, x), p)
  BY TwinIsNegation
<1>3. NegatedHeap(h, j, A)
  <2>1. \A x \in T \cap Twinned(h) : Twin(h, x) \in Live(h)
    BY <1>2 DEF TwinOf
  <2> HIDE DEF T
  <2> QED
    BY <1>1, <2>1, NegationFacts
<1>4. /\ A \subseteq Live(h) \ Twinned(h) /\ A \subseteq T /\ g \in A \cup Twinned(h)
      /\ \A x \in M : Children(h, x) \subseteq A \cup Twinned(h)
  <2> HIDE DEF T
  <2> QED
    BY <1>1, AskedFacts
<1> HIDE DEF j, A
<1>5. /\ HeapOK(j) /\ Live(j) = Live(h) \cup new
      /\ \A x \in M : n + x \notin Live(h)
      /\ \A x \in Live(h) : /\ j.kind[x] = h.kind[x] /\ j.in[x] = h.in[x]
                            /\ h.kind[x] = "INPUT" => j.id[x] = h.id[x]
      /\ \A x \in M :
           IF h.kind[x] = "INPUT" THEN j.kind[n + x] = "NOT" /\ j.in[n + x] = <<x>>
           ELSE /\ j.kind[n + x] = Negation(h.kind[x])
                /\ DOMAIN j.in[n + x] = DOMAIN h.in[x]
                /\ \A s \in DOMAIN h.in[x] : j.in[n + x][s] = Twin(j, h.in[x][s])
      /\ j.marked = h.marked
      /\ DOMAIN j.strong = A \cup DOMAIN h.strong
      /\ \A x \in DOMAIN h.strong : j.strong[x] = h.strong[x]
      /\ \A x \in A : j.strong[x] = IF h.kind[x] = "NOT" THEN h.in[x][1] ELSE n + x
      /\ DOMAIN j.weak = DOMAIN h.weak \cup new
      /\ \A x \in DOMAIN h.weak : j.weak[x] = h.weak[x]
      /\ \A x \in M : j.weak[n + x] = x
  BY <1>3 DEF NegatedHeap
<1>6. /\ \A x \in Live(h) : x \in Nat \ {0} /\ x < n
      /\ DOMAIN h.strong \subseteq Live(h) /\ DOMAIN h.weak \subseteq Live(h)
      /\ DOMAIN h.strong \cap DOMAIN h.weak = {} /\ n \in Nat
      /\ Twinned(h) = DOMAIN h.strong \cup DOMAIN h.weak
  BY HeapFacts DEF HeapOK, Twinned
<1>7. \A x \in M : x \in A /\ x \in Live(h) /\ h.kind[x] # "NOT" /\ w[x].part = p /\ n + x \in new
  BY <1>4
<1>8. /\ \A x \in Live(h) : v[x] = w[x]
      /\ \A x \in M : v[n + x] = Known(x)
      /\ DOMAIN v = Live(h) \cup new
  <2>1. \A x \in M : (n + x) - n = x
    BY <1>6, <1>7
  <2> HIDE DEF Known, M
  <2> QED
    BY <1>5, <1>7, <2>1
<1> HIDE DEF v, M, new
<1>81. \A x \in M : /\ v[n + x].rank = (IF h.kind[x] = "INPUT" THEN 1 ELSE w[x].rank)
                    /\ v[n + x].part = p /\ v[n + x].inputs = w[x].inputs
                    /\ v[n + x].value = Valuation \ w[x].value
  <2> SUFFICES ASSUME NEW x \in M
               PROVE  /\ Known(x).rank = (IF h.kind[x] = "INPUT" THEN 1 ELSE w[x].rank)
                      /\ Known(x).part = p /\ Known(x).inputs = w[x].inputs
                      /\ Known(x).value = Valuation \ w[x].value
    <3> HIDE DEF Known
    <3> QED
      BY <1>8
  <2> QED
    OBVIOUS
<1>9. \A x \in Live(h) : /\ w[x].rank \in Nat /\ w[x].part \in Nat /\ w[x].value \in SUBSET Valuation
                         /\ \A c \in Children(h, x) : c \in Live(h) /\ w[c].part = w[x].part
                         /\ Fits(h, w, x)
                         /\ h.kind[x] \in {"INPUT", "TRUE", "FALSE", "NOT", "AND", "OR"}
  BY DEF Fitting, HeapOK
<1>10. ASSUME NEW c \in (A \cup Twinned(h)) \cap T
       PROVE  TwinOf(j, v, c, Twin(j, c), p)
  <2>0. c \in Live(h) /\ w[c].part = p
    OBVIOUS
  <2>1. CASE c \in A /\ h.kind[c] = "NOT"
    <3> DEFINE t == h.in[c][1]
    <3>1. Twin(j, c) = t
      BY <1>5, <2>1 DEF Twin
    <3>2. t \in Live(h) /\ t \in Children(h, c)
      BY <2>0, <2>1, HeapFacts
    <3>3. w[c].rank > w[t].rank /\ w[c].inputs = w[t].inputs /\ w[c].value = Valuation \ w[t].value
      BY <1>9, <2>0, <2>1 DEF Fits
    <3>4. w[t].part = p /\ w[t].rank \in Nat /\ w[t].value \subseteq Valuation /\ w[c].rank \in Nat
      BY <1>9, <2>0, <3>2
    <3>5. w[t].value = Valuation \ w[c].value
      BY <3>3, <3>4
    <3>6. v[t] = w[t] /\ v[c] = w[c] /\ t \in Live(j) /\ j.kind[c] = "NOT"
      BY <1>5, <1>8, <2>0, <2>1, <3>2
    <3> HIDE DEF t
    <3>7. v[t].rank <= w[c].rank
      BY <3>3, <3>4, <3>6
    <3> QED
      BY <2>1, <3>1, <3>3, <3>4, <3>5, <3>6, <3>7 DEF TwinOf
  <2>2. CASE c \in A /\ h.kind[c] # "NOT"
    <3>1. c \in M
      BY <2>2 DEF M
    <3>2. Twin(j, c) = n + c
      BY <1>5, <2>2 DEF Twin
    <3>3. n + c \in Live(j) /\ v[c] = w[c] /\ j.kind[c] = h.kind[c]
      BY <1>5, <1>7, <1>8, <2>0, <3>1
    <3>4. v[n + c].rank \in Nat /\ v[n + c].rank <= IF h.kind[c] = "INPUT" THEN 1 ELSE w[c].rank
      BY <1>81, <1>9, <2>0, <3>1
    <3> QED
      BY <1>81, <3>1, <3>2, <3>3, <3>4 DEF TwinOf
  <2>3. CASE c \in Twinned(h)
    <3> DEFINE t == Twin(h, c)
    <3>1. Twin(j, c) = t
      <4>1. c \notin A
        BY <1>4, <2>3
      <4>2. CASE c \in DOMAIN h.strong
        BY <1>5, <4>2 DEF Twin
      <4>3. CASE c \notin DOMAIN h.strong
        BY <1>5, <1>6, <2>3, <4>1, <4>3 DEF Twin
      <4> QED
        BY <4>2, <4>3
    <3>2. TwinOf(h, w, c, t, p)
      BY <1>2, <2>3
    <3> HIDE DEF t
    <3>3. t \in Live(h) /\ v[t] = w[t] /\ v[c] = w[c] /\ j.kind[c] = h.kind[c] /\ t \in Live(j)
      BY <1>5, <1>8, <2>0, <3>2 DEF TwinOf
    <3> QED
      BY <3>1, <3>2, <3>3 DEF TwinOf
  <2> QED
    BY <2>1, <2>2, <2>3
<1>11. ASSUME NEW x \in Live(h)
       PROVE  Fits(j, v, x) /\ \A c \in Children(j, x) : v[c].part = v[x].part
  <2>1. Children(j, x) = Children(h, x) /\ \A c \in Children(h, x) : v[c] = w[c]
    BY <1>5, <1>8, <1>9 DEF Children
  <2>2. Fits(h, w, x) /\ v[x] = w[x]
    BY <1>8, <1>9
  <2>3. Fits(j, v, x)
    BY <1>5, <2>1, <2>2, SameFits DEF Alike
  <2> QED
    BY <1>9, <2>1, <2>2, <2>3
<1>12. ASSUME NEW x \in M
       PROVE  Fits(j, v, n + x) /\ \A c \in Children(j, n + x) : v[c].part = p
  <2>1. h.kind[x] # "INPUT" => \A s \in DOMAIN h.in[x] : TwinOf(j, v, h.in[x][s], j.in[n + x][s], p)
    <3> SUFFICES ASSUME h.kind[x] # "INPUT", NEW s \in DOMAIN h.in[x]
                 PROVE  TwinOf(j, v, h.in[x][s], j.in[n + x][s], p)
      OBVIOUS
    <3>1. h.in[x][s] \in Children(h, x)
      BY DEF Children, Range
    <3>2. h.in[x][s] \in (A \cup Twinned(h)) \cap T
      BY <1>4, <1>7, <1>9, <3>1
    <3> HIDE DEF T
    <3> QED
      BY <1>5, <1>10, <3>2
  <2>4. Fits(j, v, n + x)
    <3>1. IF h.kind[x] = "INPUT" THEN j.kind[n + x] = "NOT" /\ j.in[n + x] = <<x>>
          ELSE /\ j.kind[n + x] = Negation(h.kind[x])
               /\ \A s \in DOMAIN h.in[x] : TwinOf(j, v, h.in[x][s], j.in[n + x][s], p)
      BY <1>5, <2>1
    <3> DEFINE y == n + x
    <3>2. /\ v[y].rank = (IF h.kind[x] = "INPUT" THEN 1 ELSE w[x].rank)
          /\ v[y].inputs = w[x].inputs /\ v[y].value = Valuation \ w[x].value
      BY <1>81
    <3>3. /\ x \in Live(h) /\ h.kind[x] # "NOT"
          /\ \A c \in Live(h) : v[c] = w[c] /\ j.kind[c] = h.kind[c]
      BY <1>5, <1>7, <1>8
    <3> HIDE DEF y
    <3>4. Fits(j, v, y)
      BY <3>1, <3>2, <3>3, NegationFits DEF y
    <3> QED
      BY <3>4 DEF y
  <2>5. \A c \in Children(j, n + x) : v[c].part = p
    <3>1. CASE h.kind[x] = "INPUT"
      <4>1. j.in[n + x] = <<x>> /\ v[x].part = p
        BY <1>5, <1>7, <1>8, <3>1
      <4> QED
        BY <4>1 DEF Children, Range
    <3>2. CASE h.kind[x] # "INPUT"
      <4>1. DOMAIN j.in[n + x] = DOMAIN h.in[x]
        BY <1>5, <3>2
      <4> QED
        BY <2>1, <3>2, <4>1 DEF Children, Range, TwinOf
    <3> QED
      BY <3>1, <3>2
  <2> QED
    BY <2>4, <2>5
<1>13. Fitting(j, v)
  <2>1. ASSUME NEW x \in M
        PROVE  /\ v[n + x].rank \in Nat /\ v[n + x].part = p /\ v[n + x].value \in SUBSET Valuation
    BY <1>7, <1>81, <1>9
  <2>2. \A y \in new : \E x \in M : y = n + x
    BY DEF new
  <2>3. DOMAIN v = Live(j)
    BY <1>5, <1>8
  <2>4. \A x \in Live(j) : x \in Live(h) \/ x \in new
    BY <1>5
  <2>5. ASSUME NEW x \in Live(j)
        PROVE  /\ v[x].rank \in Nat /\ v[x].part \in Nat /\ v[x].value \in SUBSET Valuation
               /\ \A c \in Children(j, x) : v[c].part = v[x].part
               /\ Fits(j, v, x)
    <3>1. CASE x \in Live(h)
      BY <1>8, <1>9, <1>11, <3>1
    <3>2. CASE x \in new
      <4>1. PICK y \in M : x = n + y
        BY <2>2, <3>2
      <4> QED
        BY <1>12, <2>1, <4>1
    <3> QED
      BY <2>4, <3>1, <3>2
  <2> QED
    BY <2>3, <2>5 DEF Fitting
<1>14. /\ Copies(j, v) = Copies(h, w)
       /\ \A x \in M : n + x \notin Copies(h, w) /\ n + x \notin Live(h)
       /\ \A x \in A : x \in Copies(h, w)
  <2>1. {x \in DOMAIN j.strong : v[x].part = 0} = {x \in DOMAIN h.strong : w[x].part = 0}
    <3>1. \A x \in A : v[x].part # 0
      BY <1>4, <1>8
    <3>2. \A x \in DOMAIN h.strong : v[x] = w[x]
      BY <1>6, <1>8
    <3> QED
      BY <1>5, <3>1, <3>2
  <2>2. Copies(j, v) = Copies(h, w)
    BY <1>5, <2>1 DEF Copies
  <2>3. Copies(h, w) \subseteq Live(h)
    BY DEF Copies, TwinsOK, OriginalOK
  <2>4. \A x \in A : x \in Live(h) /\ w[x].part = p /\ x \notin DOMAIN h.weak
    BY <1>4, <1>6
  <2> QED
    BY <1>5, <2>2, <2>3, <2>4 DEF TwinsOK, WeakOK
<1>15. /\ \A x \in Live(j) : x \in Live(h) \/ \E y \in M : x = n + y
       /\ Live(h) \subseteq Live(j) /\ \A y \in M : n + y \in Live(j)
  BY <1>5 DEF new
<1>16. OriginalOK(j, v, p)
  <2>0. OriginalOK(h, w, p)
    BY DEF TwinsOK
  <2>2. ASSUME NEW x \in Live(j), v[x].part = 0
        PROVE  x \in DOMAIN j.strong /\ v[j.strong[x]].part = p
    <3>1. x \in Live(h)
      BY <1>15, <1>81, <2>2
    <3>2. x \in DOMAIN h.strong /\ w[h.strong[x]].part = p /\ h.strong[x] \in Live(h)
      BY <1>8, <2>0, <2>2, <3>1 DEF OriginalOK
    <3> QED
      BY <1>5, <1>8, <3>2
  <2>3. \A x \in Flagged(j) : v[x].part \in {0, p}
    <3>1. \A x \in Flagged(j) : x \in Flagged(h) \/ x \in A \/ x \in new
      BY <1>5 DEF Flagged, Twinned
    <3>2. \A x \in Flagged(h) : w[x].part \in {0, p} /\ x \in Live(h)
      BY <2>0 DEF OriginalOK, HeapOK, Flagged
    <3>3. \A x \in A : x \in Live(h) /\ w[x].part = p
      BY <1>4
    <3>4. \A x \in new : v[x].part = p
      BY <1>81 DEF new
    <3> QED
      BY <1>8, <3>1, <3>2, <3>3, <3>4
  <2>4. \A x \in j.marked \cup DOMAIN j.weak : v[x].part = p
    <3>1. \A x \in h.marked \cup DOMAIN h.weak : w[x].part = p /\ x \in Live(h)
      BY <1>6, <2>0 DEF OriginalOK, HeapOK
    <3>2. \A x \in new : v[x].part = p
      BY <1>81 DEF new
    <3> QED
      BY <1>5, <1>8, <3>1, <3>2
  <2>5. \A x \in DOMAIN j.strong : j.strong[x] \in Live(j)
    <3>1. \A x \in DOMAIN h.strong : h.strong[x] \in Live(h)
      BY <2>0 DEF OriginalOK
    <3>2. ASSUME NEW x \in A PROVE j.strong[x] \in Live(j)
      <4>1. CASE h.kind[x] = "NOT"
        BY <1>4, <1>5, <1>15, <4>1, HeapFacts
      <4>2. CASE h.kind[x] # "NOT"
        BY <1>5, <1>15, <4>2 DEF M
      <4> QED
        BY <4>1, <4>2
    <3> QED
      BY <1>5, <1>15, <3>1, <3>2
  <2> QED
    BY <2>2, <2>3, <2>4, <2>5 DEF OriginalOK
<1>17. HeldOK(j, v, p, pins)
  <2> SUFFICES ASSUME NEW x \in Live(j), v[x].part # p
               PROVE  x \in pins \/ \E y \in Live(j) : x \in Children(j, y)
    BY DEF HeldOK
  <2>1. x \in Live(h) /\ w[x].part # p
    BY <1>8, <1>15, <1>81
  <2>2. x \in pins \/ \E y \in Live(h) : x \in Children(h, y)
    BY <2>1 DEF TwinsOK, HeldOK
  <2> QED
    BY <1>5, <1>15, <2>2 DEF Children
<1>18. StrongOK(j, v, p)
  <2> SUFFICES ASSUME NEW x \in DOMAIN j.strong, v[x].part = p
               PROVE  LET t == j.strong[x] IN
                      /\ x \in Copies(j, v) /\ NegationOf(j, v, x, t)
                      /\ IF j.kind[x] = "NOT" THEN t = j.in[x][1]
                         ELSE /\ t \in DOMAIN j.weak /\ j.weak[t] = x
                              /\ IF j.kind[x] = "INPUT"
                                 THEN j.kind[t] = "NOT" /\ j.in[t] = <<x>> /\ v[t].rank = 1
                                 ELSE j.kind[t] = Negation(j.kind[x]) /\ v[t].rank = v[x].rank
    BY DEF StrongOK
  <2> DEFINE t == j.strong[x]
  <2>1. x \in Live(h) /\ w[x].part = p /\ v[x] = w[x] /\ j.kind[x] = h.kind[x] /\ j.in[x] = h.in[x]
    <3>1. x \in Live(h)
      BY <1>4, <1>5, <1>6
    <3> QED
      BY <1>5, <1>8, <3>1
  <2>2. CASE x \in DOMAIN h.strong
    <3>1. /\ t = h.strong[x] /\ x \in Copies(h, w) /\ NegationOf(h, w, x, t)
          /\ IF h.kind[x] = "NOT" THEN t = h.in[x][1]
             ELSE /\ t \in DOMAIN h.weak /\ h.weak[t] = x
                  /\ IF h.kind[x] = "INPUT"
                     THEN h.kind[t] = "NOT" /\ h.in[t] = <<x>> /\ w[t].rank = 1
                     ELSE h.kind[t] = Negation(h.kind[x]) /\ w[t].rank = w[x].rank
      <4>1. t = h.strong[x]
        BY <1>5, <2>2
      <4>2. StrongOK(h, w, p)
        BY DEF TwinsOK
      <4> HIDE DEF t
      <4> QED
        BY <2>1, <2>2, <4>1, <4>2 DEF StrongOK
    <3> HIDE DEF t
    <3>2. t \in Live(h) /\ v[t] = w[t] /\ t \in Live(j) /\ j.kind[t] = h.kind[t] /\ j.in[t] = h.in[t]
      BY <1>5, <1>8, <1>15, <3>1 DEF NegationOf
    <3>3. NegationOf(j, v, x, t)
      BY <2>1, <3>1, <3>2 DEF NegationOf
    <3>4. t \in DOMAIN h.weak => t \in DOMAIN j.weak /\ j.weak[t] = h.weak[t]
      BY <1>5
    <3> QED
      BY <1>14, <2>1, <3>1, <3>2, <3>3, <3>4 DEF t
  <2>3. CASE x \in A
    <3>1. x \in Copies(j, v)
      BY <1>14, <2>3
    <3>2. x \in (A \cup Twinned(h)) \cap T /\ Twin(j, x) = t
      BY <1>5, <2>1, <2>3 DEF Twin
    <3>3. TwinOf(j, v, x, t, p)
      <4> HIDE DEF t, T
      <4> QED
        BY <1>10, <3>2
    <3>4. NegationOf(j, v, x, t)
      BY <3>3 DEF TwinOf, NegationOf
    <3>5. CASE h.kind[x] = "NOT"
      BY <1>5, <2>1, <2>3, <3>1, <3>4, <3>5
    <3>6. CASE h.kind[x] # "NOT"
      <4>1. x \in M /\ t = n + x
        BY <1>5, <2>3, <3>6 DEF M
      <4>2. t \in DOMAIN j.weak /\ j.weak[t] = x
        BY <1>5, <1>7, <4>1
      <4>3. IF j.kind[x] = "INPUT"
            THEN j.kind[t] = "NOT" /\ j.in[t] = <<x>> /\ v[t].rank = 1
            ELSE j.kind[t] = Negation(j.kind[x]) /\ v[t].rank = v[x].rank
        <5> HIDE DEF t
        <5> QED
          BY <1>5, <1>81, <2>1, <4>1
      <4> QED
        BY <2>1, <3>1, <3>4, <3>6, <4>2, <4>3
    <3> QED
      BY <3>5, <3>6
  <2> QED
    BY <1>5, <2>2, <2>3
<1>19. WeakOK(j, v, p)
  <2> SUFFICES ASSUME NEW x \in Live(j), v[x].part = p
               PROVE  /\ x \in Copies(j, v) <=> x \notin DOMAIN j.weak
                      /\ x \in DOMAIN j.weak =>
                           /\ j.weak[x] \in DOMAIN j.strong /\ j.strong[j.weak[x]] = x
                           /\ v[j.weak[x]].part = p /\ j.kind[j.weak[x]] # "NOT"
    BY DEF WeakOK
  <2>1. CASE x \in Live(h)
    <3>0. x \notin new
      BY <1>14, <2>1 DEF new
    <3>1. w[x].part = p /\ (x \in DOMAIN j.weak <=> x \in DOMAIN h.weak)
      BY <1>5, <1>8, <2>1, <3>0
    <3>2. /\ x \in Copies(h, w) <=> x \notin DOMAIN h.weak
          /\ x \in DOMAIN h.weak =>
               /\ h.weak[x] \in DOMAIN h.strong /\ h.strong[h.weak[x]] = x
               /\ w[h.weak[x]].part = p /\ h.kind[h.weak[x]] # "NOT"
      BY <2>1, <3>1 DEF TwinsOK, WeakOK
    <3>3. ASSUME x \in DOMAIN h.weak
          PROVE  /\ j.weak[x] \in DOMAIN j.strong /\ j.strong[j.weak[x]] = x
                 /\ v[j.weak[x]].part = p /\ j.kind[j.weak[x]] # "NOT"
      <4> DEFINE b == h.weak[x]
      <4>1. j.weak[x] = b
        BY <1>5, <3>3
      <4>2. b \in DOMAIN h.strong /\ h.strong[b] = x /\ w[b].part = p /\ h.kind[b] # "NOT"
        BY <3>2, <3>3
      <4> HIDE DEF b
      <4>3. b \in Live(h)
        BY <1>6, <4>2
      <4> QED
        BY <1>5, <1>8, <4>1, <4>2, <4>3
    <3> QED
      BY <1>14, <3>1, <3>2, <3>3
  <2>2. CASE x \notin Live(h)
    <3>1. PICK y \in M : x = n + y
      BY <1>15, <2>2
    <3>2. x \in DOMAIN j.weak /\ j.weak[x] = y
      BY <1>5, <1>7, <3>1
    <3>3. y \in DOMAIN j.strong /\ j.strong[y] = x /\ v[y].part = p /\ j.kind[y] # "NOT"
      BY <1>5, <1>7, <1>8, <3>1
    <3> QED
      BY <1>14, <3>1, <3>2, <3>3
  <2> QED
    BY <2>1, <2>2
<1>20. Negated(h, j, w, v, p, pins)
  <2>1. \A x \in M : j.kind[n + x] # "INPUT"
    <3> SUFFICES ASSUME NEW x \in M PROVE j.kind[n + x] # "INPUT"
      OBVIOUS
    <3>1. h.kind[x] \in {"INPUT", "TRUE", "FALSE", "AND", "OR"}
      BY <1>7, <1>9
    <3>2. h.kind[x] # "INPUT" => Negation(h.kind[x]) # "INPUT"
      BY <3>1 DEF Negation, Dual
    <3> QED
      BY <1>5, <3>2
  <2>2. \A x \in Live(j) \ Live(h) : v[x].part = p /\ j.kind[x] # "INPUT"
    BY <1>15, <1>81, <2>1
  <2>3. TwinsOK(j, v, p, pins)
    BY <1>16, <1>17, <1>18, <1>19 DEF TwinsOK
  <2> QED
    BY <1>5, <1>8, <1>13, <1>15, <2>2, <2>3 DEF Negated
<1>21. g \in Twinned(j)
  BY <1>4, <1>5, <1>6 DEF Twinned
<1> QED
  BY <1>20, <1>21 DEF j

LEMMA NegatedTwice ==
  ASSUME NEW h, NEW j, NEW k, NEW w, NEW v, NEW u, NEW p, NEW pins,
         Negated(h, j, w, v, p, pins), Negated(j, k, v, u, p, pins)
  PROVE  Negated(h, k, w, u, p, pins)
<1>1. /\ Live(h) \subseteq Live(j) /\ Live(j) \subseteq Live(k) /\ k.marked = h.marked
      /\ HeapOK(k) /\ Fitting(k, u) /\ TwinsOK(k, u, p, pins)
  BY DEF Negated
<1>2. \A x \in Live(h) : /\ k.kind[x] = h.kind[x] /\ k.in[x] = h.in[x] /\ u[x] = w[x]
                         /\ h.kind[x] = "INPUT" => k.id[x] = h.id[x]
  BY <1>1 DEF Negated
<1>3. \A x \in Live(k) \ Live(h) : u[x].part = p /\ k.kind[x] # "INPUT"
  <2> SUFFICES ASSUME NEW x \in Live(k) \ Live(h) PROVE u[x].part = p /\ k.kind[x] # "INPUT"
    OBVIOUS
  <2>1. CASE x \in Live(j)
    BY <2>1 DEF Negated
  <2>2. CASE x \notin Live(j)
    BY <2>2 DEF Negated
  <2> QED
    BY <2>1, <2>2
<1>4. \A x \in DOMAIN h.strong : x \in DOMAIN k.strong /\ k.strong[x] = h.strong[x]
  BY DEF Negated
<1> QED
  BY <1>1, <1>2, <1>3, <1>4 DEF Negated

\* The twin of the twin of a gate computes what the gate does.
LEMMA DoubleNegationStep ==
  ASSUME NEW h, HeapOK(h), NEW w, Fitting(h, w), NEW p \in Nat \ {0},
         NEW pins, TwinsOK(h, w, p, pins),
         NEW g \in Live(h), w[g].part = p
  PROVE  LET j == DoubleNegation(h, g).heap
             y == DoubleNegation(h, g).gate
         IN  \E v : /\ Negated(h, j, w, v, p, pins) /\ y \in Live(j)
                    /\ v[y].part = p /\ v[y].inputs = w[g].inputs /\ v[y].value = w[g].value
                    /\ v[y].rank \in Nat /\ (v[y].rank <= 1 \/ v[y].rank <= w[g].rank)
<1> DEFINE once == WithNegation(h, g)
           t == Twin(once, g)
           twice == WithNegation(once, t)
           y == Twin(twice, t)
<1>1. PICK v : Negated(h, once, w, v, p, pins)
  BY NegationStep
<1>2. g \in Twinned(once)
  BY NegationStep
<1>3. DoubleNegation(h, g).heap = twice /\ DoubleNegation(h, g).gate = y
  BY DEF DoubleNegation
<1> HIDE DEF once
<1>4. HeapOK(once) /\ Fitting(once, v) /\ TwinsOK(once, v, p, pins) /\ v[g] = w[g]
      /\ once.kind[g] = h.kind[g]
  BY <1>1 DEF Negated
<1>5. TwinOf(once, v, g, t, p)
  BY <1>2, <1>4, TwinIsNegation
<1> HIDE DEF t
<1>6. t \in Live(once) /\ v[t].part = p
  BY <1>5 DEF TwinOf
<1>7. PICK u : Negated(once, twice, v, u, p, pins)
  BY <1>4, <1>6, NegationStep
<1>8. t \in Twinned(twice)
  BY <1>4, <1>6, NegationStep
<1> HIDE DEF twice
<1>9. HeapOK(twice) /\ Fitting(twice, u) /\ TwinsOK(twice, u, p, pins) /\ u[t] = v[t]
      /\ twice.kind[t] = once.kind[t]
  BY <1>6, <1>7 DEF Negated
<1>10. TwinOf(twice, u, t, y, p)
  BY <1>6, <1>8, <1>9, TwinIsNegation
<1> HIDE DEF y
<1>11. Negated(h, twice, w, u, p, pins)
  BY <1>1, <1>7, NegatedTwice
<1>12. w[g].rank \in Nat /\ w[g].value \subseteq Valuation
  BY DEF Fitting
<1>13. u[y].value = w[g].value
  BY <1>4, <1>5, <1>9, <1>10, <1>12 DEF TwinOf
<1>14. u[y].rank \in Nat /\ (u[y].rank <= 1 \/ u[y].rank <= w[g].rank)
  <2>1. u[y].rank \in Nat /\ v[t].rank \in Nat
    BY <1>5, <1>10 DEF TwinOf
  <2>2. u[y].rank <= 1 \/ u[y].rank <= v[t].rank
    BY <1>9, <1>10 DEF TwinOf
  <2>3. v[t].rank <= 1 \/ v[t].rank <= w[g].rank
    BY <1>4, <1>5 DEF TwinOf
  <2> QED
    BY <1>12, <2>1, <2>2, <2>3
<1>15. y \in Live(twice) /\ u[y].part = p /\ u[y].inputs = w[g].inputs
  BY <1>4, <1>5, <1>9, <1>10 DEF TwinOf
<1> QED
  BY <1>3, <1>11, <1>13, <1>14, <1>15

-----------------------------------------------------------------------------
(* What is not destroyed.                                                  *)

\* Nothing is destroyed while every gate has an owner.
LEMMA NothingLost ==
  ASSUME NEW h, HeapOK(h), NEW pins,
         \A g \in Live(h) : g \in pins \/ \E x \in Live(h) : g \in OwnedBy(h, x)
  PROVE  Release(h, pins) = h
<1> DEFINE K == Owned(h, pins)
<1>1. IsFiniteSet(Live(h))
  BY HeapFacts
<1>2. SelfOwned(h, pins, Live(h))
  BY DEF SelfOwned
<1>3. K = Live(h)
  BY <1>1, <1>2, OwnedFacts
<1>4. /\ h = [next |-> h.next, kind |-> [g \in Live(h) |-> h.kind[g]],
              in |-> [g \in Live(h) |-> h.in[g]], id |-> [g \in DOMAIN h.id |-> h.id[g]],
              strong |-> [g \in DOMAIN h.strong |-> h.strong[g]],
              weak |-> [g \in DOMAIN h.weak |-> h.weak[g]], marked |-> h.marked]
      /\ DOMAIN h.id \cap K = DOMAIN h.id /\ DOMAIN h.strong \cap K = DOMAIN h.strong
      /\ DOMAIN h.weak \cap K = DOMAIN h.weak /\ h.marked \cap K = h.marked
  BY <1>3 DEF HeapOK, Twinned
<1>5. Release(h, pins) =
        [h EXCEPT !.kind = [g \in K |-> h.kind[g]], !.in = [g \in K |-> h.in[g]],
                  !.id = [g \in DOMAIN h.id \cap K |-> h.id[g]],
                  !.strong = [g \in DOMAIN h.strong \cap K |-> h.strong[g]],
                  !.weak = [g \in DOMAIN h.weak \cap K |-> h.weak[g]],
                  !.marked = h.marked \cap K]
  BY DEF Release
<1> HIDE DEF K
<1> QED
  BY <1>3, <1>4, <1>5

\* While a circuit is stripped every gate of it is owned by a twin.
LEMMA TwinsOwn ==
  ASSUME NEW h, HeapOK(h), NEW w, NEW p, NEW pins, TwinsOK(h, w, p, pins),
         NEW kept, \A g \in pins : g \in Live(h) /\ w[g].part # p => g \in kept
  PROVE  Release(h, kept) = h
<1> SUFFICES ASSUME NEW g \in Live(h), g \notin kept
             PROVE  \E x \in Live(h) : g \in OwnedBy(h, x)
  BY NothingLost
<1>1. DOMAIN h.strong \subseteq Live(h)
  BY DEF HeapOK, Twinned
<1>2. \A x \in DOMAIN h.strong : h.strong[x] = g => g \in OwnedBy(h, x)
  BY DEF OwnedBy
<1>3. CASE w[g].part # p
  <2>1. \E x \in Live(h) : g \in Children(h, x)
    BY <1>3 DEF TwinsOK, HeldOK
  <2> QED
    BY <2>1 DEF OwnedBy
<1>4. CASE w[g].part = p /\ g \in DOMAIN h.weak
  BY <1>1, <1>2, <1>4 DEF TwinsOK, WeakOK
<1>5. CASE w[g].part = p /\ g \notin DOMAIN h.weak
  BY <1>1, <1>2, <1>5 DEF TwinsOK, WeakOK, Copies
<1> QED
  BY <1>3, <1>4, <1>5

-----------------------------------------------------------------------------
(* The circuits while one of them is changed.                              *)

\* The heap changes in circuit p only, and keeps its gates.
Changed(h, w, j, v, p) ==
  /\ Live(h) \subseteq Live(j)
  /\ \A x \in Live(h) : /\ j.kind[x] = h.kind[x] /\ v[x] = w[x]
                        /\ w[x].part # p => j.in[x] = h.in[x]
  /\ \A x \in Live(j) \ Live(h) : v[x].part = p /\ j.kind[x] # "INPUT"

\* The circuits are the same but for the output of circuit p.
SameBut(cs, ds, p) ==
  /\ Len(ds) = Len(cs) /\ DOMAIN ds = DOMAIN cs
  /\ \A n \in DOMAIN cs : ds[n].inputs = cs[n].inputs /\ (n # p => ds[n] = cs[n])

LEMMA HeldBy ==
  ASSUME NEW cs, DOMAIN cs = 1 .. Len(cs), NEW g
  PROVE  g \in Held(cs) <=> \E n \in 1 .. Len(cs) : g = cs[n].output \/ g \in Range(cs[n].inputs)
BY DEF Held, Range

LEMMA HeldLive ==
  ASSUME NEW h, NEW w, NEW cs, NEW f, CircuitsOK(h, w, cs, f)
  PROVE  \A g \in Held(cs) : g \in Live(h) /\ w[g].part \in 1 .. Len(cs)
<1> SUFFICES ASSUME NEW g \in Held(cs) PROVE g \in Live(h) /\ w[g].part \in 1 .. Len(cs)
  OBVIOUS
<1>1. PICK n \in 1 .. Len(cs) : g = cs[n].output \/ g \in Range(cs[n].inputs)
  BY HeldBy DEF CircuitsOK
<1> QED
  BY <1>1 DEF CircuitsOK

LEMMA CircuitsStay ==
  ASSUME NEW h, HeapOK(h), NEW w, Fitting(h, w), NEW cs, NEW f, CircuitsOK(h, w, cs, f),
         NEW S, StrippedOK(h, w, cs, S), NEW p \in 1 .. Len(cs), p \notin S,
         NEW j, NEW v, Changed(h, w, j, v, p), NEW ds, SameBut(cs, ds, p),
         NEW y \in Live(j), ds[p].output = y, v[y].part = p,
         v[y].inputs = w[cs[p].output].inputs, v[y].value = f
  PROVE  /\ CircuitsOK(j, v, ds, f) /\ StrippedOK(j, v, ds, S)
         /\ \A g \in Held(cs) : w[g].part # p => g \in Held(ds)
<1>1. Len(cs) \in Nat \ {0} /\ DOMAIN cs = 1 .. Len(cs) /\ Len(ds) = Len(cs) /\ DOMAIN ds = 1 .. Len(ds)
  BY DEF CircuitsOK, SameBut
<1>2. \A n \in 1 .. Len(cs) : ds[n].inputs = cs[n].inputs /\ (n # p => ds[n] = cs[n])
  BY <1>1 DEF SameBut
<1>3. /\ Live(h) \subseteq Live(j)
      /\ \A x \in Live(h) : /\ j.kind[x] = h.kind[x] /\ v[x] = w[x]
                            /\ w[x].part # p => j.in[x] = h.in[x]
      /\ \A x \in Live(j) \ Live(h) : v[x].part = p /\ j.kind[x] # "INPUT"
  BY DEF Changed
<1>4. CircuitsOK(j, v, ds, f)
  <2>1. \A g \in Live(j) : v[g].part \in 0 .. Len(ds)
    BY <1>1, <1>3 DEF CircuitsOK
  <2>2. ASSUME NEW n \in 1 .. Len(cs)
        PROVE  /\ ds[n].output \in Live(j) /\ v[ds[n].output].part = n
               /\ v[ds[n].output].value = f /\ DOMAIN ds[n].inputs = InputGate
               /\ v[ds[n].output].inputs = Range(ds[n].inputs)
               /\ Range(ds[n].inputs) = {g \in Live(j) : v[g].part = n /\ j.kind[g] = "INPUT"}
    <3>1. /\ cs[n].output \in Live(h) /\ w[cs[n].output].part = n
          /\ w[cs[n].output].value = f /\ DOMAIN cs[n].inputs = InputGate
          /\ w[cs[n].output].inputs = Range(cs[n].inputs)
          /\ Range(cs[n].inputs) = {g \in Live(h) : w[g].part = n /\ h.kind[g] = "INPUT"}
      BY DEF CircuitsOK
    <3>2. {g \in Live(j) : v[g].part = n /\ j.kind[g] = "INPUT"}
            = {g \in Live(h) : w[g].part = n /\ h.kind[g] = "INPUT"}
      BY <1>3
    <3>3. CASE n = p
      BY <1>2, <3>1, <3>2, <3>3
    <3>4. CASE n # p
      <4>1. ds[n] = cs[n]
        BY <1>2, <3>4
      <4>2. cs[n].output \in Live(j) /\ v[cs[n].output] = w[cs[n].output]
        BY <1>3, <3>1
      <4> QED
        BY <3>1, <3>2, <4>1, <4>2
    <3> QED
      BY <3>3, <3>4
  <2> QED
    BY <1>1, <2>1, <2>2 DEF CircuitsOK
<1>5. StrippedOK(j, v, ds, S)
  <2> SUFFICES ASSUME NEW n \in S, NEW g \in Live(j), v[g].part = n, j.kind[g] = "NOT"
               PROVE  /\ j.kind[j.in[g][1]] = "INPUT"
                      /\ g = ds[n].output
                           \/ \A x \in Live(j) \ {g, ds[n].output} :
                                v[x].part = n /\ j.kind[x] = "NOT" => j.in[x] # j.in[g]
    BY <1>1 DEF StrippedOK, Clean
  <2>1. n # p /\ n \in 1 .. Len(cs) /\ ds[n] = cs[n] /\ Clean(h, w, n, cs[n].output)
    BY <1>2 DEF StrippedOK
  <2>2. \A x \in Live(j) : v[x].part = n =>
          x \in Live(h) /\ w[x].part = n /\ j.kind[x] = h.kind[x] /\ j.in[x] = h.in[x]
    BY <1>3, <2>1
  <2>3. h.in[g][1] \in Live(h) /\ h.kind[g] = "NOT" /\ g \in Live(h) /\ w[g].part = n
    BY <2>2, HeapFacts
  <2>4. h.kind[h.in[g][1]] = "INPUT"
        /\ (g = cs[n].output
              \/ \A x \in Live(h) \ {g, cs[n].output} :
                   w[x].part = n /\ h.kind[x] = "NOT" => h.in[x] # h.in[g])
    BY <2>1, <2>3 DEF Clean
  <2> QED
    BY <1>3, <2>1, <2>2, <2>3, <2>4
<1>6. ASSUME NEW g \in Held(cs), w[g].part # p
      PROVE  g \in Held(ds)
  <2>1. PICK n \in 1 .. Len(cs) : g = cs[n].output \/ g \in Range(cs[n].inputs)
    BY <1>1, HeldBy
  <2>2. w[g].part = n
    BY <2>1 DEF CircuitsOK
  <2>3. ds[n] = cs[n]
    BY <1>2, <1>6, <2>2
  <2> QED
    BY <1>1, <2>1, <2>3, HeldBy
<1> QED
  BY <1>4, <1>5, <1>6

\* Twins need the same pins in the other circuits only.
LEMMA TwinsPins ==
  ASSUME NEW h, NEW w, NEW p, NEW pins, TwinsOK(h, w, p, pins),
         NEW kept, \A g \in pins : g \in Live(h) /\ w[g].part # p => g \in kept
  PROVE  TwinsOK(h, w, p, kept)
BY DEF TwinsOK, HeldOK

-----------------------------------------------------------------------------
(* The walk.                                                               *)

\* Stacks.
LEMMA NotEmpty ==
  ASSUME NEW S, NEW st \in Seq(S), st # <<>>
  PROVE  /\ Len(st) \in Nat \ {0} /\ Head(st) = st[1] /\ DOMAIN st = 1 .. Len(st)
         /\ \A i \in 1 .. Len(st) : st[i] \in S
OBVIOUS

LEMMA TailFacts ==
  ASSUME NEW S, NEW st \in Seq(S), st # <<>>
  PROVE  /\ Tail(st) \in Seq(S) /\ Len(Tail(st)) = Len(st) - 1
         /\ \A i \in 1 .. Len(st) - 1 : Tail(st)[i] = st[i + 1]
OBVIOUS

LEMMA PushFacts ==
  ASSUME NEW S, NEW st \in Seq(S), NEW a \in S
  PROVE  LET t == <<a>> \o st IN
         /\ t \in Seq(S) /\ Len(t) = Len(st) + 1 /\ t[1] = a
         /\ \A i \in 1 .. Len(st) : t[i + 1] = st[i]
OBVIOUS

LEMMA PushTwice ==
  ASSUME NEW S, NEW st \in Seq(S), NEW a \in S, NEW b \in S
  PROVE  <<a>> \o <<b>> \o st = <<a>> \o (<<b>> \o st)
OBVIOUS

\* What is known while a circuit is stripped.
LEMMA Walking ==
  ASSUME NEW w, Sound(w), phase # "idle"
  PROVE  LET pins == Held(circuits) \cup {oldOutput} IN
         /\ HeapOK(heap) /\ Fitting(heap, w) /\ CircuitsOK(heap, w, circuits, goal)
         /\ StrippedOK(heap, w, circuits, stripped) /\ last \notin stripped
         /\ last \in Nat \ {0} /\ last \in 1 .. Len(circuits) /\ DOMAIN circuits = 1 .. last
         /\ TwinsOK(heap, w, last, pins)
         /\ circuits[last].output \in Live(heap) /\ w[circuits[last].output].part = last
         /\ w[circuits[last].output].value = goal
BY DEF Sound, Stripping, CircuitsOK, last

\* A gate of the circuit that is stripped may be marked.
LEMMA MarkFacts ==
  ASSUME NEW h, HeapOK(h), NEW w, Fitting(h, w), NEW p, NEW pins, TwinsOK(h, w, p, pins),
         NEW g \in Live(h), w[g].part = p, NEW cs, NEW f, CircuitsOK(h, w, cs, f),
         NEW S, StrippedOK(h, w, cs, S)
  PROVE  LET j == Mark(h, g) IN
         /\ HeapOK(j) /\ Fitting(j, w) /\ TwinsOK(j, w, p, pins)
         /\ CircuitsOK(j, w, cs, f) /\ StrippedOK(j, w, cs, S)
         /\ Live(j) = Live(h) /\ j.kind = h.kind /\ j.in = h.in /\ j.strong = h.strong
         /\ j.marked = h.marked \cup {g}
<1> DEFINE j == Mark(h, g)
<1>1. h = [next |-> h.next, kind |-> h.kind, in |-> h.in, id |-> h.id,
           strong |-> h.strong, weak |-> h.weak, marked |-> h.marked]
  BY DEF HeapOK
<1>2. j = [next |-> h.next, kind |-> h.kind, in |-> h.in, id |-> h.id,
           strong |-> h.strong, weak |-> h.weak, marked |-> h.marked \cup {g}]
  BY <1>1 DEF Mark
<1> HIDE DEF j
<1>3. /\ j.next = h.next /\ j.kind = h.kind /\ j.in = h.in /\ j.id = h.id
      /\ j.strong = h.strong /\ j.weak = h.weak /\ j.marked = h.marked \cup {g}
      /\ Live(j) = Live(h) /\ Twinned(j) = Twinned(h)
      /\ \A x : Children(j, x) = Children(h, x)
  BY <1>2 DEF Live, Twinned, Children
<1>4. HeapOK(j)
  <2>1. /\ h.kind = [x \in Live(h) |-> h.kind[x]] /\ h.in = [x \in Live(h) |-> h.in[x]]
        /\ h.id = [x \in DOMAIN h.id |-> h.id[x]]
        /\ h.strong = [x \in DOMAIN h.strong |-> h.strong[x]]
        /\ h.weak = [x \in DOMAIN h.weak |-> h.weak[x]]
    BY DEF HeapOK
  <2>2. j = [next |-> j.next, kind |-> [x \in Live(j) |-> j.kind[x]],
             in |-> [x \in Live(j) |-> j.in[x]], id |-> [x \in DOMAIN j.id |-> j.id[x]],
             strong |-> [x \in DOMAIN j.strong |-> j.strong[x]],
             weak |-> [x \in DOMAIN j.weak |-> j.weak[x]], marked |-> j.marked]
    BY <1>2, <1>3, <2>1
  <2> QED
    BY <1>3, <2>2 DEF HeapOK
<1>5. Fitting(j, w)
  <2>1. \A x \in Live(h) : Fits(h, w, x) => Fits(j, w, x)
    BY <1>3 DEF Fits
  <2> QED
    BY <1>3, <2>1 DEF Fitting
<1>6. TwinsOK(j, w, p, pins)
  <2>1. Copies(j, w) = Copies(h, w)
    BY <1>3 DEF Copies
  <2>2. OriginalOK(j, w, p)
    <3>1. Flagged(j) = Flagged(h) \cup {g}
      BY <1>3 DEF Flagged
    <3> QED
      BY <1>3, <3>1 DEF TwinsOK, OriginalOK
  <2>3. HeldOK(j, w, p, pins)
    BY <1>3 DEF TwinsOK, HeldOK
  <2>4. StrongOK(j, w, p)
    BY <1>3, <2>1 DEF TwinsOK, StrongOK, NegationOf
  <2>5. WeakOK(j, w, p)
    BY <1>3, <2>1 DEF TwinsOK, WeakOK
  <2> QED
    BY <2>2, <2>3, <2>4, <2>5 DEF TwinsOK
<1>7. CircuitsOK(j, w, cs, f)
  BY <1>3 DEF CircuitsOK
<1>8. StrippedOK(j, w, cs, S)
  BY <1>3 DEF StrippedOK, Clean
<1> QED
  BY <1>3, <1>4, <1>5, <1>6, <1>7, <1>8 DEF j

LEMMA StripOutputKeeps ==
  ASSUME CopyInv, StripOutput
  PROVE  CopyInv'
<1> DEFINE out == circuits[last].output
           pins == Held(circuits) \cup {oldOutput}
<1>1. PICK w : Sound(w)
  BY DEF CopyInv
<1>2. phase = "top" /\ UNCHANGED <<oldOutput, stripped, goal>>
  BY DEF StripOutput
<1>3. /\ HeapOK(heap) /\ Fitting(heap, w) /\ CircuitsOK(heap, w, circuits, goal)
      /\ StrippedOK(heap, w, circuits, stripped) /\ last \notin stripped
      /\ last \in Nat \ {0} /\ last \in 1 .. Len(circuits) /\ DOMAIN circuits = 1 .. last
      /\ TwinsOK(heap, w, last, pins)
      /\ out \in Live(heap) /\ w[out].part = last /\ w[out].value = goal
  BY <1>1, <1>2, Walking
<1>4. stack = <<>> /\ heap.marked = {}
  BY <1>1, <1>2 DEF Sound, Stripping
<1>5. CASE heap.kind[out] = "NOT" /\ heap.kind[heap.in[out][1]] # "INPUT"
  <2> DEFINE j == DoubleNegation(heap, out).heap
             y == DoubleNegation(heap, out).gate
  <2>1. /\ circuits' = [circuits EXCEPT ![last].output = y]
        /\ heap' = Keep(j, circuits', KeptOriginal) /\ UNCHANGED <<stack, phase>>
    BY <1>5 DEF StripOutput
  <2>2. PICK v : /\ Negated(heap, j, w, v, last, pins) /\ y \in Live(j)
                 /\ v[y].part = last /\ v[y].inputs = w[out].inputs /\ v[y].value = w[out].value
    BY <1>3, DoubleNegationStep
  <2> HIDE DEF j, y
  <2>3. /\ HeapOK(j) /\ Fitting(j, v) /\ TwinsOK(j, v, last, pins) /\ Live(heap) \subseteq Live(j)
        /\ j.marked = heap.marked /\ Changed(heap, w, j, v, last)
    BY <2>2 DEF Negated, Changed
  <2>4. /\ Len(circuits') = last /\ last' = last /\ DOMAIN circuits' = 1 .. last
        /\ circuits'[last].output = y /\ SameBut(circuits, circuits', last)
    <3>1. DOMAIN circuits' = 1 .. last
      BY <1>3, <2>1
    <3>2. /\ \A n \in 1 .. last : n # last => circuits'[n] = circuits[n]
          /\ circuits'[last] = [circuits[last] EXCEPT !.output = y]
      BY <1>3, <2>1
    <3>3. circuits'[last].output = y /\ circuits'[last].inputs = circuits[last].inputs
      BY <3>2
    <3>4. Len(circuits') = last
      BY <1>3, <2>1 DEF last
    <3> QED
      BY <1>3, <3>1, <3>2, <3>3, <3>4 DEF SameBut, last
  <2>5. /\ CircuitsOK(j, v, circuits', goal) /\ StrippedOK(j, v, circuits', stripped)
        /\ \A g \in Held(circuits) : w[g].part # last => g \in Held(circuits')
    <3> DEFINE ds == circuits'
    <3>1. SameBut(circuits, ds, last) /\ ds[last].output = y
      BY <2>4
    <3> HIDE DEF ds
    <3>2. /\ CircuitsOK(j, v, ds, goal) /\ StrippedOK(j, v, ds, stripped)
          /\ \A g \in Held(circuits) : w[g].part # last => g \in Held(ds)
      BY <1>3, <2>2, <2>3, <3>1, CircuitsStay
    <3> QED
      BY <3>2 DEF ds
  <2>6. \A g \in pins : g \in Live(j) /\ v[g].part # last => g \in Held(circuits') \cup {oldOutput}
    <3>1. \A g \in Held(circuits) : g \in Live(heap)
      BY <1>3, HeldLive
    <3>2. \A g \in Live(heap) : v[g] = w[g]
      BY <2>3 DEF Changed
    <3> QED
      BY <2>5, <3>1, <3>2
  <2>7. heap' = j
    <3> DEFINE kept == Held(circuits') \cup KeptOriginal \cup {f.gate : f \in Range(stack)}
    <3>1. heap' = Release(j, kept)
      BY <2>1 DEF Keep
    <3>2. \A g \in pins : g \in Live(j) /\ v[g].part # last => g \in kept
      BY <2>6 DEF KeptOriginal
    <3> HIDE DEF kept
    <3>3. Release(j, kept) = j
      BY <2>3, <3>2, TwinsOwn
    <3> QED
      BY <3>1, <3>3
  <2>8. TwinsOK(heap', v, last, Held(circuits') \cup {oldOutput})
    <3> DEFINE kept == Held(circuits') \cup {oldOutput}
    <3>1. \A g \in pins : g \in Live(j) /\ v[g].part # last => g \in kept
      BY <2>6
    <3> HIDE DEF kept
    <3>2. TwinsOK(j, v, last, kept)
      BY <2>3, <3>1, TwinsPins
    <3> QED
      BY <2>7, <3>2 DEF kept
  <2>9. phase' = "top" /\ stack' = <<>> /\ heap'.marked = {}
    BY <1>2, <1>4, <2>1, <2>3, <2>7
  <2>10. /\ HeapOK(heap') /\ Fitting(heap', v) /\ CircuitsOK(heap', v, circuits', goal')
         /\ StrippedOK(heap', v, circuits', stripped') /\ last' \notin stripped'
    BY <1>2, <1>3, <2>3, <2>4, <2>5, <2>7
  <2>11. TwinsOK(heap', v, last', Held(circuits') \cup {oldOutput'})
    BY <1>2, <2>4, <2>8
  <2> QED
    BY <2>9, <2>10, <2>11 DEF CopyInv, Sound, Idle, Stripping
<1>6. CASE ~(heap.kind[out] = "NOT" /\ heap.kind[heap.in[out][1]] # "INPUT")
  <2>1. /\ stack' = Enter(heap, out) /\ heap' = Mark(heap, out) /\ phase' = "walk"
        /\ circuits' = circuits /\ last' = last
    BY <1>6 DEF StripOutput, last
  <2>2. stack' = <<[gate |-> out, slot |-> 1]>>
    BY <1>4, <2>1 DEF Enter
  <2>3. /\ HeapOK(heap') /\ Fitting(heap', w) /\ TwinsOK(heap', w, last, pins)
        /\ CircuitsOK(heap', w, circuits, goal) /\ StrippedOK(heap', w, circuits, stripped)
        /\ heap'.kind = heap.kind /\ heap'.in = heap.in /\ heap'.marked = {out}
    <3> DEFINE j == Mark(heap, out)
    <3>1. /\ HeapOK(j) /\ Fitting(j, w) /\ TwinsOK(j, w, last, pins)
          /\ CircuitsOK(j, w, circuits, goal) /\ StrippedOK(j, w, circuits, stripped)
          /\ j.kind = heap.kind /\ j.in = heap.in /\ j.marked = heap.marked \cup {out}
      BY <1>3, MarkFacts
    <3> HIDE DEF j
    <3>2. heap' = j
      BY <2>1 DEF j
    <3> QED
      BY <1>4, <3>1, <3>2
  <2>4. WalkOK(heap', w, stack')
    <3> DEFINE st == <<[gate |-> out, slot |-> 1]>>
    <3>1. Len(st) = 1 /\ DOMAIN st = 1 .. 1 /\ st[1].gate = out /\ st[1].slot = 1
      OBVIOUS
    <3>0. st \in Seq([gate : {out}, slot : Nat \ {0}])
      OBVIOUS
    <3> HIDE DEF st
    <3>2. \A s \in DOMAIN heap.in[out] : s \in Nat /\ 1 <= s
      <4>1. DOMAIN heap.in[out] = 1 .. Arity(heap.kind[out])
        BY <1>3 DEF HeapOK
      <4> QED
        BY <4>1
    <3>3. WalkOK(heap', w, st)
      BY <1>6, <2>3, <3>0, <3>1, <3>2 DEF WalkOK
    <3> QED
      BY <2>2, <3>3 DEF st
  <2>5. /\ HeapOK(heap') /\ Fitting(heap', w) /\ CircuitsOK(heap', w, circuits', goal')
        /\ StrippedOK(heap', w, circuits', stripped') /\ last' \notin stripped'
    BY <1>2, <1>3, <2>1, <2>3
  <2>6. TwinsOK(heap', w, last', Held(circuits') \cup {oldOutput'})
    BY <1>2, <2>1, <2>3
  <2>7. circuits'[last'].output \in heap'.marked
    BY <2>1, <2>3
  <2> QED
    BY <2>1, <2>4, <2>5, <2>6, <2>7 DEF CopyInv, Sound, Idle, Stripping
<1> QED
  BY <1>5, <1>6

\* A link may be given to a gate that computes what the one below it does.
LEMMA Relinked ==
  ASSUME NEW h, HeapOK(h), NEW w, Fitting(h, w), NEW p, NEW pins, TwinsOK(h, w, p, pins),
         NEW g \in Live(h), h.kind[g] \in {"AND", "OR"}, w[g].part = p,
         NEW s \in DOMAIN h.in[g], NEW y \in Live(h), w[y].part = p,
         w[y].inputs = w[h.in[g][s]].inputs, w[y].value = w[h.in[g][s]].value,
         w[y].rank + 1 < w[g].rank, NEW k, k = [h EXCEPT !.in[g][s] = y]
  PROVE  /\ HeapOK(k) /\ Fitting(k, w) /\ TwinsOK(k, w, p, pins)
         /\ Live(k) = Live(h) /\ k.kind = h.kind /\ k.strong = h.strong /\ k.marked = h.marked
         /\ \A x \in Live(h) : x # g => k.in[x] = h.in[x]
         /\ DOMAIN k.in[g] = DOMAIN h.in[g] /\ \A r \in DOMAIN h.in[g] : r # s => k.in[g][r] = h.in[g][r]
<1> DEFINE ins == [h.in EXCEPT ![g][s] = y]
           j == [h EXCEPT !.in = ins]
<1>1. h = [next |-> h.next, kind |-> h.kind, in |-> h.in, id |-> h.id,
           strong |-> h.strong, weak |-> h.weak, marked |-> h.marked]
  BY DEF HeapOK
<1>2. /\ h.kind = [x \in Live(h) |-> h.kind[x]] /\ h.in = [x \in Live(h) |-> h.in[x]]
      /\ h.id = [x \in DOMAIN h.id |-> h.id[x]]
      /\ h.strong = [x \in DOMAIN h.strong |-> h.strong[x]]
      /\ h.weak = [x \in DOMAIN h.weak |-> h.weak[x]]
      /\ DOMAIN h.in = Live(h)
  BY DEF HeapOK
<1>3. k = j
  BY <1>1
<1>4. /\ DOMAIN ins = Live(h) /\ ins = [x \in Live(h) |-> ins[x]]
      /\ \A x \in Live(h) : x # g => ins[x] = h.in[x]
      /\ DOMAIN ins[g] = DOMAIN h.in[g] /\ ins[g][s] = y
      /\ \A r \in DOMAIN h.in[g] : r # s => ins[g][r] = h.in[g][r]
  BY <1>2
<1> HIDE DEF ins
<1>5. j = [next |-> h.next, kind |-> h.kind, in |-> ins, id |-> h.id,
           strong |-> h.strong, weak |-> h.weak, marked |-> h.marked]
  BY <1>1
<1> HIDE DEF j
<1>6. /\ j.next = h.next /\ j.kind = h.kind /\ j.in = ins /\ j.id = h.id
      /\ j.strong = h.strong /\ j.weak = h.weak /\ j.marked = h.marked
      /\ Live(j) = Live(h) /\ Twinned(j) = Twinned(h) /\ Flagged(j) = Flagged(h)
      /\ \A x \in Live(h) : x # g => j.in[x] = h.in[x] /\ Children(j, x) = Children(h, x)
      /\ DOMAIN j.in[g] = DOMAIN h.in[g] /\ j.in[g][s] = y
      /\ \A r \in DOMAIN h.in[g] : r # s => j.in[g][r] = h.in[g][r]
  BY <1>4, <1>5 DEF Live, Twinned, Children, Flagged
<1>7. \A c \in Children(j, g) : c = y \/ c \in Children(h, g)
  BY <1>6 DEF Children, Range
<1>8. HeapOK(j)
  <2>1. j = [next |-> j.next, kind |-> [x \in Live(j) |-> j.kind[x]],
             in |-> [x \in Live(j) |-> j.in[x]], id |-> [x \in DOMAIN j.id |-> j.id[x]],
             strong |-> [x \in DOMAIN j.strong |-> j.strong[x]],
             weak |-> [x \in DOMAIN j.weak |-> j.weak[x]], marked |-> j.marked]
    BY <1>2, <1>4, <1>5, <1>6
  <2>2. ASSUME NEW x \in Live(h)
        PROVE  DOMAIN j.in[x] = 1 .. Arity(j.kind[x]) /\ Children(j, x) \subseteq Live(j)
    <3>1. DOMAIN h.in[x] = 1 .. Arity(h.kind[x]) /\ Children(h, x) \subseteq Live(h)
      BY DEF HeapOK
    <3>2. CASE x = g
      BY <1>6, <1>7, <3>1, <3>2
    <3>3. CASE x # g
      BY <1>6, <3>1, <3>3
    <3> QED
      BY <3>2, <3>3
  <2> QED
    BY <1>6, <2>1, <2>2 DEF HeapOK
<1>9. Fitting(j, w)
  <2>1. \A x \in Live(h) : /\ w[x].rank \in Nat /\ w[x].part \in Nat /\ w[x].value \in SUBSET Valuation
                           /\ \A c \in Children(h, x) : w[c].part = w[x].part
                           /\ Fits(h, w, x)
    BY DEF Fitting
  <2>2. ASSUME NEW x \in Live(h), x # g
        PROVE  Fits(j, w, x)
    <3>1. j.kind[x] = h.kind[x] /\ j.in[x] = h.in[x] /\ j.id[x] = h.id[x]
      BY <1>6, <2>2
    <3>2. \A c : Alike(w, c, w, c)
      BY DEF Alike
    <3> QED
      BY <2>1, <3>1, <3>2, SameFits
  <2>3. Fits(j, w, g)
    <3> DEFINE a == h.in[g][1]
               b == h.in[g][2]
               c == j.in[g][1]
               d == j.in[g][2]
    <3>1. /\ w[g].rank > 2 /\ w[g].rank > w[a].rank + 1 /\ w[g].rank > w[b].rank + 1
          /\ w[g].inputs = w[a].inputs \cup w[b].inputs
          /\ w[g].value = IF h.kind[g] = "AND" THEN w[a].value \cap w[b].value
                          ELSE w[a].value \cup w[b].value
      BY <2>1 DEF Fits
    <3>2. DOMAIN h.in[g] = {1, 2}
      BY HeapFacts
    <3>3. \/ s = 1 /\ c = y /\ d = b
          \/ s = 2 /\ c = a /\ d = y
      BY <1>6, <3>2
    <3>4. /\ w[g].rank > w[c].rank + 1 /\ w[g].rank > w[d].rank + 1
          /\ w[c].inputs = w[a].inputs /\ w[d].inputs = w[b].inputs
          /\ w[c].value = w[a].value /\ w[d].value = w[b].value
      BY <3>1, <3>3
    <3> HIDE DEF a, b, c, d
    <3>5. /\ w[g].inputs = w[c].inputs \cup w[d].inputs
          /\ w[g].value = IF h.kind[g] = "AND" THEN w[c].value \cap w[d].value
                          ELSE w[c].value \cup w[d].value
      BY <3>1, <3>4
    <3> QED
      BY <1>6, <3>1, <3>4, <3>5 DEF Fits, c, d
  <2>4. DOMAIN w = Live(j)
    BY <1>6 DEF Fitting
  <2>5. \A x \in Live(h) : \A c \in Children(j, x) : w[c].part = w[x].part
    BY <1>6, <1>7, <2>1
  <2> QED
    BY <1>6, <2>1, <2>2, <2>3, <2>4, <2>5 DEF Fitting
<1>10. TwinsOK(j, w, p, pins)
  <2>1. Copies(j, w) = Copies(h, w)
    BY <1>6 DEF Copies
  <2>2. OriginalOK(j, w, p)
    BY <1>6 DEF TwinsOK, OriginalOK
  <2>3. HeldOK(j, w, p, pins)
    <3> SUFFICES ASSUME NEW x \in Live(h), w[x].part # p, x \notin pins
                 PROVE  \E z \in Live(h) : x \in Children(j, z)
      BY <1>6 DEF HeldOK
    <3>1. PICK z \in Live(h) : x \in Children(h, z)
      BY DEF TwinsOK, HeldOK
    <3>2. z # g
      BY <3>1 DEF Fitting
    <3> QED
      BY <1>6, <3>1, <3>2
  <2>4. StrongOK(j, w, p)
    <3>1. \A x \in Live(h) : h.kind[x] = "NOT" => j.in[x] = h.in[x]
      BY <1>6
    <3>2. DOMAIN h.strong \subseteq Live(h)
      BY DEF HeapOK, Twinned
    <3>3. StrongOK(h, w, p)
      BY DEF TwinsOK
    <3>4. ASSUME NEW x \in DOMAIN h.strong, w[x].part = p
          PROVE  LET t == h.strong[x] IN
                 /\ x \in Copies(j, w) /\ NegationOf(j, w, x, t)
                 /\ IF j.kind[x] = "NOT" THEN t = j.in[x][1]
                    ELSE /\ t \in DOMAIN j.weak /\ j.weak[t] = x
                         /\ IF j.kind[x] = "INPUT"
                            THEN j.kind[t] = "NOT" /\ j.in[t] = <<x>> /\ w[t].rank = 1
                            ELSE j.kind[t] = Negation(j.kind[x]) /\ w[t].rank = w[x].rank
      <4> DEFINE t == h.strong[x]
      <4>1. /\ x \in Copies(h, w) /\ NegationOf(h, w, x, t)
            /\ IF h.kind[x] = "NOT" THEN t = h.in[x][1]
               ELSE /\ t \in DOMAIN h.weak /\ h.weak[t] = x
                    /\ IF h.kind[x] = "INPUT"
                       THEN h.kind[t] = "NOT" /\ h.in[t] = <<x>> /\ w[t].rank = 1
                       ELSE h.kind[t] = Negation(h.kind[x]) /\ w[t].rank = w[x].rank
        BY <3>3, <3>4 DEF StrongOK
      <4> HIDE DEF t
      <4>2. t \in Live(h) /\ x \in Live(h)
        BY <3>2, <4>1 DEF NegationOf
      <4>3. NegationOf(j, w, x, t)
        BY <1>6, <4>1 DEF NegationOf
      <4>4. h.kind[t] = "NOT" => j.in[t] = h.in[t]
        BY <3>1, <4>2
      <4>5. h.kind[x] = "NOT" => j.in[x] = h.in[x]
        BY <3>1, <4>2
      <4>6. /\ x \in Copies(j, w)
            /\ IF j.kind[x] = "NOT" THEN t = j.in[x][1]
               ELSE /\ t \in DOMAIN j.weak /\ j.weak[t] = x
                    /\ IF j.kind[x] = "INPUT"
                       THEN j.kind[t] = "NOT" /\ j.in[t] = <<x>> /\ w[t].rank = 1
                       ELSE j.kind[t] = Negation(j.kind[x]) /\ w[t].rank = w[x].rank
        BY <1>6, <2>1, <4>1, <4>4, <4>5
      <4> QED
        BY <4>3, <4>6 DEF t
    <3> QED
      BY <1>6, <3>4 DEF StrongOK
  <2>5. WeakOK(j, w, p)
    BY <1>6, <2>1 DEF TwinsOK, WeakOK
  <2> QED
    BY <2>2, <2>3, <2>4, <2>5 DEF TwinsOK
<1> QED
  BY <1>3, <1>6, <1>8, <1>9, <1>10

\* What the walk has left behind stays, when only the link it is at changes.
LEMMA WalkStays ==
  ASSUME NEW h, HeapOK(h), NEW w, NEW st, WalkOK(h, w, st), st # <<>>,
         NEW j, NEW v, j.marked = h.marked,
         \A x \in Live(h) : j.kind[x] = h.kind[x] /\ v[x] = w[x],
         \A x \in DOMAIN h.strong : x \in DOMAIN j.strong /\ j.strong[x] = h.strong[x],
         \A x \in Live(h) : /\ x # st[1].gate \/ h.kind[x] = "NOT" => j.in[x] = h.in[x]
                            /\ DOMAIN j.in[x] = DOMAIN h.in[x]
                            /\ \A r \in DOMAIN h.in[x] :
                                 x # st[1].gate \/ r # st[1].slot => j.in[x][r] = h.in[x][r]
  PROVE  WalkOK(j, v, st)
<1>1. st \in Seq([gate : h.marked, slot : Nat \ {0}]) /\ h.marked \subseteq Live(h)
  BY DEF WalkOK, HeapOK
<1>2. /\ Len(st) \in Nat \ {0} /\ \A i \in 1 .. Len(st) : st[i] \in [gate : h.marked, slot : Nat \ {0}]
  BY <1>1, NotEmpty
<1>3. \A i, k \in 1 .. Len(st) : i < k => v[st[i].gate].rank < v[st[k].gate].rank
  <2>1. \A i \in 1 .. Len(st) : v[st[i].gate] = w[st[i].gate]
    BY <1>1, <1>2
  <2> QED
    BY <2>1 DEF WalkOK
<1>4. ASSUME NEW x \in Live(h), h.kind[x] = "NOT", h.kind[h.in[x][1]] = "INPUT"
      PROVE  j.kind[j.in[x][1]] = "INPUT" /\ j.in[x][1] = h.in[x][1]
  <2>1. h.in[x][1] \in Live(h) /\ j.in[x] = h.in[x]
    BY <1>4, HeapFacts
  <2> QED
    BY <1>4, <2>1
<1>5. \A x \in j.marked : j.kind[x] = "NOT" => j.kind[j.in[x][1]] = "INPUT"
  BY <1>1, <1>4 DEF WalkOK
<1>6. ASSUME NEW x \in j.marked, NEW r \in DOMAIN j.in[x]
      PROVE  Settled(j, x, r) \/ \E i \in 1 .. Len(st) : st[i].gate = x /\ st[i].slot <= r
  <2>1. x \in Live(h) /\ r \in DOMAIN h.in[x]
    BY <1>1
  <2>2. CASE x = st[1].gate /\ r = st[1].slot
    <3>1. 1 \in 1 .. Len(st) /\ st[1].slot \in Nat
      BY <1>2
    <3> QED
      BY <2>2, <3>1
  <2>3. CASE ~(x = st[1].gate /\ r = st[1].slot)
    <3>1. j.in[x][r] = h.in[x][r]
      BY <2>1, <2>3
    <3>2. CASE Settled(h, x, r)
      <4> DEFINE z == h.in[x][r]
      <4>1. z \in h.marked /\ (h.kind[z] = "NOT" => /\ h.kind[h.in[z][1]] = "INPUT"
                                                    /\ h.in[z][1] \in DOMAIN h.strong
                                                    /\ h.strong[h.in[z][1]] = z)
        BY <3>2 DEF Settled
      <4> HIDE DEF z
      <4>2. z \in Live(h) /\ j.kind[z] = h.kind[z]
        BY <1>1, <4>1
      <4>3. j.kind[z] = "NOT" => /\ j.kind[j.in[z][1]] = "INPUT" /\ j.in[z][1] \in DOMAIN j.strong
                                 /\ j.strong[j.in[z][1]] = z
        BY <1>4, <4>1, <4>2
      <4>4. j.in[x][r] = z
        BY <3>1 DEF z
      <4> QED
        BY <4>1, <4>3, <4>4 DEF Settled
    <3>3. CASE \E i \in 1 .. Len(st) : st[i].gate = x /\ st[i].slot <= r
      BY <3>3
    <3> QED
      BY <2>1, <3>2, <3>3 DEF WalkOK
  <2> QED
    BY <2>2, <2>3
<1> QED
  BY <1>1, <1>3, <1>5, <1>6 DEF WalkOK

\* The link that the walk is at.
LEMMA LinkFacts ==
  ASSUME NEW w, Sound(w), AtLink
  PROVE  LET g == fr.gate IN
         /\ WalkOK(heap, w, stack) /\ circuits[last].output \in heap.marked /\ stack # <<>>
         /\ fr = stack[1] /\ fr \in [gate : heap.marked, slot : Nat \ {0}]
         /\ g \in Live(heap) /\ w[g].part = last /\ heap.kind[g] \in {"NOT", "AND", "OR"}
         /\ fr.slot \in DOMAIN heap.in[g] /\ child \in Live(heap) /\ w[child].part = last
         /\ child \in Children(heap, g) /\ child = heap.in[g][fr.slot]
         /\ heap.kind[g] = "NOT" => heap.kind[child] = "INPUT"
<1> DEFINE g == fr.gate
           s == fr.slot
           S == [gate : heap.marked, slot : Nat \ {0}]
<1>1. phase = "walk" /\ stack # <<>> /\ s <= Len(heap.in[g])
  BY DEF AtLink
<1>2. /\ HeapOK(heap) /\ Fitting(heap, w) /\ TwinsOK(heap, w, last, Held(circuits) \cup {oldOutput})
  BY <1>1, Walking
<1>3. WalkOK(heap, w, stack) /\ circuits[last].output \in heap.marked
  BY <1>1 DEF Sound, Stripping
<1>4. fr = stack[1] /\ fr \in S
  <2>1. stack \in Seq(S)
    BY <1>3 DEF WalkOK
  <2> HIDE DEF S
  <2>2. Len(stack) \in Nat \ {0} /\ Head(stack) = stack[1] /\ \A i \in 1 .. Len(stack) : stack[i] \in S
    BY <1>1, <2>1, NotEmpty
  <2> QED
    BY <2>2 DEF fr
<1>5. g \in heap.marked /\ s \in Nat \ {0}
  BY <1>4
<1>6. g \in Live(heap) /\ w[g].part = last
  BY <1>2, <1>5 DEF TwinsOK, OriginalOK, HeapOK
<1>7. s \in DOMAIN heap.in[g] /\ heap.kind[g] \in {"NOT", "AND", "OR"}
  <2>1. /\ DOMAIN heap.in[g] = 1 .. Arity(heap.kind[g])
        /\ heap.kind[g] \in {"INPUT", "TRUE", "FALSE", "NOT", "AND", "OR"}
    BY <1>2, <1>6 DEF HeapOK
  <2>2. Arity(heap.kind[g]) \in Nat /\ (heap.kind[g] \in {"INPUT", "TRUE", "FALSE"} => Arity(heap.kind[g]) = 0)
    BY <2>1 DEF Arity
  <2>3. Len(heap.in[g]) = Arity(heap.kind[g])
    <3> HIDE DEF g
    <3> QED
      BY <2>1, <2>2
  <2> HIDE DEF g, s
  <2> QED
    BY <1>1, <1>5, <2>1, <2>2, <2>3
<1>8. child \in Children(heap, g) /\ child = heap.in[g][s]
  BY <1>7 DEF child, Children, Range
<1>9. child \in Live(heap) /\ w[child].part = last
  BY <1>2, <1>6, <1>8 DEF HeapOK, Fitting
<1>10. heap.kind[g] = "NOT" => heap.kind[child] = "INPUT"
  <2> SUFFICES ASSUME heap.kind[g] = "NOT" PROVE heap.kind[child] = "INPUT"
    OBVIOUS
  <2>1. child = heap.in[g][1]
    BY <1>2, <1>6, <1>8, HeapFacts
  <2> QED
    BY <1>3, <1>5, <2>1 DEF WalkOK
<1> QED
  BY <1>1, <1>3, <1>4, <1>6, <1>7, <1>8, <1>9, <1>10

LEMMA PushNotDownKeeps ==
  ASSUME CopyInv, PushNotDown
  PROVE  CopyInv'
<1> DEFINE pins == Held(circuits) \cup {oldOutput}
           g == fr.gate
           s == fr.slot
           below == heap.in[child][1]
           asked == WithNegation(heap, below)
           j == DoubleNegation(asked, child).heap
           y == DoubleNegation(asked, child).gate
           k == [j EXCEPT !.in[g][s] = y]
<1>1. PICK w : Sound(w)
  BY DEF CopyInv
<1>2. /\ AtLink /\ MustGo(heap, child)
      /\ heap' = Keep(k, circuits, KeptOriginal)
      /\ UNCHANGED <<circuits, stack, oldOutput, phase, stripped, goal>>
  BY DEF PushNotDown
<1>3. phase = "walk" /\ heap.kind[child] = "NOT"
  BY <1>2 DEF AtLink, MustGo
<1>4. /\ HeapOK(heap) /\ Fitting(heap, w) /\ CircuitsOK(heap, w, circuits, goal)
      /\ StrippedOK(heap, w, circuits, stripped) /\ last \notin stripped
      /\ last \in Nat \ {0} /\ last \in 1 .. Len(circuits) /\ DOMAIN circuits = 1 .. last
      /\ TwinsOK(heap, w, last, pins)
      /\ circuits[last].output \in Live(heap) /\ w[circuits[last].output].part = last
      /\ w[circuits[last].output].value = goal
  BY <1>1, <1>3, Walking
<1>5. /\ WalkOK(heap, w, stack) /\ circuits[last].output \in heap.marked /\ stack # <<>>
      /\ fr = stack[1] /\ fr \in [gate : heap.marked, slot : Nat \ {0}]
      /\ g \in Live(heap) /\ w[g].part = last /\ heap.kind[g] \in {"AND", "OR"}
      /\ s \in DOMAIN heap.in[g] /\ child \in Live(heap) /\ w[child].part = last
      /\ child \in Children(heap, g) /\ child = heap.in[g][s]
  BY <1>1, <1>2, <1>3, LinkFacts
<1>6. below \in Live(heap) /\ w[below].part = last
  <2>1. below \in Live(heap) /\ below \in Children(heap, child)
    BY <1>3, <1>4, <1>5, HeapFacts
  <2> QED
    BY <1>4, <1>5, <2>1 DEF Fitting
<1>7. PICK v1 : Negated(heap, asked, w, v1, last, pins)
  <2> HIDE DEF below
  <2> QED
    BY <1>4, <1>6, NegationStep
<1> HIDE DEF asked
<1>8. /\ HeapOK(asked) /\ Fitting(asked, v1) /\ TwinsOK(asked, v1, last, pins)
      /\ child \in Live(asked) /\ v1[child] = w[child]
  BY <1>5, <1>7 DEF Negated
<1>9. PICK v : /\ Negated(asked, j, v1, v, last, pins) /\ y \in Live(j)
               /\ v[y].part = last /\ v[y].inputs = w[child].inputs /\ v[y].value = w[child].value
               /\ v[y].rank \in Nat /\ (v[y].rank <= 1 \/ v[y].rank <= w[child].rank)
  <2>1. v1[child].part = last
    BY <1>5, <1>8
  <2>2. \E v : /\ Negated(asked, j, v1, v, last, pins) /\ y \in Live(j)
               /\ v[y].part = last /\ v[y].inputs = v1[child].inputs /\ v[y].value = v1[child].value
               /\ v[y].rank \in Nat /\ (v[y].rank <= 1 \/ v[y].rank <= v1[child].rank)
    BY <1>4, <1>8, <2>1, DoubleNegationStep
  <2> QED
    BY <1>8, <2>2
<1> HIDE DEF j, y
<1>10. Negated(heap, j, w, v, last, pins)
  BY <1>7, <1>9, NegatedTwice
<1>11. /\ HeapOK(j) /\ Fitting(j, v) /\ TwinsOK(j, v, last, pins) /\ Live(heap) \subseteq Live(j)
       /\ \A x \in Live(heap) : j.kind[x] = heap.kind[x] /\ j.in[x] = heap.in[x] /\ v[x] = w[x]
       /\ \A x \in Live(j) \ Live(heap) : v[x].part = last /\ j.kind[x] # "INPUT"
       /\ j.marked = heap.marked
       /\ \A x \in DOMAIN heap.strong : x \in DOMAIN j.strong /\ j.strong[x] = heap.strong[x]
  BY <1>10 DEF Negated
<1>12. v[y].rank + 1 < v[g].rank
  <2>1. Fits(heap, w, g) /\ \A x \in Live(heap) : w[x].rank \in Nat
    BY <1>4, <1>5 DEF Fitting
  <2>2. child = heap.in[g][1] \/ child = heap.in[g][2]
    BY <1>4, <1>5, HeapFacts
  <2>3. w[g].rank > 2 /\ w[g].rank > w[child].rank + 1
    BY <1>5, <2>1, <2>2 DEF Fits
  <2>4. w[child].rank \in Nat /\ w[g].rank \in Nat /\ v[g] = w[g]
    BY <1>5, <1>11, <2>1
  <2> HIDE DEF g
  <2> QED
    BY <1>9, <2>3, <2>4
<1>13. /\ HeapOK(k) /\ Fitting(k, v) /\ TwinsOK(k, v, last, pins)
       /\ Live(k) = Live(j) /\ k.kind = j.kind /\ k.strong = j.strong /\ k.marked = j.marked
       /\ \A x \in Live(j) : x # g => k.in[x] = j.in[x]
       /\ DOMAIN k.in[g] = DOMAIN j.in[g] /\ \A r \in DOMAIN j.in[g] : r # s => k.in[g][r] = j.in[g][r]
  <2>1. /\ g \in Live(j) /\ j.kind[g] \in {"AND", "OR"} /\ v[g].part = last
        /\ s \in DOMAIN j.in[g] /\ j.in[g][s] = child
        /\ v[y].inputs = v[j.in[g][s]].inputs /\ v[y].value = v[j.in[g][s]].value
    <3> HIDE DEF g, s
    <3>1. v[child] = w[child] /\ j.in[g] = heap.in[g] /\ v[g] = w[g] /\ j.kind[g] = heap.kind[g]
      BY <1>5, <1>11
    <3> QED
      BY <1>5, <1>9, <1>11, <3>1
  <2>2. /\ HeapOK(j) /\ Fitting(j, v) /\ TwinsOK(j, v, last, pins)
        /\ y \in Live(j) /\ v[y].part = last
    BY <1>9, <1>11
  <2> HIDE DEF g, s, pins
  <2>3. v[y].rank + 1 < v[g].rank
    BY <1>12
  <2>4. k = [j EXCEPT !.in[g][s] = y]
    OBVIOUS
  <2> HIDE DEF k
  <2> QED
    BY <2>1, <2>2, <2>3, <2>4, Relinked
<1> HIDE DEF k
<1>14. heap' = k
  <2> DEFINE kept == Held(circuits) \cup KeptOriginal \cup {f.gate : f \in Range(stack)}
  <2>1. heap' = Release(k, kept)
    BY <1>2 DEF Keep
  <2>2. \A x \in pins : x \in Live(k) /\ v[x].part # last => x \in kept
    BY DEF KeptOriginal
  <2> HIDE DEF kept
  <2>3. Release(k, kept) = k
    BY <1>13, <2>2, TwinsOwn
  <2> QED
    BY <2>1, <2>3
<1>15. Changed(heap, w, k, v, last)
  <2>1. \A x \in Live(heap) : w[x].part # last => x # g
    BY <1>5
  <2> QED
    BY <1>11, <1>13, <2>1 DEF Changed
<1>16. CircuitsOK(k, v, circuits, goal) /\ StrippedOK(k, v, circuits, stripped)
  <2> DEFINE out == circuits[last].output
  <2>1. SameBut(circuits, circuits, last)
    BY DEF SameBut
  <2>2. /\ out \in Live(k) /\ v[out].part = last /\ v[out].inputs = w[out].inputs
        /\ v[out].value = goal
    BY <1>4, <1>11, <1>13
  <2> QED
    BY <1>4, <1>15, <2>1, <2>2, CircuitsStay
<1>17. WalkOK(k, v, stack)
  <2>1. /\ k.marked = heap.marked
        /\ \A x \in Live(heap) : k.kind[x] = heap.kind[x] /\ v[x] = w[x]
        /\ \A x \in DOMAIN heap.strong : x \in DOMAIN k.strong /\ k.strong[x] = heap.strong[x]
    BY <1>11, <1>13
  <2>2. stack[1].gate = g /\ stack[1].slot = s /\ heap.kind[g] # "NOT"
    BY <1>5
  <2>3. ASSUME NEW x \in Live(heap)
        PROVE  /\ x # stack[1].gate \/ heap.kind[x] = "NOT" => k.in[x] = heap.in[x]
               /\ DOMAIN k.in[x] = DOMAIN heap.in[x]
               /\ \A r \in DOMAIN heap.in[x] :
                    x # stack[1].gate \/ r # stack[1].slot => k.in[x][r] = heap.in[x][r]
    <3>1. CASE x = g
      BY <1>11, <1>13, <2>2, <3>1
    <3>2. CASE x # g
      BY <1>11, <1>13, <2>2, <3>2
    <3> QED
      BY <3>1, <3>2
  <2> QED
    BY <1>4, <1>5, <2>1, <2>3, WalkStays
<1>18. /\ HeapOK(heap') /\ Fitting(heap', v) /\ CircuitsOK(heap', v, circuits', goal')
       /\ StrippedOK(heap', v, circuits', stripped') /\ last' = last /\ last' \notin stripped'
       /\ WalkOK(heap', v, stack') /\ phase' = "walk"
  BY <1>2, <1>3, <1>4, <1>13, <1>14, <1>16, <1>17 DEF last
<1>19. TwinsOK(heap', v, last', Held(circuits') \cup {oldOutput'})
  BY <1>2, <1>13, <1>14, <1>18
<1>20. circuits'[last'].output \in heap'.marked
  BY <1>2, <1>5, <1>11, <1>13, <1>14, <1>18
<1> QED
  BY <1>18, <1>19, <1>20 DEF CopyInv, Sound, Idle, Stripping

\* The twin of an input is the NOT gate above it that may stay.
LEMMA TwinOfInput ==
  ASSUME NEW h, HeapOK(h), NEW w, Fitting(h, w), NEW p, NEW pins, TwinsOK(h, w, p, pins),
         NEW c \in Live(h), h.kind[c] = "NOT", NEW b \in Live(h), b = h.in[c][1],
         b \in Twinned(h), w[b].part = p, Twin(h, b) = c
  PROVE  h.kind[b] = "INPUT" /\ b \in DOMAIN h.strong /\ h.strong[b] = c
<1>1. Twinned(h) = DOMAIN h.strong \cup DOMAIN h.weak
  BY DEF Twinned
<1>2. CASE b \notin DOMAIN h.strong
  <2>1. b \in DOMAIN h.weak /\ c = h.weak[b]
    BY <1>1, <1>2 DEF Twin
  <2>2. h.kind[h.weak[b]] # "NOT"
    BY <2>1 DEF TwinsOK, WeakOK
  <2> QED
    BY <2>1, <2>2
<1>3. CASE b \in DOMAIN h.strong
  <2>1. h.strong[b] = c
    BY <1>3 DEF Twin
  <2>2. /\ h.kind[b] = "NOT" => c = h.in[b][1]
        /\ h.kind[b] \notin {"NOT", "INPUT"} => h.kind[c] = Negation(h.kind[b])
    BY <1>3, <2>1 DEF TwinsOK, StrongOK
  <2>3. /\ h.kind[b] \in {"INPUT", "TRUE", "FALSE", "NOT", "AND", "OR"}
        /\ Fits(h, w, b) /\ Fits(h, w, c) /\ w[b].rank \in Nat /\ w[c].rank \in Nat
    BY DEF HeapOK, Fitting
  <2>4. CASE h.kind[b] = "NOT"
    <3>1. w[b].rank > w[c].rank
      BY <2>2, <2>3, <2>4 DEF Fits
    <3>2. w[c].rank > w[b].rank
      BY <2>3 DEF Fits
    <3> QED
      BY <2>3, <3>1, <3>2
  <2>5. CASE h.kind[b] \notin {"NOT", "INPUT"}
    <3>1. Negation(h.kind[b]) # "NOT"
      BY <2>3, <2>5 DEF Negation, Dual
    <3> QED
      BY <2>2, <2>5, <3>1
  <2> QED
    BY <1>3, <2>1, <2>4, <2>5
<1> QED
  BY <1>2, <1>3

\* The walk is at slot s of g, with c below it, that may stay.
WalkAt(h, st, g, s, c) ==
  /\ st # <<>> /\ g = st[1].gate /\ s = st[1].slot
  /\ g \in Live(h) /\ s \in DOMAIN h.in[g] /\ c \in Live(h) /\ c = h.in[g][s]
  /\ h.kind[g] \in {"NOT", "AND", "OR"}
  /\ h.kind[c] = "NOT" => /\ h.kind[h.in[c][1]] = "INPUT" /\ h.in[c][1] \in DOMAIN h.strong
                          /\ h.strong[h.in[c][1]] = c

\* j is h with c marked.
IsMarked(h, j, c) ==
  /\ Live(j) = Live(h) /\ j.kind = h.kind /\ j.in = h.in /\ j.strong = h.strong
  /\ j.marked = h.marked \cup {c} /\ HeapOK(j)

\* The walk goes down the link it is at, and will go on with the next one.
LEMMA WalkOn ==
  ASSUME NEW h, HeapOK(h), NEW w, Fitting(h, w), NEW st, WalkOK(h, w, st),
         NEW g, NEW s, NEW c, WalkAt(h, st, g, s, c), NEW j, IsMarked(h, j, c)
  PROVE  WalkOK(j, w, Enter(h, c) \o <<[st[1] EXCEPT !.slot = @ + 1]>> \o Tail(st))
<1> DEFINE S == [gate : j.marked, slot : Nat \ {0}]
           a == [st[1] EXCEPT !.slot = @ + 1]
           b == [gate |-> c, slot |-> 1]
           t == <<a>> \o Tail(st)
<1>0. /\ st # <<>> /\ g = st[1].gate /\ s = st[1].slot /\ j.marked = h.marked \cup {c}
  BY DEF WalkAt, IsMarked
<1>1. st \in Seq([gate : h.marked, slot : Nat \ {0}]) /\ h.marked \subseteq Live(h)
  BY DEF WalkOK, HeapOK
<1>2. st \in Seq(S)
  <2>1. [gate : h.marked, slot : Nat \ {0}] \subseteq S
    BY <1>0
  <2> DEFINE A == [gate : h.marked, slot : Nat \ {0}]
  <2> HIDE DEF S, A
  <2>2. A \subseteq S /\ st \in Seq(A)
    BY <1>1, <2>1 DEF A
  <2> QED
    BY <2>2
<1>3. Len(st) \in Nat \ {0} /\ \A i \in 1 .. Len(st) : st[i] \in [gate : h.marked, slot : Nat \ {0}]
  BY <1>0, <1>1, NotEmpty
<1>4. /\ st[1] \in [gate : h.marked, slot : Nat \ {0}] /\ 1 \in 1 .. Len(st)
      /\ g \in h.marked /\ s \in Nat \ {0}
  <2>1. 1 \in 1 .. Len(st)
    BY <1>3
  <2>2. st[1] \in [gate : h.marked, slot : Nat \ {0}]
    BY <1>3, <2>1
  <2> QED
    BY <1>0, <2>1, <2>2
<1>5. a \in S /\ a.gate = g /\ a.slot = s + 1
  BY <1>0, <1>4
<1>6. b \in S /\ b.gate = c /\ b.slot = 1
  BY <1>0
<1> HIDE DEF S, a, b
<1>7. /\ t \in Seq(S) /\ Len(t) = Len(st) /\ t[1] = a
      /\ \A i \in 2 .. Len(st) : t[i] = st[i]
  <2>1. /\ Tail(st) \in Seq(S) /\ Len(Tail(st)) = Len(st) - 1
        /\ \A i \in 1 .. Len(st) - 1 : Tail(st)[i] = st[i + 1]
    BY <1>0, <1>2, TailFacts
  <2>2. /\ t \in Seq(S) /\ Len(t) = Len(Tail(st)) + 1 /\ t[1] = a
        /\ \A i \in 1 .. Len(Tail(st)) : t[i + 1] = Tail(st)[i]
    BY <1>5, <2>1, PushFacts
  <2> HIDE DEF t
  <2>3. ASSUME NEW i \in 2 .. Len(st) PROVE t[i] = st[i]
    <3>1. i - 1 \in 1 .. Len(st) - 1 /\ (i - 1) + 1 = i
      BY <1>3
    <3> QED
      BY <2>1, <2>2, <3>1
  <2> QED
    BY <1>3, <2>1, <2>2, <2>3
<1> HIDE DEF t
<1>8. \A i \in 1 .. Len(st) : t[i].gate = st[i].gate /\ t[i].slot \in Nat
  <2> SUFFICES ASSUME NEW i \in 1 .. Len(st)
               PROVE  t[i].gate = st[i].gate /\ t[i].slot \in Nat
    OBVIOUS
  <2>1. CASE i = 1
    BY <1>0, <1>4, <1>5, <1>7, <2>1
  <2>2. CASE i # 1
    <3>1. i \in 2 .. Len(st) /\ st[i].slot \in Nat
      BY <1>3, <2>2
    <3> QED
      BY <1>7, <3>1
  <2> QED
    BY <2>1, <2>2
<1>9. ASSUME NEW x \in h.marked, NEW r \in DOMAIN h.in[x]
      PROVE  Settled(j, x, r) \/ \E i \in 1 .. Len(t) : t[i].gate = x /\ t[i].slot <= r
  <2>1. Settled(h, x, r) \/ \E i \in 1 .. Len(st) : st[i].gate = x /\ st[i].slot <= r
    BY DEF WalkOK
  <2>2. CASE Settled(h, x, r)
    BY <2>2 DEF Settled, IsMarked
  <2>3. CASE x = g /\ r = s
    BY <2>3 DEF Settled, IsMarked, WalkAt
  <2>4. ASSUME NEW i \in 1 .. Len(st), st[i].gate = x, st[i].slot <= r, ~(x = g /\ r = s)
        PROVE  \E k \in 1 .. Len(t) : t[k].gate = x /\ t[k].slot <= r
    <3>1. CASE i = 1
      <4>1. r \in Nat
        <5>1. DOMAIN h.in[x] = 1 .. Arity(h.kind[x])
          BY <1>1 DEF HeapOK
        <5> QED
          BY <5>1
      <4>2. x = g /\ s <= r /\ r # s
        BY <1>0, <2>4, <3>1
      <4>3. s + 1 <= r
        BY <1>4, <4>1, <4>2
      <4> QED
        BY <1>4, <1>5, <1>7, <4>2, <4>3
    <3>2. CASE i # 1
      <4>1. i \in 2 .. Len(st)
        BY <1>3, <3>2
      <4> QED
        BY <1>7, <2>4, <4>1
    <3> QED
      BY <3>1, <3>2
  <2> QED
    BY <2>1, <2>2, <2>3, <2>4
<1>10. \A i, k \in 1 .. Len(st) : i < k => w[st[i].gate].rank < w[st[k].gate].rank
  BY DEF WalkOK
<1>11. \A x \in j.marked : j.kind[x] = "NOT" => j.kind[j.in[x][1]] = "INPUT"
  BY DEF WalkOK, IsMarked, WalkAt
<1>12. CASE c \in h.marked
  <2>1. Enter(h, c) \o <<a>> \o Tail(st) = t
    <3>1. Enter(h, c) = <<>> /\ <<a>> \in Seq(S)
      BY <1>5, <1>12 DEF Enter
    <3>2. Enter(h, c) \o <<a>> = <<a>>
      BY <3>1
    <3> QED
      BY <3>2 DEF t
  <2>2. j.marked = h.marked
    BY <1>0, <1>12
  <2>3. \A i, k \in 1 .. Len(t) : i < k => w[t[i].gate].rank < w[t[k].gate].rank
    BY <1>7, <1>8, <1>10
  <2>4. WalkOK(j, w, t)
    BY <1>7, <1>9, <1>11, <2>2, <2>3 DEF WalkOK, S, IsMarked
  <2> QED
    BY <2>1, <2>4 DEF a
<1>13. CASE c \notin h.marked
  <2> DEFINE u == <<b>> \o t
  <2>1. Enter(h, c) \o <<a>> \o Tail(st) = u
    <3>1. Enter(h, c) = <<b>>
      BY <1>13 DEF Enter, b
    <3>2. Tail(st) \in Seq(S)
      BY <1>0, <1>2, TailFacts
    <3>3. <<b>> \o <<a>> \o Tail(st) = <<b>> \o (<<a>> \o Tail(st))
      BY <1>5, <1>6, <3>2, PushTwice
    <3> QED
      BY <3>1, <3>3 DEF t
  <2>2. /\ u \in Seq(S) /\ Len(u) = Len(t) + 1 /\ u[1] = b
        /\ \A i \in 1 .. Len(t) : u[i + 1] = t[i]
    BY <1>6, <1>7, PushFacts
  <2> HIDE DEF u
  <2>3. w[c].rank < w[g].rank /\ w[c].rank \in Nat /\ w[g].rank \in Nat
    <3>0. g \in Live(h) /\ s \in DOMAIN h.in[g] /\ c = h.in[g][s]
      BY DEF WalkAt
    <3>1. Fits(h, w, g) /\ w[c].rank \in Nat /\ w[g].rank \in Nat
      BY DEF Fitting, WalkAt
    <3>2. CASE h.kind[g] = "NOT"
      <4>1. c = h.in[g][1]
        <5>1. DOMAIN h.in[g] = {1}
          BY <3>0, <3>2, HeapFacts
        <5> QED
          BY <3>0, <5>1
      <4> QED
        BY <3>1, <3>2, <4>1 DEF Fits
    <3>3. CASE h.kind[g] \in {"AND", "OR"}
      <4>1. (c = h.in[g][1] \/ c = h.in[g][2]) /\ h.in[g][1] \in Live(h) /\ h.in[g][2] \in Live(h)
        <5>1. DOMAIN h.in[g] = {1, 2} /\ h.in[g][1] \in Live(h) /\ h.in[g][2] \in Live(h)
          BY <3>0, <3>3, HeapFacts
        <5> QED
          BY <3>0, <5>1
      <4>2. w[g].rank > w[h.in[g][1]].rank + 1 /\ w[g].rank > w[h.in[g][2]].rank + 1
        BY <3>1, <3>3 DEF Fits
      <4> QED
        BY <3>1, <4>1, <4>2
    <3> QED
      BY <3>1, <3>2, <3>3 DEF WalkAt
  <2>4. ASSUME NEW i \in 1 .. Len(t)
        PROVE  w[c].rank < w[t[i].gate].rank
    <3>1. CASE i = 1
      BY <1>0, <1>5, <1>7, <2>3, <3>1
    <3>2. CASE i # 1
      <4>1. 1 < i /\ i \in 1 .. Len(st)
        BY <1>3, <1>7, <3>2
      <4>2. w[st[1].gate].rank < w[st[i].gate].rank
        BY <1>4, <1>10, <4>1
      <4>3. w[t[i].gate].rank \in Nat
        <5>1. t[i].gate = st[i].gate /\ st[i].gate \in h.marked
          BY <1>3, <1>8, <4>1
        <5> QED
          BY <1>1, <5>1 DEF Fitting
      <4> QED
        BY <1>0, <1>8, <2>3, <4>1, <4>2, <4>3
    <3> QED
      BY <3>1, <3>2
  <2>5. ASSUME NEW i \in 1 .. Len(u), NEW k \in 1 .. Len(u), i < k
        PROVE  w[u[i].gate].rank < w[u[k].gate].rank
    <3>1. k - 1 \in 1 .. Len(t) /\ u[k] = t[k - 1]
      <4>1. k - 1 \in 1 .. Len(t) /\ (k - 1) + 1 = k
        BY <1>3, <1>7, <2>2, <2>5
      <4> QED
        BY <2>2, <4>1
    <3>2. CASE i = 1
      BY <1>6, <2>2, <2>4, <3>1, <3>2
    <3>3. CASE i # 1
      <4>1. i - 1 \in 1 .. Len(t) /\ u[i] = t[i - 1] /\ i - 1 < k - 1
        <5>1. i - 1 \in 1 .. Len(t) /\ (i - 1) + 1 = i /\ i - 1 < k - 1
          BY <1>3, <1>7, <2>2, <2>5, <3>3
        <5> QED
          BY <2>2, <5>1
      <4>2. \A m, n \in 1 .. Len(t) : m < n => w[t[m].gate].rank < w[t[n].gate].rank
        BY <1>7, <1>8, <1>10
      <4> QED
        BY <3>1, <4>1, <4>2
    <3> QED
      BY <3>2, <3>3
  <2>6. ASSUME NEW x \in j.marked, NEW r \in DOMAIN j.in[x]
        PROVE  Settled(j, x, r) \/ \E i \in 1 .. Len(u) : u[i].gate = x /\ u[i].slot <= r
    <3>0. Len(t) \in Nat
      BY <1>3, <1>7
    <3>1. CASE x \in h.marked
      <4>0. j.in = h.in
        BY DEF IsMarked
      <4>1. ASSUME NEW i \in 1 .. Len(t), t[i].gate = x, t[i].slot <= r
            PROVE  \E k \in 1 .. Len(u) : u[k].gate = x /\ u[k].slot <= r
        <5>1. i + 1 \in 1 .. Len(u) /\ u[i + 1] = t[i]
          BY <2>2, <3>0
        <5> QED
          BY <4>1, <5>1
      <4> QED
        BY <1>9, <3>1, <4>0, <4>1
    <3>2. CASE x = c
      <4>1. r \in Nat /\ 1 <= r
        <5>1. DOMAIN j.in[x] = 1 .. Arity(j.kind[x])
          BY <3>2 DEF HeapOK, IsMarked, WalkAt
        <5> QED
          BY <5>1
      <4>2. 1 \in 1 .. Len(u) /\ u[1].gate = c /\ u[1].slot = 1
        BY <1>6, <2>2, <3>0
      <4> QED
        BY <3>2, <4>1, <4>2
    <3> QED
      BY <1>0, <3>1, <3>2
  <2>7. WalkOK(j, w, u)
    BY <1>11, <2>2, <2>5, <2>6 DEF WalkOK, S
  <2> QED
    BY <2>1, <2>7 DEF a
<1> QED
  BY <1>12, <1>13

LEMMA DescendKeeps ==
  ASSUME CopyInv, Descend
  PROVE  CopyInv'
<1> DEFINE pins == Held(circuits) \cup {oldOutput}
           g == fr.gate
           s == fr.slot
           below == heap.in[child][1]
           h == IF heap.kind[child] = "NOT" THEN WithNegation(heap, below) ELSE heap
           j == Mark(h, child)
           st == Enter(heap, child) \o <<[fr EXCEPT !.slot = @ + 1]>> \o Tail(stack)
<1>1. PICK w : Sound(w)
  BY DEF CopyInv
<1>2. /\ AtLink /\ ~MustGo(heap, child) /\ stack' = st /\ heap' = j
      /\ UNCHANGED <<circuits, oldOutput, phase, stripped, goal>>
  BY DEF Descend
<1>3. phase = "walk"
  BY <1>2 DEF AtLink
<1>4. /\ HeapOK(heap) /\ Fitting(heap, w) /\ CircuitsOK(heap, w, circuits, goal)
      /\ StrippedOK(heap, w, circuits, stripped) /\ last \notin stripped
      /\ last \in Nat \ {0} /\ last \in 1 .. Len(circuits) /\ DOMAIN circuits = 1 .. last
      /\ TwinsOK(heap, w, last, pins)
      /\ circuits[last].output \in Live(heap) /\ w[circuits[last].output].part = last
      /\ w[circuits[last].output].value = goal
  BY <1>1, <1>3, Walking
<1>5. /\ WalkOK(heap, w, stack) /\ circuits[last].output \in heap.marked /\ stack # <<>>
      /\ fr = stack[1] /\ fr \in [gate : heap.marked, slot : Nat \ {0}]
      /\ g \in Live(heap) /\ w[g].part = last /\ heap.kind[g] \in {"NOT", "AND", "OR"}
      /\ s \in DOMAIN heap.in[g] /\ child \in Live(heap) /\ w[child].part = last
      /\ child = heap.in[g][s]
  BY <1>1, <1>2, LinkFacts
<1>6. heap.kind[child] = "NOT" => below \in Live(heap) /\ w[below].part = last
  <2> SUFFICES ASSUME heap.kind[child] = "NOT" PROVE below \in Live(heap) /\ w[below].part = last
    OBVIOUS
  <2>1. below \in Live(heap) /\ below \in Children(heap, child)
    BY <1>4, <1>5, HeapFacts
  <2> QED
    BY <1>4, <1>5, <2>1 DEF Fitting
<1> HIDE DEF below
<1>7. PICK v : Negated(heap, h, w, v, last, pins)
  <2>1. CASE heap.kind[child] = "NOT"
    BY <1>4, <1>6, <2>1, NegationStep
  <2>2. CASE heap.kind[child] # "NOT"
    <3>1. Negated(heap, heap, w, w, last, pins)
      BY <1>4 DEF Negated
    <3> QED
      BY <2>2, <3>1
  <2> QED
    BY <2>1, <2>2
<1>8. /\ HeapOK(h) /\ Fitting(h, v) /\ TwinsOK(h, v, last, pins) /\ Live(heap) \subseteq Live(h)
      /\ \A x \in Live(heap) : h.kind[x] = heap.kind[x] /\ h.in[x] = heap.in[x] /\ v[x] = w[x]
      /\ \A x \in Live(h) \ Live(heap) : v[x].part = last /\ h.kind[x] # "INPUT"
      /\ h.marked = heap.marked
      /\ \A x \in DOMAIN heap.strong : x \in DOMAIN h.strong /\ h.strong[x] = heap.strong[x]
  BY <1>7 DEF Negated
<1>9. heap.kind[child] = "NOT" =>
        h.kind[below] = "INPUT" /\ below \in DOMAIN h.strong /\ h.strong[below] = child
  <2> SUFFICES ASSUME heap.kind[child] = "NOT"
               PROVE  h.kind[below] = "INPUT" /\ below \in DOMAIN h.strong /\ h.strong[below] = child
    OBVIOUS
  <2>1. h = WithNegation(heap, below)
    OBVIOUS
  <2>2. Twin(h, below) = child
    BY <1>2, <2>1 DEF MustGo, OverItsInput, below
  <2>3. below \in Twinned(h)
    BY <1>4, <1>6, <2>1, NegationStep
  <2>4. /\ child \in Live(h) /\ h.kind[child] = "NOT" /\ below \in Live(h)
        /\ below = h.in[child][1] /\ v[below].part = last
    BY <1>5, <1>6, <1>8 DEF below
  <2> HIDE DEF h
  <2> QED
    BY <1>8, <2>2, <2>3, <2>4, TwinOfInput
<1> HIDE DEF h
<1>10. Changed(heap, w, h, v, last)
  BY <1>8 DEF Changed
<1>11. CircuitsOK(h, v, circuits, goal) /\ StrippedOK(h, v, circuits, stripped)
  <2> DEFINE out == circuits[last].output
  <2>1. SameBut(circuits, circuits, last)
    BY DEF SameBut
  <2>2. /\ out \in Live(h) /\ v[out].part = last /\ v[out].inputs = w[out].inputs
        /\ v[out].value = goal
    BY <1>4, <1>8
  <2> QED
    BY <1>4, <1>10, <2>1, <2>2, CircuitsStay
<1>12. WalkOK(h, v, stack)
  BY <1>4, <1>5, <1>8, WalkStays
<1>13. /\ HeapOK(j) /\ Fitting(j, v) /\ TwinsOK(j, v, last, pins)
       /\ CircuitsOK(j, v, circuits, goal) /\ StrippedOK(j, v, circuits, stripped)
       /\ IsMarked(h, j, child)
  <2>1. child \in Live(h) /\ v[child].part = last
    BY <1>5, <1>8
  <2>2. /\ HeapOK(j) /\ Fitting(j, v) /\ TwinsOK(j, v, last, pins)
        /\ CircuitsOK(j, v, circuits, goal) /\ StrippedOK(j, v, circuits, stripped)
        /\ Live(j) = Live(h) /\ j.kind = h.kind /\ j.in = h.in /\ j.strong = h.strong
        /\ j.marked = h.marked \cup {child}
    BY <1>8, <1>11, <2>1, MarkFacts
  <2> QED
    BY <2>2 DEF IsMarked
<1> HIDE DEF j
<1>14. WalkOK(j, v, st)
  <2>1. WalkAt(h, stack, g, s, child)
    BY <1>5, <1>8, <1>9 DEF WalkAt, below
  <2>2. Enter(heap, child) = Enter(h, child)
    BY <1>8 DEF Enter
  <2>3. WalkOK(j, v, Enter(h, child) \o <<[stack[1] EXCEPT !.slot = @ + 1]>> \o Tail(stack))
    BY <1>8, <1>12, <1>13, <2>1, WalkOn
  <2> QED
    BY <1>5, <2>2, <2>3
<1>15. /\ HeapOK(heap') /\ Fitting(heap', v) /\ CircuitsOK(heap', v, circuits', goal')
       /\ StrippedOK(heap', v, circuits', stripped') /\ last' = last /\ last' \notin stripped'
       /\ WalkOK(heap', v, stack') /\ phase' = "walk"
  <2> HIDE DEF st
  <2> QED
    BY <1>2, <1>3, <1>4, <1>13, <1>14 DEF last
<1>16. TwinsOK(heap', v, last', Held(circuits') \cup {oldOutput'})
  BY <1>2, <1>13, <1>15
<1>17. circuits'[last'].output \in heap'.marked
  BY <1>2, <1>5, <1>8, <1>13, <1>15 DEF IsMarked
<1> QED
  BY <1>15, <1>16, <1>17 DEF CopyInv, Sound, Idle, Stripping

LEMMA ReturnKeeps ==
  ASSUME CopyInv, Return
  PROVE  CopyInv'
<1> DEFINE S == [gate : heap.marked, slot : Nat \ {0}]
<1>1. PICK w : Sound(w)
  BY DEF CopyInv
<1>2. /\ phase = "walk" /\ stack # <<>> /\ fr.slot > Len(heap.in[fr.gate])
      /\ stack' = Tail(stack)
      /\ UNCHANGED <<heap, circuits, oldOutput, phase, stripped, goal>>
  BY DEF Return
<1>3. /\ HeapOK(heap) /\ Fitting(heap, w) /\ CircuitsOK(heap, w, circuits, goal)
      /\ StrippedOK(heap, w, circuits, stripped) /\ last \notin stripped
      /\ TwinsOK(heap, w, last, Held(circuits) \cup {oldOutput})
  BY <1>1, <1>2, Walking
<1>4. WalkOK(heap, w, stack) /\ circuits[last].output \in heap.marked
  BY <1>1, <1>2 DEF Sound, Stripping
<1>5. stack \in Seq(S)
  BY <1>4 DEF WalkOK
<1> HIDE DEF S
<1>6. /\ Len(stack) \in Nat \ {0} /\ fr = stack[1] /\ \A i \in 1 .. Len(stack) : stack[i] \in S
      /\ Tail(stack) \in Seq(S) /\ Len(Tail(stack)) = Len(stack) - 1
      /\ \A i \in 1 .. Len(stack) - 1 : Tail(stack)[i] = stack[i + 1]
  BY <1>2, <1>5, NotEmpty, TailFacts DEF fr
<1>7. fr \in S
  BY <1>6
<1>8. ASSUME NEW x \in heap.marked, NEW r \in DOMAIN heap.in[x]
      PROVE  \/ Settled(heap, x, r)
             \/ \E i \in 1 .. Len(Tail(stack)) : Tail(stack)[i].gate = x /\ Tail(stack)[i].slot <= r
  <2>1. ASSUME NEW i \in 1 .. Len(stack), stack[i].gate = x, stack[i].slot <= r
        PROVE  \E k \in 1 .. Len(Tail(stack)) : Tail(stack)[k].gate = x /\ Tail(stack)[k].slot <= r
    <3>1. i # 1
      <4> SUFFICES ASSUME i = 1 PROVE FALSE
        OBVIOUS
      <4>1. fr.gate = x /\ fr.slot <= r /\ fr.slot \in Nat
        BY <1>6, <1>7, <2>1 DEF S
      <4>2. DOMAIN heap.in[x] = 1 .. Arity(heap.kind[x]) /\ Arity(heap.kind[x]) \in Nat
        <5>1. x \in Live(heap)
          BY <1>3 DEF HeapOK
        <5>2. heap.kind[x] \in {"INPUT", "TRUE", "FALSE", "NOT", "AND", "OR"}
              /\ DOMAIN heap.in[x] = 1 .. Arity(heap.kind[x])
          BY <1>3, <5>1 DEF HeapOK
        <5> QED
          BY <5>2 DEF Arity
      <4>3. Len(heap.in[x]) = Arity(heap.kind[x])
        BY <4>2
      <4> QED
        BY <1>2, <4>1, <4>2, <4>3
    <3>2. i - 1 \in 1 .. Len(Tail(stack)) /\ (i - 1) + 1 = i /\ i - 1 \in 1 .. Len(stack) - 1
      BY <1>6, <3>1
    <3>3. Tail(stack)[i - 1] = stack[i]
      BY <1>6, <3>2
    <3> QED
      BY <2>1, <3>2, <3>3
  <2> QED
    BY <1>4, <2>1 DEF WalkOK
<1>9. \A i, k \in 1 .. Len(Tail(stack)) :
        i < k => w[Tail(stack)[i].gate].rank < w[Tail(stack)[k].gate].rank
  <2> SUFFICES ASSUME NEW i \in 1 .. Len(Tail(stack)), NEW k \in 1 .. Len(Tail(stack)), i < k
               PROVE  w[Tail(stack)[i].gate].rank < w[Tail(stack)[k].gate].rank
    OBVIOUS
  <2>1. /\ i + 1 \in 1 .. Len(stack) /\ k + 1 \in 1 .. Len(stack) /\ i + 1 < k + 1
        /\ i \in 1 .. Len(stack) - 1 /\ k \in 1 .. Len(stack) - 1
    BY <1>6
  <2>2. w[stack[i + 1].gate].rank < w[stack[k + 1].gate].rank
    BY <1>4, <2>1 DEF WalkOK
  <2> QED
    BY <1>6, <2>1, <2>2
<1>10. WalkOK(heap, w, Tail(stack))
  BY <1>4, <1>6, <1>8, <1>9 DEF WalkOK, S
<1>11. /\ HeapOK(heap') /\ Fitting(heap', w) /\ CircuitsOK(heap', w, circuits', goal')
       /\ StrippedOK(heap', w, circuits', stripped') /\ last' = last /\ last' \notin stripped'
       /\ WalkOK(heap', w, stack') /\ phase' = "walk"
       /\ TwinsOK(heap', w, last', Held(circuits') \cup {oldOutput'})
       /\ circuits'[last'].output \in heap'.marked
  BY <1>2, <1>3, <1>4, <1>10 DEF last
<1> QED
  BY <1>11 DEF CopyInv, Sound, Idle, Stripping

-----------------------------------------------------------------------------
(* Copies.                                                                 *)

\* The parts of the heap get new numbers, each as a whole.
Renumbers(h, part) ==
  /\ DOMAIN part = Live(h)
  /\ \A x \in Live(h) : part[x] \in Nat /\ \A c \in Children(h, x) : part[c] = part[x]

\* What is known after the gates in C are copied to part q.
CopyKnows(h, w, j, v, C, part, q) ==
  /\ Fitting(j, v)
  /\ \A x \in Live(h) : Alike(w, x, v, x) /\ v[x].part = part[x]
  /\ \A x \in C : /\ v[h.next + x].part = q /\ v[h.next + x].value = w[x].value
                  /\ v[h.next + x].inputs = {h.next + i : i \in w[x].inputs}

LEMMA CopyKnown ==
  ASSUME NEW h, HeapOK(h), NEW w, Fitting(h, w), NEW C \in SUBSET Live(h), Downward(h, C),
         NEW j, CopiedHeap(h, j, C), NEW part, Renumbers(h, part), NEW q \in Nat
  PROVE  \E v : CopyKnows(h, w, j, v, C, part, q)
<1> DEFINE n == h.next
           Old(x) == [rank |-> w[x].rank, part |-> part[x], inputs |-> w[x].inputs, value |-> w[x].value]
           New(x) == [rank |-> w[x].rank, part |-> q, inputs |-> {n + i : i \in w[x].inputs},
                      value |-> w[x].value]
           new == {n + x : x \in C}
           v == [x \in Live(h) \cup new |-> IF x \in Live(h) THEN Old(x) ELSE New(x - n)]
<1>1. /\ HeapOK(j) /\ Live(j) = Live(h) \cup new
      /\ \A x \in C : n + x \notin Live(h)
      /\ \A x \in Live(h) : /\ j.kind[x] = h.kind[x] /\ j.in[x] = h.in[x]
                            /\ h.kind[x] = "INPUT" => j.id[x] = h.id[x]
      /\ \A x \in C : /\ j.kind[n + x] = h.kind[x] /\ DOMAIN j.in[n + x] = DOMAIN h.in[x]
                      /\ \A s \in DOMAIN h.in[x] : j.in[n + x][s] = n + h.in[x][s]
                      /\ h.kind[x] = "INPUT" => j.id[n + x] = h.id[x]
  BY DEF CopiedHeap
<1>2. \A x \in Live(h) : x \in Nat \ {0} /\ n \in Nat
  BY HeapFacts DEF HeapOK
<1>3. /\ \A x \in Live(h) : v[x] = Old(x)
      /\ \A x \in C : v[n + x] = New(x)
      /\ DOMAIN v = Live(j)
  <2>1. \A x \in C : (n + x) - n = x /\ n + x \in new
    BY <1>2
  <2> HIDE DEF Old, New
  <2> QED
    BY <1>1, <2>1
<1> HIDE DEF v
<1>4. \A x \in Live(h) : Alike(w, x, v, x) /\ v[x].part = part[x]
  <2>1. \A x : /\ Old(x).rank = w[x].rank /\ Old(x).part = part[x] /\ Old(x).inputs = w[x].inputs
               /\ Old(x).value = w[x].value
    OBVIOUS
  <2> HIDE DEF Old
  <2> QED
    BY <1>3, <2>1 DEF Alike
<1>5. \A x \in C : /\ v[n + x].rank = w[x].rank /\ v[n + x].part = q /\ v[n + x].value = w[x].value
                   /\ v[n + x].inputs = {n + i : i \in w[x].inputs}
  <2>1. \A x : /\ New(x).rank = w[x].rank /\ New(x).part = q /\ New(x).value = w[x].value
               /\ New(x).inputs = {n + i : i \in w[x].inputs}
    OBVIOUS
  <2> HIDE DEF New
  <2> QED
    BY <1>3, <2>1
<1> HIDE DEF Old, New
<1>6. \A x \in Live(h) : /\ w[x].rank \in Nat /\ w[x].value \in SUBSET Valuation /\ Fits(h, w, x)
                         /\ h.kind[x] \in {"INPUT", "TRUE", "FALSE", "NOT", "AND", "OR"}
                         /\ Children(h, x) \subseteq Live(h)
  BY DEF Fitting, HeapOK
<1>7. ASSUME NEW x \in Live(h)
      PROVE  /\ v[x].rank \in Nat /\ v[x].part \in Nat /\ v[x].value \in SUBSET Valuation
             /\ \A c \in Children(j, x) : v[c].part = v[x].part
             /\ Fits(j, v, x)
  <2>1. Children(j, x) = Children(h, x)
    BY <1>1 DEF Children
  <2>2. Fits(j, v, x)
    BY <1>1, <1>4, <1>6, SameFits
  <2>3. part[x] \in Nat /\ \A c \in Children(h, x) : part[c] = part[x]
    BY DEF Renumbers
  <2> QED
    BY <1>4, <1>6, <2>1, <2>2, <2>3 DEF Alike
<1>8. ASSUME NEW x \in C
      PROVE  /\ \A c \in Children(j, n + x) : v[c].part = q
             /\ Fits(j, v, n + x)
  <2>1. \A s \in DOMAIN h.in[x] : h.in[x][s] \in C /\ j.in[n + x][s] = n + h.in[x][s]
    BY <1>1 DEF Downward, Children, Range
  <2>2. \A c \in Children(j, n + x) : v[c].part = q
    BY <1>1, <1>5, <2>1 DEF Children, Range
  <2>3. CASE h.kind[x] \in {"INPUT", "TRUE", "FALSE"}
    <3>0. h.kind[x] = "INPUT" => w[x].inputs = {x}
      BY <1>6 DEF Fits
    <3>1. h.kind[x] = "INPUT" => {n + i : i \in w[x].inputs} = {n + x}
      BY <3>0
    <3>2. h.kind[x] # "INPUT" => {n + i : i \in w[x].inputs} = {}
      BY <1>6, <2>3 DEF Fits
    <3> QED
      BY <1>1, <1>5, <1>6, <2>2, <2>3, <3>1, <3>2 DEF Fits
  <2>4. CASE h.kind[x] = "NOT"
    <3> DEFINE a == h.in[x][1]
    <3>1. a \in C /\ j.in[n + x][1] = n + a
      BY <2>1, <2>4, HeapFacts
    <3>2. w[x].rank > w[a].rank /\ w[x].inputs = w[a].inputs /\ w[x].value = Valuation \ w[a].value
      BY <1>6, <2>4 DEF Fits
    <3> HIDE DEF a
    <3>3. /\ v[n + x].rank > v[n + a].rank /\ v[n + x].inputs = v[n + a].inputs
          /\ v[n + x].value = Valuation \ v[n + a].value
      BY <1>5, <3>1, <3>2
    <3> QED
      BY <1>1, <2>2, <2>4, <3>1, <3>3 DEF Fits
  <2>5. CASE h.kind[x] \in {"AND", "OR"}
    <3> DEFINE a == h.in[x][1]
               b == h.in[x][2]
    <3>1. a \in C /\ j.in[n + x][1] = n + a /\ b \in C /\ j.in[n + x][2] = n + b
      BY <2>1, <2>5, HeapFacts
    <3>2. /\ w[x].rank > 2 /\ w[x].rank > w[a].rank + 1 /\ w[x].rank > w[b].rank + 1
          /\ w[x].inputs = w[a].inputs \cup w[b].inputs
          /\ w[x].value = IF h.kind[x] = "AND" THEN w[a].value \cap w[b].value
                          ELSE w[a].value \cup w[b].value
      BY <1>6, <2>5 DEF Fits
    <3> HIDE DEF a, b
    <3>3. {n + i : i \in w[x].inputs} = {n + i : i \in w[a].inputs} \cup {n + i : i \in w[b].inputs}
      BY <3>2
    <3>4. /\ v[n + x].rank > 2 /\ v[n + x].rank > v[n + a].rank + 1 /\ v[n + x].rank > v[n + b].rank + 1
          /\ v[n + x].inputs = v[n + a].inputs \cup v[n + b].inputs
          /\ v[n + x].value = IF h.kind[x] = "AND" THEN v[n + a].value \cap v[n + b].value
                              ELSE v[n + a].value \cup v[n + b].value
      BY <1>5, <3>1, <3>2, <3>3
    <3> QED
      BY <1>1, <2>2, <2>5, <3>1, <3>4 DEF Fits
  <2> QED
    BY <1>6, <2>3, <2>4, <2>5
<1>9. Fitting(j, v)
  <2>1. ASSUME NEW x \in Live(j)
        PROVE  /\ v[x].rank \in Nat /\ v[x].part \in Nat /\ v[x].value \in SUBSET Valuation
               /\ \A c \in Children(j, x) : v[c].part = v[x].part
               /\ Fits(j, v, x)
    <3>1. CASE x \in Live(h)
      BY <1>7, <3>1
    <3>2. CASE x \in new
      <4>1. PICK y \in C : x = n + y
        BY <3>2
      <4> QED
        BY <1>5, <1>6, <1>8, <4>1
    <3> QED
      BY <1>1, <3>1, <3>2
  <2> QED
    BY <1>3, <2>1 DEF Fitting
<1> QED
  BY <1>4, <1>5, <1>9 DEF CopyKnows

-----------------------------------------------------------------------------
(* Between two constructors.                                               *)

AtRest(h, w, cs, f) ==
  /\ HeapOK(h) /\ Fitting(h, w) /\ CircuitsOK(h, w, cs, f)
  /\ Live(h) = ReachableFrom(h, Held(cs)) /\ Flagged(h) = {}

\* A circuit is the whole of its part, and can be reached from its output.
LEMMA PartIsNetwork ==
  ASSUME NEW h, NEW w, NEW cs, NEW f, AtRest(h, w, cs, f), NEW m \in 1 .. Len(cs)
  PROVE  LET top == cs[m].output
             gates == {top} \cup Range(cs[m].inputs)
             C == ReachableFrom(h, gates)
         IN  /\ gates \subseteq Live(h) /\ C = {x \in Live(h) : w[x].part = m}
             /\ Downward(h, C) /\ C = ReachableFrom(h, {top}) /\ top \in C
<1> DEFINE top == cs[m].output
           gates == {top} \cup Range(cs[m].inputs)
           C == ReachableFrom(h, gates)
           P == {x \in Live(h) : w[x].part = m}
           D == ReachableFrom(h, {top})
           T == {x \in Live(h) : w[x].part = m => x \in C}
<1>1. HeapOK(h) /\ Fitting(h, w) /\ CircuitsOK(h, w, cs, f) /\ Live(h) = ReachableFrom(h, Held(cs))
  BY DEF AtRest
<1>2. /\ top \in P /\ w[top].inputs = Range(cs[m].inputs) /\ Range(cs[m].inputs) \subseteq P
      /\ DOMAIN cs = 1 .. Len(cs)
  BY <1>1 DEF CircuitsOK
<1>3. gates \subseteq Live(h) /\ {top} \subseteq Live(h) /\ gates \subseteq P
  BY <1>2
<1>4. /\ gates \subseteq C /\ C \subseteq Live(h) /\ Downward(h, C)
      /\ \A S : gates \subseteq S /\ Downward(h, S) => C \subseteq S
  <2> HIDE DEF gates
  <2> QED
    BY <1>1, <1>3, ReachOK
<1>5. /\ top \in D /\ D \subseteq Live(h) /\ Downward(h, D)
      /\ \A S : top \in S /\ Downward(h, S) => D \subseteq S
  <2> HIDE DEF top
  <2>1. /\ {top} \subseteq D /\ D \subseteq Live(h) /\ Downward(h, D)
        /\ \A S : {top} \subseteq S /\ Downward(h, S) => D \subseteq S
    BY <1>1, <1>3, ReachOK
  <2> QED
    BY <2>1
<1>6. C \subseteq P
  <2>1. Downward(h, {x \in Live(h) : w[x].part \in {m}})
    BY <1>1, PartsAreDownward
  <2>2. P = {x \in Live(h) : w[x].part \in {m}}
    OBVIOUS
  <2> HIDE DEF P, C, gates
  <2> QED
    BY <1>3, <1>4, <2>1, <2>2
<1>7. \A g \in Held(cs) : g \in T
  <2> SUFFICES ASSUME NEW g \in Held(cs), w[g].part = m PROVE g \in Live(h) /\ g \in C
    BY <1>1, HeldLive
  <2>1. PICK n \in 1 .. Len(cs) : g = cs[n].output \/ g \in Range(cs[n].inputs)
    BY <1>2, HeldBy
  <2>2. g \in Live(h) /\ w[g].part = n
    BY <1>1, <2>1 DEF CircuitsOK
  <2>3. g \in gates
    BY <2>1, <2>2
  <2> HIDE DEF gates, C
  <2> QED
    BY <1>4, <2>2, <2>3
<1>8. Downward(h, T)
  <2> SUFFICES ASSUME NEW x \in Live(h), x \in T, NEW c \in Children(h, x) PROVE c \in T
    BY DEF Downward
  <2>1. c \in Live(h) /\ w[c].part = w[x].part
    BY <1>1, HeapFacts DEF Fitting
  <2> HIDE DEF C
  <2> QED
    BY <1>4, <2>1 DEF Downward
<1>9. P \subseteq C
  <2>1. Held(cs) \in SUBSET Live(h)
    BY <1>1, HeldLive
  <2> HIDE DEF T
  <2>2. Live(h) \subseteq T
    BY <1>1, <1>7, <1>8, <2>1, ReachOK
  <2> QED
    BY <2>2 DEF T
<1>10. gates \subseteq D
  <2>1. w[top].inputs \subseteq D
    <3> HIDE DEF top, D
    <3> QED
      BY <1>1, <1>3, <1>5, InputsReached
  <2> QED
    BY <1>2, <1>5, <2>1
<1>11. C = D
  <2>1. top \in gates
    OBVIOUS
  <2> HIDE DEF C, D, gates
  <2> QED
    BY <1>4, <1>5, <1>10, <2>1
<1> QED
  BY <1>3, <1>4, <1>5, <1>6, <1>9, <1>11

\* ds is cs with the circuit d at q.
WithCircuit(cs, ds, q, d) ==
  /\ Len(ds) \in Nat \ {0} /\ DOMAIN ds = 1 .. Len(ds) /\ q \in 1 .. Len(ds) /\ ds[q] = d
  /\ \A m \in 1 .. Len(ds) : m # q => m \in 1 .. Len(cs) /\ ds[m] = cs[m]

\* The circuits but q keep their part, and no gate is left in part q.
Moved(h, w, part, q, n) ==
  \A x \in Live(h) : /\ part[x] \in 0 .. n /\ part[x] # q
                     /\ \A m \in 1 .. n : m # q => (part[x] = m <=> w[x].part = m)

LEMMA CopiedCircuits ==
  ASSUME NEW h, NEW w, NEW cs, NEW f, AtRest(h, w, cs, f), NEW S, StrippedOK(h, w, cs, S),
         NEW m \in 1 .. Len(cs), NEW C, C = {x \in Live(h) : w[x].part = m},
         NEW j, CopiedHeap(h, j, C), NEW q, NEW ds, WithCircuit(cs, ds, q, Copied(j, cs[m])),
         q \notin S, S \subseteq 1 .. Len(ds),
         NEW v, NEW part, CopyKnows(h, w, j, v, C, part, q), Moved(h, w, part, q, Len(ds))
  PROVE  CircuitsOK(j, v, ds, f) /\ StrippedOK(j, v, ds, S)
<1> DEFINE n == h.next
           c == cs[m]
           d == ds[q]
           new == {n + x : x \in C}
<1>1. HeapOK(h) /\ Fitting(h, w) /\ CircuitsOK(h, w, cs, f)
  BY DEF AtRest
<1>2. /\ Live(j) = Live(h) \cup new
      /\ \A x \in Live(h) : /\ j.kind[x] = h.kind[x] /\ j.in[x] = h.in[x]
      /\ \A x \in C : j.kind[n + x] = h.kind[x] /\ j.strong[x] = n + x
  BY DEF CopiedHeap
<1>3. /\ \A x \in Live(h) : Alike(w, x, v, x) /\ v[x].part = part[x]
      /\ \A x \in C : /\ v[n + x].part = q /\ v[n + x].value = w[x].value
                      /\ v[n + x].inputs = {n + i : i \in w[x].inputs}
  BY DEF CopyKnows
<1>4. /\ Len(ds) \in Nat \ {0} /\ DOMAIN ds = 1 .. Len(ds) /\ q \in 1 .. Len(ds) /\ d = Copied(j, c)
      /\ \A i \in 1 .. Len(ds) : i # q => i \in 1 .. Len(cs) /\ ds[i] = cs[i]
  BY DEF WithCircuit
<1>5. \A x \in Live(h) : /\ v[x].part \in 0 .. Len(ds) /\ v[x].part # q
                         /\ \A i \in 1 .. Len(ds) : i # q => (v[x].part = i <=> w[x].part = i)
  BY <1>3 DEF Moved
<1>6. /\ c.output \in C /\ w[c.output].value = f /\ DOMAIN c.inputs = InputGate
      /\ w[c.output].inputs = Range(c.inputs)
      /\ Range(c.inputs) = {x \in C : h.kind[x] = "INPUT"}
  BY <1>1 DEF CircuitsOK
<1>7. /\ d.output = n + c.output /\ DOMAIN d.inputs = InputGate
      /\ Range(d.inputs) = {n + i : i \in Range(c.inputs)}
  <2>1. \A i \in InputGate : c.inputs[i] \in C
    BY <1>6 DEF Range
  <2>2. /\ d.output = j.strong[c.output]
        /\ d.inputs = [i \in InputGate |-> j.strong[c.inputs[i]]]
    <3> HIDE DEF c, d
    <3> QED
      BY <1>4, <1>6 DEF Copied
  <2>3. d.output = n + c.output /\ d.inputs = [i \in InputGate |-> n + c.inputs[i]]
    <3> HIDE DEF c, d, n
    <3> QED
      BY <1>2, <1>6, <2>1, <2>2
  <2> HIDE DEF c, d, n
  <2> QED
    BY <1>6, <2>3 DEF Range
<1> HIDE DEF c, d
<1>8. CircuitsOK(j, v, ds, f)
  <2>1. \A x \in Live(j) : v[x].part \in 0 .. Len(ds)
    <3>1. \A x \in new : v[x].part = q
      BY <1>3
    <3> QED
      BY <1>2, <1>4, <1>5, <3>1
  <2>2. /\ d.output \in Live(j) /\ v[d.output].part = q /\ v[d.output].value = f
        /\ v[d.output].inputs = Range(d.inputs)
    <3>1. n + c.output \in new
      BY <1>6
    <3> QED
      BY <1>2, <1>3, <1>6, <1>7, <3>1
  <2>3. Range(d.inputs) = {x \in Live(j) : v[x].part = q /\ j.kind[x] = "INPUT"}
    <3>1. ASSUME NEW x \in Live(j)
          PROVE  x \in Range(d.inputs) <=> v[x].part = q /\ j.kind[x] = "INPUT"
      <4>1. CASE x \in new
        <5>1. PICK y \in C : x = n + y
          BY <4>1
        <5>2. v[x].part = q /\ j.kind[x] = h.kind[y]
          BY <1>2, <1>3, <5>1
        <5>3. x \in Range(d.inputs) <=> y \in Range(c.inputs)
          <6>1. \A i \in Range(c.inputs) : x = n + i => i = y
            <7>1. \A i \in C : i \in Nat /\ n \in Nat
              BY <1>1, HeapFacts DEF HeapOK
            <7> QED
              BY <1>6, <5>1, <7>1
          <6> QED
            BY <1>7, <5>1, <6>1
        <5> QED
          BY <1>6, <5>2, <5>3
      <4>2. CASE x \in Live(h) /\ x \notin new
        BY <1>5, <1>6, <1>7, <4>2
      <4> QED
        BY <1>2, <4>1, <4>2
    <3>2. Range(d.inputs) \subseteq Live(j)
      BY <1>2, <1>6, <1>7
    <3> QED
      BY <3>1, <3>2
  <2>4. ASSUME NEW i \in 1 .. Len(ds), i # q
        PROVE  /\ ds[i].output \in Live(j) /\ v[ds[i].output].part = i
               /\ v[ds[i].output].value = f /\ DOMAIN ds[i].inputs = InputGate
               /\ v[ds[i].output].inputs = Range(ds[i].inputs)
               /\ Range(ds[i].inputs) = {x \in Live(j) : v[x].part = i /\ j.kind[x] = "INPUT"}
    <3>1. i \in 1 .. Len(cs) /\ ds[i] = cs[i]
      BY <1>4, <2>4
    <3>2. /\ cs[i].output \in Live(h) /\ w[cs[i].output].part = i
          /\ w[cs[i].output].value = f /\ DOMAIN cs[i].inputs = InputGate
          /\ w[cs[i].output].inputs = Range(cs[i].inputs)
          /\ Range(cs[i].inputs) = {x \in Live(h) : w[x].part = i /\ h.kind[x] = "INPUT"}
      BY <1>1, <3>1 DEF CircuitsOK
    <3>3. {x \in Live(j) : v[x].part = i /\ j.kind[x] = "INPUT"}
            = {x \in Live(h) : w[x].part = i /\ h.kind[x] = "INPUT"}
      <4>1. \A x \in new : v[x].part # i
        BY <1>3, <2>4
      <4> HIDE DEF new
      <4> QED
        BY <1>2, <1>5, <2>4, <4>1
    <3> QED
      BY <1>2, <1>3, <1>5, <2>4, <3>1, <3>2, <3>3 DEF Alike
  <2>5. ASSUME NEW i \in 1 .. Len(ds)
        PROVE  /\ ds[i].output \in Live(j) /\ v[ds[i].output].part = i
               /\ v[ds[i].output].value = f /\ DOMAIN ds[i].inputs = InputGate
               /\ v[ds[i].output].inputs = Range(ds[i].inputs)
               /\ Range(ds[i].inputs) = {x \in Live(j) : v[x].part = i /\ j.kind[x] = "INPUT"}
    <3>1. CASE i # q
      BY <2>4, <3>1
    <3>2. CASE i = q
      <4>1. ds[i] = d
        BY <3>2 DEF d
      <4> QED
        BY <1>7, <2>2, <2>3, <3>2, <4>1
    <3> QED
      BY <3>1, <3>2
  <2> HIDE DEF new
  <2> QED
    BY <1>4, <2>1, <2>5 DEF CircuitsOK
<1>9. StrippedOK(j, v, ds, S)
  <2> SUFFICES ASSUME NEW i \in S, NEW g \in Live(j), v[g].part = i, j.kind[g] = "NOT"
               PROVE  /\ j.kind[j.in[g][1]] = "INPUT"
                      /\ g = ds[i].output
                           \/ \A x \in Live(j) \ {g, ds[i].output} :
                                v[x].part = i /\ j.kind[x] = "NOT" => j.in[x] # j.in[g]
    BY DEF StrippedOK, Clean
  <2>1. i # q /\ i \in 1 .. Len(ds) /\ ds[i] = cs[i] /\ Clean(h, w, i, cs[i].output)
    BY <1>4 DEF StrippedOK
  <2>2. \A x \in Live(j) : v[x].part = i =>
          x \in Live(h) /\ w[x].part = i /\ j.kind[x] = h.kind[x] /\ j.in[x] = h.in[x]
    <3>1. \A x \in new : v[x].part # i
      BY <1>3, <2>1
    <3> HIDE DEF new
    <3> QED
      BY <1>2, <1>5, <2>1, <3>1
  <2>3. h.in[g][1] \in Live(h) /\ h.kind[g] = "NOT" /\ g \in Live(h) /\ w[g].part = i
    BY <1>1, <2>2, HeapFacts
  <2>4. h.kind[h.in[g][1]] = "INPUT"
        /\ (g = cs[i].output
              \/ \A x \in Live(h) \ {g, cs[i].output} :
                   w[x].part = i /\ h.kind[x] = "NOT" => h.in[x] # h.in[g])
    BY <2>1, <2>3 DEF Clean
  <2>5. j.kind[h.in[g][1]] = h.kind[h.in[g][1]]
    BY <1>2, <2>3
  <2> QED
    BY <2>1, <2>2, <2>3, <2>4, <2>5
<1> QED
  BY <1>8, <1>9

\* The twins of a copy are reset from the output of what was copied.
LEMMA ResetCopy ==
  ASSUME NEW h, HeapOK(h), Flagged(h) = {}, NEW o \in Live(h),
         NEW C, C = ReachableFrom(h, {o}), NEW j, CopiedHeap(h, j, C),
         NEW k, k = ResetTwins(j, o)
  PROVE  /\ HeapOK(k) /\ Flagged(k) = {} /\ Live(k) = Live(j)
         /\ k.kind = j.kind /\ k.in = j.in /\ k.id = j.id
<1> DEFINE F == FlaggedFrom(j, o)
           next == [x \in Live(j) |-> Children(j, x) \cap Flagged(j)]
<1>1. /\ HeapOK(j) /\ Live(h) \subseteq Live(j) /\ DOMAIN j.strong = C /\ j.weak = h.weak
      /\ j.marked = h.marked /\ \A x \in Live(h) : Children(j, x) = Children(h, x)
  BY DEF CopiedHeap, Children
<1>2. DOMAIN j.weak = {} /\ j.marked = {}
  BY <1>1 DEF Flagged, Twinned
<1>3. Flagged(j) = C
  BY <1>1, <1>2 DEF Flagged, Twinned
<1>4. /\ o \in F /\ Closed(next, F)
  <2>1. IsFiniteSet(Live(j)) /\ \A x \in Live(j) : Children(j, x) \subseteq Live(j)
    BY <1>1, HeapFacts
  <2>2. next \in [Live(j) -> SUBSET Live(j)] /\ {o} \subseteq Live(j)
    BY <1>1, <2>1
  <2>3. F = Closure(next, {o})
    BY DEF FlaggedFrom
  <2> HIDE DEF F, next
  <2>4. {o} \subseteq F /\ Closed(next, F)
    BY <2>1, <2>2, <2>3, ClosureFacts
  <2> QED
    BY <2>4
<1>5. /\ o \in C /\ C \subseteq Live(h) /\ Downward(h, C)
      /\ \A T : o \in T /\ Downward(h, T) => C \subseteq T
  <2>1. /\ {o} \subseteq C /\ C \subseteq Live(h) /\ Downward(h, C)
        /\ \A T : {o} \subseteq T /\ Downward(h, T) => C \subseteq T
    BY ReachOK
  <2> QED
    BY <2>1
<1>6. C \subseteq F
  <2>1. Downward(h, F \cap C)
    <3> SUFFICES ASSUME NEW x \in F, x \in C, NEW y \in Children(h, x) PROVE y \in F /\ y \in C
      BY DEF Downward
    <3>1. y \in C /\ x \in Live(h) /\ x \in Live(j)
      BY <1>1, <1>5 DEF Downward
    <3>2. y \in next[x] /\ x \in DOMAIN next
      BY <1>1, <1>3, <3>1
    <3> HIDE DEF next, F
    <3> QED
      BY <1>4, <3>1, <3>2 DEF Closed
  <2> HIDE DEF F
  <2> QED
    BY <1>4, <1>5, <2>1
<1> HIDE DEF F
<1>7. /\ k.next = j.next /\ k.kind = j.kind /\ k.in = j.in /\ k.id = j.id
      /\ k.strong = [x \in {} |-> j.strong[x]] /\ k.weak = [x \in {} |-> j.weak[x]] /\ k.marked = {}
      /\ k = [next |-> k.next, kind |-> k.kind, in |-> k.in, id |-> k.id,
              strong |-> k.strong, weak |-> k.weak, marked |-> k.marked]
  <2>1. j = [next |-> j.next, kind |-> j.kind, in |-> j.in, id |-> j.id,
             strong |-> j.strong, weak |-> j.weak, marked |-> j.marked]
    BY <1>1 DEF HeapOK
  <2>2. k = [j EXCEPT !.marked = j.marked \ F, !.strong = [x \in DOMAIN j.strong \ F |-> j.strong[x]],
                      !.weak = [x \in DOMAIN j.weak \ F |-> j.weak[x]]]
    BY DEF ResetTwins, F
  <2>3. j.marked \ F = {} /\ DOMAIN j.strong \ F = {} /\ DOMAIN j.weak \ F = {}
    BY <1>1, <1>2, <1>6
  <2> QED
    BY <2>1, <2>2, <2>3
<1>8. Live(k) = Live(j) /\ Twinned(k) = {} /\ \A x : Children(k, x) = Children(j, x)
  BY <1>7 DEF Live, Twinned, Children
<1>9. HeapOK(k)
  <2>1. /\ j.kind = [x \in Live(j) |-> j.kind[x]] /\ j.in = [x \in Live(j) |-> j.in[x]]
        /\ j.id = [x \in DOMAIN j.id |-> j.id[x]]
    BY <1>1 DEF HeapOK
  <2>2. /\ k.strong = [x \in DOMAIN k.strong |-> k.strong[x]] /\ DOMAIN k.strong = {}
        /\ k.weak = [x \in DOMAIN k.weak |-> k.weak[x]]
    BY <1>7
  <2>3. k = [next |-> k.next, kind |-> [x \in Live(k) |-> k.kind[x]],
             in |-> [x \in Live(k) |-> k.in[x]], id |-> [x \in DOMAIN k.id |-> k.id[x]],
             strong |-> [x \in DOMAIN k.strong |-> k.strong[x]],
             weak |-> [x \in DOMAIN k.weak |-> k.weak[x]], marked |-> k.marked]
    BY <1>7, <1>8, <2>1, <2>2
  <2> QED
    BY <1>1, <1>7, <1>8, <2>2, <2>3 DEF HeapOK
<1> QED
  BY <1>7, <1>8, <1>9 DEF Flagged

\* What is known of the gates does not depend on flags.
LEMMA KnownWithoutFlags ==
  ASSUME NEW j, NEW k, Live(k) = Live(j), k.kind = j.kind, k.in = j.in, k.id = j.id,
         NEW w, Fitting(j, w), NEW cs, NEW f, CircuitsOK(j, w, cs, f), NEW S, StrippedOK(j, w, cs, S)
  PROVE  Fitting(k, w) /\ CircuitsOK(k, w, cs, f) /\ StrippedOK(k, w, cs, S)
<1>1. Fitting(k, w)
  <2>1. \A x \in Live(j) : Fits(j, w, x) => Fits(k, w, x)
    BY DEF Fits
  <2>2. \A x : Children(k, x) = Children(j, x)
    BY DEF Children
  <2> QED
    BY <2>1, <2>2 DEF Fitting
<1>2. CircuitsOK(k, w, cs, f)
  BY DEF CircuitsOK
<1>3. StrippedOK(k, w, cs, S)
  BY DEF StrippedOK, Clean
<1> QED
  BY <1>1, <1>2, <1>3

\* Once the twins are reset, every gate of j is held or below one that is.
LEMMA AllReached ==
  ASSUME NEW h, HeapOK(h), NEW cs, \A g \in Held(cs) : g \in Live(h), Live(h) = ReachableFrom(h, Held(cs)),
         NEW gates \in SUBSET Live(h), NEW C, C = ReachableFrom(h, gates), NEW j, CopiedHeap(h, j, C),
         NEW k, HeapOK(k), Live(k) = Live(j), k.in = j.in,
         NEW pins, pins \subseteq Live(k), Held(cs) \subseteq pins, \A g \in gates : h.next + g \in pins
  PROVE  Live(k) = ReachableFrom(k, pins)
<1> DEFINE n == h.next
           R == ReachableFrom(k, pins)
           T == {x \in C : n + x \in R}
<1>1. /\ Live(k) = Live(h) \cup {n + x : x \in C} /\ \A x \in Live(h) : Children(k, x) = Children(h, x)
      /\ \A x \in C : /\ DOMAIN k.in[n + x] = DOMAIN h.in[x]
                      /\ \A s \in DOMAIN h.in[x] : k.in[n + x][s] = n + h.in[x][s]
  BY DEF CopiedHeap, Children
<1>2. pins \subseteq R /\ R \subseteq Live(k) /\ Downward(k, R)
  BY ReachOK
<1> HIDE DEF R
<1>3. Live(h) \subseteq R
  <2>1. Downward(h, R)
    BY <1>1, <1>2 DEF Downward
  <2>2. Held(cs) \subseteq R /\ Held(cs) \in SUBSET Live(h)
    BY <1>2
  <2> QED
    BY <2>1, <2>2, ReachOK
<1>4. C \subseteq T
  <2>1. gates \subseteq C /\ Downward(h, C) /\ C \subseteq Live(h)
        /\ \A S : gates \subseteq S /\ Downward(h, S) => C \subseteq S
    BY ReachOK
  <2>2. gates \subseteq T
    BY <1>2, <2>1
  <2>3. Downward(h, T)
    <3> SUFFICES ASSUME NEW x \in C, n + x \in R, NEW s \in DOMAIN h.in[x]
                 PROVE  h.in[x][s] \in C /\ n + h.in[x][s] \in R
      BY DEF Downward, Children, Range
    <3>1. h.in[x][s] \in C
      BY <2>1 DEF Downward, Children, Range
    <3>2. n + h.in[x][s] \in Children(k, n + x)
      <4>1. s \in DOMAIN k.in[n + x] /\ k.in[n + x][s] = n + h.in[x][s]
        BY <1>1
      <4> HIDE DEF n
      <4> QED
        BY <4>1 DEF Children, Range
    <3> HIDE DEF n
    <3> QED
      BY <1>2, <3>1, <3>2 DEF Downward
  <2> HIDE DEF T
  <2> QED
    BY <2>1, <2>2, <2>3
<1> QED
  BY <1>1, <1>2, <1>3, <1>4 DEF R

LEMMA Resting ==
  ASSUME NEW w, Sound(w), phase = "idle"
  PROVE  /\ AtRest(heap, w, circuits, goal) /\ StrippedOK(heap, w, circuits, stripped)
         /\ stack = <<>> /\ DOMAIN circuits = 1 .. Len(circuits) /\ Len(circuits) \in Nat \ {0}
         /\ \A g \in Live(heap) : w[g].part # 0
BY DEF Sound, Idle, AtRest, CircuitsOK

LEMMA CopyCircuitKeeps ==
  ASSUME CopyInv, CopyCircuit
  PROVE  CopyInv'
<1>1. PICK w : Sound(w)
  BY DEF CopyInv
<1>2. /\ phase = "idle" /\ UNCHANGED <<stack, oldOutput, phase, stripped, goal>>
  BY DEF CopyCircuit
<1>3. PICK m \in DOMAIN circuits : LET copy == Copy(circuits[m]) IN
        /\ circuits' = Append(circuits, copy.circuit) /\ heap' = Keep(copy.heap, circuits', {})
  BY DEF CopyCircuit
<1> DEFINE c == circuits[m]
           gates == {c.output} \cup Range(c.inputs)
           C == ReachableFrom(heap, gates)
           j == WithCopy(heap, gates)
           k == ResetTwins(j, c.output)
           q == Len(circuits) + 1
           part == [x \in Live(heap) |-> w[x].part]
           n == heap.next
<1>4. /\ AtRest(heap, w, circuits, goal) /\ StrippedOK(heap, w, circuits, stripped) /\ stack = <<>>
      /\ DOMAIN circuits = 1 .. Len(circuits) /\ Len(circuits) \in Nat \ {0}
      /\ \A g \in Live(heap) : w[g].part # 0
  BY <1>1, <1>2, Resting
<1>5. /\ HeapOK(heap) /\ Fitting(heap, w) /\ CircuitsOK(heap, w, circuits, goal)
      /\ Live(heap) = ReachableFrom(heap, Held(circuits)) /\ Flagged(heap) = {}
  BY <1>4 DEF AtRest
<1>6. m \in 1 .. Len(circuits)
  BY <1>3, <1>4
<1>7. /\ gates \subseteq Live(heap) /\ C = {x \in Live(heap) : w[x].part = m}
      /\ Downward(heap, C) /\ C = ReachableFrom(heap, {c.output}) /\ c.output \in C
  BY <1>4, <1>6, PartIsNetwork
<1>8. /\ circuits' = Append(circuits, Copied(j, c))
      /\ heap' = Release(k, Held(circuits') \cup {f.gate : f \in Range(stack)})
  BY <1>3 DEF Copy, Keep
<1>9. CopiedHeap(heap, j, C)
  <2> HIDE DEF gates
  <2> QED
    BY <1>5, <1>7, CopyFacts
<1> HIDE DEF gates, C, j, k, c
<1>10. Renumbers(heap, part) /\ q \in Nat
  <2>1. \A x \in Live(heap) : /\ w[x].part \in Nat /\ Children(heap, x) \subseteq Live(heap)
                              /\ \A y \in Children(heap, x) : w[y].part = w[x].part
    BY <1>5, HeapFacts DEF Fitting
  <2> QED
    BY <1>4, <2>1 DEF Renumbers
<1> HIDE DEF part
<1>11. PICK v : CopyKnows(heap, w, j, v, C, part, q)
  <2>1. C \in SUBSET Live(heap)
    BY <1>7
  <2> HIDE DEF q
  <2> QED
    BY <1>5, <1>7, <1>9, <1>10, <2>1, CopyKnown
<1>12. WithCircuit(circuits, circuits', q, Copied(j, c)) /\ Len(circuits') = q
  BY <1>4, <1>8 DEF WithCircuit
<1>13. Moved(heap, w, part, q, Len(circuits'))
  BY <1>4, <1>5, <1>12 DEF Moved, part, CircuitsOK
<1>14. q \notin stripped /\ stripped \subseteq 1 .. Len(circuits')
  BY <1>4, <1>12 DEF StrippedOK
<1>15. CircuitsOK(j, v, circuits', goal) /\ StrippedOK(j, v, circuits', stripped)
  <2> DEFINE ds == circuits'
  <2>1. /\ WithCircuit(circuits, ds, q, Copied(j, circuits[m])) /\ Moved(heap, w, part, q, Len(ds))
        /\ stripped \subseteq 1 .. Len(ds)
    BY <1>12, <1>13, <1>14 DEF c
  <2> HIDE DEF ds, q
  <2>2. CircuitsOK(j, v, ds, goal) /\ StrippedOK(j, v, ds, stripped)
    BY <1>4, <1>6, <1>7, <1>9, <1>11, <1>14, <2>1, CopiedCircuits
  <2> QED
    BY <2>2 DEF ds
<1>16. /\ HeapOK(k) /\ Flagged(k) = {} /\ Live(k) = Live(j)
       /\ k.kind = j.kind /\ k.in = j.in /\ k.id = j.id
  <2> DEFINE o == c.output
  <2>1. o \in Live(heap) /\ C = ReachableFrom(heap, {o}) /\ k = ResetTwins(j, o)
    BY <1>7 DEF k
  <2> HIDE DEF o
  <2> QED
    BY <1>5, <1>9, <2>1, ResetCopy
<1>17. Fitting(k, v) /\ CircuitsOK(k, v, circuits', goal) /\ StrippedOK(k, v, circuits', stripped)
  <2> DEFINE ds == circuits'
  <2>1. Fitting(j, v) /\ CircuitsOK(j, v, ds, goal) /\ StrippedOK(j, v, ds, stripped)
    BY <1>11, <1>15 DEF CopyKnows
  <2> HIDE DEF ds
  <2>2. Fitting(k, v) /\ CircuitsOK(k, v, ds, goal) /\ StrippedOK(k, v, ds, stripped)
    BY <1>16, <2>1, KnownWithoutFlags
  <2> QED
    BY <2>2 DEF ds
<1>18. /\ Held(circuits) \subseteq Held(circuits') /\ \A x \in gates : n + x \in Held(circuits')
       /\ Held(circuits') \subseteq Live(k)
  <2> DEFINE ds == circuits'
  <2>1. /\ DOMAIN ds = 1 .. Len(ds) /\ Len(ds) = q /\ ds[q] = Copied(j, c)
        /\ \A i \in 1 .. Len(circuits) : i \in 1 .. Len(ds) /\ ds[i] = circuits[i]
    BY <1>4, <1>8
  <2>2. CircuitsOK(k, v, ds, goal)
    BY <1>17
  <2> HIDE DEF ds
  <2>3. Held(circuits) \subseteq Held(ds)
    BY <1>4, <2>1, HeldBy
  <2>4. Held(ds) \subseteq Live(k)
    BY <2>2, HeldLive
  <2>5. \A x \in gates : j.strong[x] = n + x
    <3>1. gates \subseteq C
      BY <1>5, <1>7, ReachOK DEF C
    <3> QED
      BY <1>9, <3>1 DEF CopiedHeap
  <2>6. ASSUME NEW x \in gates
        PROVE  n + x \in Held(ds)
    <3>1. q \in 1 .. Len(ds)
      BY <1>4, <2>1
    <3>2. x = c.output \/ \E i \in DOMAIN c.inputs : x = c.inputs[i]
      BY DEF gates, Range
    <3>3. CASE x = c.output
      <4>1. n + x = ds[q].output
        BY <2>1, <2>5, <3>3 DEF Copied
      <4> QED
        BY <2>1, <3>1, <4>1, HeldBy
    <3>4. CASE \E i \in DOMAIN c.inputs : x = c.inputs[i]
      <4>1. PICK i \in DOMAIN c.inputs : x = c.inputs[i]
        BY <3>4
      <4>2. i \in DOMAIN ds[q].inputs /\ n + x = ds[q].inputs[i]
        BY <2>1, <2>5, <4>1 DEF Copied
      <4>3. n + x \in Range(ds[q].inputs)
        BY <4>2 DEF Range
      <4> QED
        BY <2>1, <3>1, <4>3, HeldBy
    <3> QED
      BY <3>2, <3>3, <3>4
  <2> QED
    BY <2>3, <2>4, <2>6 DEF ds
<1>19. Live(k) = ReachableFrom(k, Held(circuits'))
  <2> DEFINE pins == Held(circuits')
  <2>1. Held(circuits) \subseteq pins /\ (\A x \in gates : heap.next + x \in pins) /\ pins \subseteq Live(k)
    BY <1>18
  <2>2. \A g \in Held(circuits) : g \in Live(heap)
    BY <1>5, HeldLive
  <2> HIDE DEF pins
  <2>3. gates \in SUBSET Live(heap) /\ C = ReachableFrom(heap, gates)
    BY <1>7 DEF C
  <2>4. Live(k) = ReachableFrom(k, pins)
    BY <1>5, <1>9, <1>16, <2>1, <2>2, <2>3, AllReached
  <2> QED
    BY <2>4 DEF pins
<1>20. heap' = k
  <2> DEFINE pins == Held(circuits')
             kept == pins \cup {f.gate : f \in Range(stack)}
  <2>1. pins \in SUBSET Live(k) /\ Live(k) = ReachableFrom(k, pins)
    BY <1>18, <1>19
  <2>2. heap' = Release(k, kept)
    BY <1>8
  <2> HIDE DEF pins
  <2>3. \A g \in Live(k) : g \in kept \/ \E x \in Live(k) : g \in OwnedBy(k, x)
    <3>1. \A g \in Live(k) : g \in pins \/ \E x \in Live(k) : g \in Children(k, x)
      BY <1>16, <2>1, ReachedFrom
    <3> QED
      BY <3>1 DEF OwnedBy
  <2> HIDE DEF kept
  <2>4. Release(k, kept) = k
    BY <1>16, <2>3, NothingLost
  <2> QED
    BY <2>2, <2>4
<1>21. \A g \in Live(k) : v[g].part # 0
  <2>1. /\ \A x \in Live(heap) : v[x].part = w[x].part
        /\ \A x \in C : v[n + x].part = q
    BY <1>11 DEF CopyKnows, part
  <2>2. q # 0
    BY <1>4
  <2>3. Live(k) = Live(heap) \cup {n + x : x \in C}
    BY <1>9, <1>16 DEF CopiedHeap
  <2> QED
    BY <1>4, <2>1, <2>2, <2>3
<1>22. /\ HeapOK(heap') /\ Fitting(heap', v) /\ CircuitsOK(heap', v, circuits', goal')
       /\ StrippedOK(heap', v, circuits', stripped') /\ phase' = "idle" /\ stack' = <<>>
       /\ Flagged(heap') = {} /\ Live(heap') = ReachableFrom(heap', Held(circuits'))
       /\ \A g \in Live(heap') : v[g].part # 0
  BY <1>2, <1>4, <1>16, <1>17, <1>19, <1>20, <1>21
<1> QED
  BY <1>22 DEF CopyInv, Sound, Idle, Stripping

\* The gates of a fresh copy have the twins they should have.
LEMMA FreshTwins ==
  ASSUME NEW h, HeapOK(h), Flagged(h) = {}, NEW o \in Live(h),
         NEW C, C = ReachableFrom(h, {o}), NEW j, CopiedHeap(h, j, C),
         NEW w, NEW v, NEW part, NEW q, q # 0, CopyKnows(h, w, j, v, C, part, q),
         \A x \in Live(h) : /\ part[x] \in Nat /\ part[x] # q
                            /\ part[x] = 0 <=> x \in C,
         NEW pins, o \in pins,
         \A x \in Live(h) : x \in C \/ x \in pins \/ \E y \in Live(h) : x \in Children(h, y)
  PROVE  TwinsOK(j, v, q, pins)
<1> DEFINE n == h.next
<1>1. /\ HeapOK(j) /\ Live(j) = Live(h) \cup {n + x : x \in C}
      /\ \A x \in Live(h) : Children(j, x) = Children(h, x)
      /\ DOMAIN j.strong = C /\ \A x \in C : j.strong[x] = n + x
      /\ DOMAIN j.weak = {} /\ j.marked = {}
  <2>1. DOMAIN h.weak = {} /\ h.marked = {}
    BY DEF Flagged, Twinned
  <2> QED
    BY <2>1 DEF CopiedHeap, Children
<1>2. /\ \A x \in Live(h) : v[x].part = part[x]
      /\ \A x \in C : v[n + x].part = q
  BY DEF CopyKnows
<1>3. C \subseteq Live(h)
  BY ReachOK
<1>4. Flagged(j) = C /\ \A x \in C : v[x].part = 0
  BY <1>1, <1>2, <1>3 DEF Flagged, Twinned
<1> DEFINE new == {n + x : x \in C}
<1>9. /\ \A x \in new : v[x].part = q
      /\ \A x \in C : n + x \in new
      /\ Live(j) = Live(h) \cup new
  <2>1. \A x \in new : v[x].part = q
    BY <1>2
  <2>2. \A x \in C : n + x \in new
    OBVIOUS
  <2>3. Live(j) = Live(h) \cup new
    BY <1>1
  <2> QED
    BY <2>1, <2>2, <2>3
<1> HIDE DEF new, n
<1>5. OriginalOK(j, v, q)
  <2>1. \A x \in Live(j) : v[x].part = 0 => x \in C
    BY <1>2, <1>9
  <2>2. \A x \in C : j.strong[x] \in Live(j) /\ v[j.strong[x]].part = q
    BY <1>1, <1>9
  <2> QED
    BY <1>1, <1>4, <2>1, <2>2 DEF OriginalOK
<1>6. HeldOK(j, v, q, pins)
  <2> SUFFICES ASSUME NEW x \in Live(j), v[x].part # q
               PROVE  x \in pins \/ \E y \in Live(j) : x \in Children(j, y)
    BY DEF HeldOK
  <2>1. x \in Live(h)
    BY <1>9
  <2>2. CASE x \in C
    <3>1. x = o \/ \E y \in C : x \in Children(h, y)
      <4>1. {o} \in SUBSET Live(h)
        OBVIOUS
      <4> QED
        BY <2>2, <4>1, ReachedFrom
    <3> QED
      BY <1>1, <1>3, <3>1
  <2>3. CASE x \notin C
    BY <1>1, <2>1, <2>3
  <2> QED
    BY <2>2, <2>3
<1>7. StrongOK(j, v, q)
  BY <1>1, <1>4 DEF StrongOK
<1>8. WeakOK(j, v, q)
  <2>1. Copies(j, v) = {n + x : x \in C}
    BY <1>1, <1>4 DEF Copies
  <2>2. \A x \in Live(j) : v[x].part = q => x \in {n + y : y \in C}
    BY <1>2, <1>9 DEF new
  <2> QED
    BY <1>1, <2>1, <2>2 DEF WeakOK
<1> QED
  BY <1>5, <1>6, <1>7, <1>8 DEF TwinsOK

LEMMA StripNotsKeeps ==
  ASSUME CopyInv, StripNots
  PROVE  CopyInv'
<1> DEFINE c == circuits[last]
           gates == {c.output} \cup Range(c.inputs)
           C == ReachableFrom(heap, gates)
           j == WithCopy(heap, gates)
           kept == Held(circuits') \cup {oldOutput'}
<1>1. PICK w : Sound(w)
  BY DEF CopyInv
<1>2. /\ phase = "idle" /\ phase' = "top" /\ oldOutput' = c.output
      /\ circuits' = [circuits EXCEPT ![last] = Copied(j, c)]
      /\ heap' = Release(j, kept \cup {f.gate : f \in Range(stack)})
      /\ last \notin stripped /\ UNCHANGED <<stack, stripped, goal>>
  BY DEF StripNots, Keep, KeptOriginal
<1> DEFINE part == [x \in Live(heap) |-> IF w[x].part = last THEN 0 ELSE w[x].part]
<1>3. /\ AtRest(heap, w, circuits, goal) /\ StrippedOK(heap, w, circuits, stripped) /\ stack = <<>>
      /\ DOMAIN circuits = 1 .. last /\ last \in Nat \ {0} /\ last \in 1 .. Len(circuits)
      /\ last = Len(circuits) /\ \A g \in Live(heap) : w[g].part # 0
  BY <1>1, <1>2, Resting DEF last
<1>4. /\ HeapOK(heap) /\ Fitting(heap, w) /\ CircuitsOK(heap, w, circuits, goal)
      /\ Live(heap) = ReachableFrom(heap, Held(circuits)) /\ Flagged(heap) = {}
  BY <1>3 DEF AtRest
<1>5. /\ gates \subseteq Live(heap) /\ C = {x \in Live(heap) : w[x].part = last}
      /\ Downward(heap, C) /\ C = ReachableFrom(heap, {c.output}) /\ c.output \in C
  <2>1. AtRest(heap, w, circuits, goal) /\ last \in 1 .. Len(circuits)
    BY <1>3
  <2> QED
    BY <2>1, PartIsNetwork
<1>6. CopiedHeap(heap, j, C)
  <2> HIDE DEF gates
  <2> QED
    BY <1>4, <1>5, CopyFacts
<1> HIDE DEF gates, C, j, c, kept
<1>7. \A x \in Live(heap) : /\ w[x].part \in Nat /\ w[x].part \in 0 .. last /\ w[x].part # 0
                            /\ Children(heap, x) \subseteq Live(heap)
                            /\ \A y \in Children(heap, x) : w[y].part = w[x].part
  BY <1>3, <1>4, HeapFacts DEF Fitting, CircuitsOK
<1>8. /\ Renumbers(heap, part) /\ DOMAIN part = Live(heap)
      /\ \A x \in Live(heap) : part[x] = IF w[x].part = last THEN 0 ELSE w[x].part
  BY <1>3, <1>7 DEF Renumbers
<1> HIDE DEF part
<1>9. PICK v : CopyKnows(heap, w, j, v, C, part, last)
  <2>1. C \in SUBSET Live(heap) /\ last \in Nat
    BY <1>3, <1>5
  <2> QED
    BY <1>4, <1>5, <1>6, <1>8, <2>1, CopyKnown
<1>10. /\ DOMAIN circuits' = 1 .. last /\ Len(circuits') = last /\ last' = last
       /\ circuits'[last] = Copied(j, c) /\ \A i \in 1 .. last : i # last => circuits'[i] = circuits[i]
  <2>1. DOMAIN circuits' = 1 .. last /\ Len(circuits') = last
    BY <1>2, <1>3
  <2> QED
    BY <1>2, <1>3, <2>1 DEF last
<1>11. WithCircuit(circuits, circuits', last, Copied(j, c))
  BY <1>3, <1>10 DEF WithCircuit
<1>12. Moved(heap, w, part, last, Len(circuits'))
  <2> SUFFICES ASSUME NEW x \in Live(heap)
               PROVE  /\ part[x] \in 0 .. last /\ part[x] # last
                      /\ \A i \in 1 .. last : i # last => (part[x] = i <=> w[x].part = i)
    BY <1>10 DEF Moved
  <2>1. w[x].part \in 0 .. last /\ w[x].part # 0 /\ last \in Nat \ {0}
    BY <1>3, <1>7
  <2>2. CASE w[x].part = last
    <3>1. part[x] = 0
      BY <1>8, <2>2
    <3> QED
      BY <2>1, <2>2, <3>1
  <2>3. CASE w[x].part # last
    <3>1. part[x] = w[x].part
      BY <1>8, <2>3
    <3> QED
      BY <2>1, <2>3, <3>1
  <2> QED
    BY <2>2, <2>3
<1>13. /\ Fitting(j, v) /\ CircuitsOK(j, v, circuits', goal) /\ StrippedOK(j, v, circuits', stripped)
  <2> DEFINE ds == circuits'
  <2>1. /\ WithCircuit(circuits, ds, last, Copied(j, circuits[last])) /\ Moved(heap, w, part, last, Len(ds))
        /\ stripped \subseteq 1 .. Len(ds)
    BY <1>3, <1>10, <1>11, <1>12 DEF c, StrippedOK
  <2> HIDE DEF ds
  <2>2. CircuitsOK(j, v, ds, goal) /\ StrippedOK(j, v, ds, stripped)
    BY <1>2, <1>3, <1>5, <1>6, <1>9, <2>1, CopiedCircuits
  <2> QED
    BY <1>9, <2>2 DEF ds, CopyKnows
<1>14. TwinsOK(j, v, last, kept)
  <2> DEFINE o == c.output
             pins == kept
  <2>1. o \in Live(heap) /\ C = ReachableFrom(heap, {o}) /\ o \in pins
    BY <1>2, <1>5 DEF kept
  <2>2. \A x \in Live(heap) : /\ part[x] \in Nat /\ part[x] # last
                              /\ part[x] = 0 <=> x \in C
    BY <1>3, <1>5, <1>7, <1>8
  <2>3. ASSUME NEW x \in Live(heap)
        PROVE  x \in C \/ x \in pins \/ \E y \in Live(heap) : x \in Children(heap, y)
    <3>1. x \in Held(circuits) \/ \E y \in Live(heap) : x \in Children(heap, y)
      <4>1. Held(circuits) \in SUBSET Live(heap)
        BY <1>4, HeldLive
      <4> QED
        BY <1>4, <4>1, ReachedFrom
    <3>2. ASSUME x \in Held(circuits), x \notin C
          PROVE  x \in Held(circuits')
      <4>1. PICK i \in 1 .. Len(circuits) : x = circuits[i].output \/ x \in Range(circuits[i].inputs)
        BY <1>3, <3>2, HeldBy
      <4>2. w[x].part = i
        BY <1>4, <4>1 DEF CircuitsOK
      <4>3. i # last
        BY <1>5, <3>2, <4>2
      <4>4. circuits'[i] = circuits[i] /\ i \in 1 .. last
        BY <1>3, <1>10, <4>3
      <4> DEFINE ds == circuits'
      <4>5. DOMAIN ds = 1 .. Len(ds) /\ i \in 1 .. Len(ds)
            /\ (x = ds[i].output \/ x \in Range(ds[i].inputs))
        BY <1>10, <4>1, <4>4
      <4> HIDE DEF ds
      <4>6. x \in Held(ds)
        BY <4>5, HeldBy
      <4> QED
        BY <4>6 DEF ds
    <3> QED
      BY <3>1, <3>2 DEF kept
  <2>4. last # 0
    BY <1>3
  <2> HIDE DEF o, pins
  <2>5. TwinsOK(j, v, last, pins)
    BY <1>4, <1>6, <1>9, <2>1, <2>2, <2>3, <2>4, FreshTwins
  <2> QED
    BY <2>5 DEF pins
<1>15. HeapOK(j) /\ j.marked = {}
  BY <1>4, <1>6 DEF CopiedHeap, Flagged
<1>16. heap' = j
  <2> DEFINE all == kept \cup {f.gate : f \in Range(stack)}
  <2>1. heap' = Release(j, all) /\ \A g \in kept : g \in Live(j) /\ v[g].part # last => g \in all
    BY <1>2
  <2> HIDE DEF all
  <2>2. Release(j, all) = j
    BY <1>14, <1>15, <2>1, TwinsOwn
  <2> QED
    BY <2>1, <2>2
<1>17. /\ HeapOK(heap') /\ Fitting(heap', v) /\ CircuitsOK(heap', v, circuits', goal')
       /\ StrippedOK(heap', v, circuits', stripped') /\ phase' = "top" /\ stack' = <<>>
       /\ heap'.marked = {} /\ last' \notin stripped'
       /\ TwinsOK(heap', v, last', Held(circuits') \cup {oldOutput'})
  BY <1>2, <1>3, <1>10, <1>13, <1>14, <1>15, <1>16 DEF kept
<1> QED
  BY <1>17 DEF CopyInv, Sound, Idle, Stripping

-----------------------------------------------------------------------------
(* After the walk.                                                         *)

\* Every gate of circuit p is marked and every NOT gate is where it may stay.
Walked(h, w, cs, f, p, pins) ==
  /\ HeapOK(h) /\ Fitting(h, w) /\ CircuitsOK(h, w, cs, f) /\ TwinsOK(h, w, p, pins)
  /\ p \in 1 .. Len(cs) /\ cs[p].output \in h.marked
  /\ \A g \in h.marked : h.kind[g] = "NOT" => h.kind[h.in[g][1]] = "INPUT"
  /\ \A g \in h.marked : \A s \in DOMAIN h.in[g] : Settled(h, g, s)

\* All that is left of circuit p is marked, and is reset.
LEMMA AllMarked ==
  ASSUME NEW h, NEW w, NEW cs, NEW f, NEW p, NEW pins, Walked(h, w, cs, f, p, pins),
         NEW R, R = ReachableFrom(h, Held(cs)), NEW F, F = FlaggedFrom(h, cs[p].output),
         NEW N, N = ReachableFrom(h, {cs[p].output})
  PROVE  /\ N \subseteq h.marked \cap F
         /\ \A x \in R : w[x].part = p => x \in N
<1> DEFINE top == cs[p].output
           next == [x \in Live(h) |-> Children(h, x) \cap Flagged(h)]
<1>1. /\ HeapOK(h) /\ Fitting(h, w) /\ CircuitsOK(h, w, cs, f)
      /\ p \in 1 .. Len(cs) /\ top \in h.marked
      /\ \A g \in h.marked : \A s \in DOMAIN h.in[g] : h.in[g][s] \in h.marked
  BY DEF Walked, Settled
<1>2. top \in Live(h) /\ h.marked \subseteq Live(h) /\ h.marked \subseteq Flagged(h)
  BY <1>1 DEF HeapOK, Flagged
<1>3. top \in F /\ Closed(next, F)
  <2>1. IsFiniteSet(Live(h)) /\ \A x \in Live(h) : Children(h, x) \subseteq Live(h)
    BY <1>1, HeapFacts
  <2>2. next \in [Live(h) -> SUBSET Live(h)] /\ {top} \subseteq Live(h)
    BY <1>2, <2>1
  <2>3. F = Closure(next, {top})
    BY DEF FlaggedFrom
  <2> HIDE DEF next, top
  <2>4. {top} \subseteq F /\ Closed(next, F)
    BY <2>1, <2>2, <2>3, ClosureFacts
  <2> QED
    BY <2>4
<1>4. /\ top \in N /\ N \subseteq Live(h) /\ Downward(h, N)
      /\ \A T : top \in T /\ Downward(h, T) => N \subseteq T
  <2> HIDE DEF top
  <2> DEFINE D == ReachableFrom(h, {top})
  <2>1. N = D
    BY DEF top
  <2>3. /\ {top} \subseteq D /\ D \subseteq Live(h) /\ Downward(h, D)
        /\ \A T : {top} \subseteq T /\ Downward(h, T) => D \subseteq T
    <3>1. HeapOK(h) /\ {top} \in SUBSET Live(h)
      BY <1>1, <1>2
    <3> QED
      BY <3>1, ReachOK
  <2> HIDE DEF D
  <2>2. /\ {top} \subseteq N /\ N \subseteq Live(h) /\ Downward(h, N)
        /\ \A T : {top} \subseteq T /\ Downward(h, T) => N \subseteq T
    BY <2>1, <2>3
  <2> QED
    BY <2>2
<1>5. N \subseteq h.marked \cap F
  <2>1. Downward(h, h.marked \cap F)
    <3> SUFFICES ASSUME NEW x \in F, x \in h.marked, NEW y \in Children(h, x)
                 PROVE  y \in F /\ y \in h.marked
      BY DEF Downward
    <3>1. y \in h.marked
      BY <1>1 DEF Children, Range
    <3>2. x \in DOMAIN next /\ y \in next[x]
      BY <1>2, <3>1
    <3> HIDE DEF next
    <3> QED
      BY <1>3, <3>1, <3>2 DEF Closed
  <2> HIDE DEF top
  <2> QED
    BY <1>1, <1>3, <1>4, <2>1
<1>6. \A x \in R : w[x].part = p => x \in N
  <2> DEFINE T == {x \in Live(h) : w[x].part = p => x \in N}
  <2>1. Held(cs) \in SUBSET Live(h) /\ DOMAIN cs = 1 .. Len(cs)
    BY <1>1, HeldLive DEF CircuitsOK
  <2>2. Range(cs[p].inputs) \subseteq N
    <3>1. w[top].inputs = Range(cs[p].inputs)
      BY <1>1 DEF CircuitsOK
    <3>2. w[top].inputs \subseteq N
      <4> HIDE DEF top
      <4> QED
        BY <1>1, <1>2, <1>4, InputsReached
    <3> QED
      BY <3>1, <3>2
  <2>3. ASSUME NEW g \in Held(cs) PROVE g \in T
    <3>1. PICK n \in 1 .. Len(cs) : g = cs[n].output \/ g \in Range(cs[n].inputs)
      BY <2>1, HeldBy
    <3>2. g \in Live(h) /\ w[g].part = n
      BY <1>1, <3>1 DEF CircuitsOK
    <3> QED
      BY <1>4, <2>2, <3>1, <3>2
  <2>4. Downward(h, T)
    <3> SUFFICES ASSUME NEW x \in Live(h), x \in T, NEW c \in Children(h, x) PROVE c \in T
      BY DEF Downward
    <3>1. c \in Live(h) /\ w[c].part = w[x].part
      BY <1>1, HeapFacts DEF Fitting
    <3> QED
      BY <1>4, <3>1 DEF Downward
  <2> HIDE DEF T
  <2>5. R \subseteq T
    BY <1>1, <2>1, <2>3, <2>4, ReachOK
  <2> QED
    BY <2>5 DEF T
<1> QED
  BY <1>5, <1>6

\* Once the twins are reset and the old output is dropped, the owners that
\* are left lead up to a circuit.
LEMMA OnlyReached ==
  ASSUME NEW h, NEW w, NEW cs, NEW f, NEW p, NEW pins, Walked(h, w, cs, f, p, pins),
         NEW R, R = ReachableFrom(h, Held(cs)), NEW F, F = FlaggedFrom(h, cs[p].output),
         NEW k, k.kind = h.kind, k.in = h.in, k.strong = [x \in DOMAIN h.strong \ F |-> h.strong[x]]
  PROVE  Owned(k, Held(cs)) = R /\ \A x \in R : w[x].part # 0
<1> DEFINE N == ReachableFrom(h, {cs[p].output})
           K == Owned(k, Held(cs))
           X == {x \in K : w[x].part = 0}
           Y == {x \in K : x \notin R}
           rank == [x \in Live(h) |-> w[x].rank]
           f2 == [x \in Live(h) |-> IF x \in DOMAIN h.weak THEN 2 * w[x].rank ELSE 2 * w[x].rank + 1]
<1>1. /\ HeapOK(h) /\ Fitting(h, w) /\ CircuitsOK(h, w, cs, f) /\ TwinsOK(h, w, p, pins)
      /\ p \in 1 .. Len(cs) /\ Len(cs) \in Nat \ {0} /\ p # 0 /\ DOMAIN cs = 1 .. Len(cs)
  BY DEF Walked, CircuitsOK
<1>2. N \subseteq F /\ \A x \in R : w[x].part = p => x \in N
  BY AllMarked
<1> HIDE DEF N
<1>3. /\ Live(k) = Live(h) /\ IsFiniteSet(Live(h)) /\ \A x : Children(k, x) = Children(h, x)
      /\ \A x \in Live(h) : Children(h, x) \subseteq Live(h)
  BY <1>1, HeapFacts DEF Live, Children
<1>4. /\ K \subseteq Live(h)
      /\ \A x \in K : \/ x \in Held(cs)
                      \/ \E g \in K : x \in Children(h, g)
                      \/ \E g \in K : g \in DOMAIN h.strong /\ g \notin F /\ x = h.strong[g]
      /\ \A S \in SUBSET Live(h) : SelfOwned(k, Held(cs), S) => S \subseteq K
  <2> DEFINE held == Held(cs)
  <2> HIDE DEF held
  <2>1. /\ Owned(k, held) \subseteq Live(k) /\ SelfOwned(k, held, Owned(k, held))
        /\ \A S \in SUBSET Live(k) : SelfOwned(k, held, S) => S \subseteq Owned(k, held)
    BY <1>3, OwnedFacts
  <2>2. \A g : OwnedBy(k, g) = Children(h, g) \cup {h.strong[x] : x \in ({g} \cap DOMAIN h.strong) \ F}
    BY <1>3 DEF OwnedBy
  <2> QED
    BY <1>3, <2>1, <2>2 DEF held, SelfOwned
<1> HIDE DEF K
<1>5. Held(cs) \in SUBSET Live(h) /\ \A g \in Held(cs) : w[g].part \in 1 .. Len(cs)
  BY <1>1, HeldLive
<1>6. /\ Held(cs) \subseteq R /\ R \subseteq Live(h) /\ Downward(h, R)
      /\ \A x \in R : x \in Held(cs) \/ \E y \in R : x \in Children(h, y)
  BY <1>1, <1>5, ReachOK, ReachedFrom
<1>7. R \subseteq K
  <2>1. SelfOwned(k, Held(cs), R)
    BY <1>3, <1>6 DEF SelfOwned, OwnedBy
  <2> QED
    BY <1>4, <1>6, <2>1
<1>8. \A x \in Live(h) : \A y \in Children(h, x) : w[y].rank < w[x].rank /\ w[y].part = w[x].part
  <2> SUFFICES ASSUME NEW x \in Live(h), NEW y \in Children(h, x) PROVE w[y].rank < w[x].rank
    BY <1>1 DEF Fitting
  <2>1. Fits(h, w, x) /\ \A c \in Live(h) : w[c].rank \in Nat
    BY <1>1 DEF Fitting
  <2>2. h.kind[x] \in {"INPUT", "TRUE", "FALSE", "NOT", "AND", "OR"}
    BY <1>1 DEF HeapOK
  <2>3. CASE h.kind[x] \in {"INPUT", "TRUE", "FALSE"}
    BY <1>1, <2>3, HeapFacts
  <2>4. CASE h.kind[x] = "NOT"
    BY <1>1, <2>1, <2>4, HeapFacts DEF Fits
  <2>5. CASE h.kind[x] \in {"AND", "OR"}
    <3>1. /\ Children(h, x) = {h.in[x][1], h.in[x][2]}
          /\ h.in[x][1] \in Live(h) /\ h.in[x][2] \in Live(h)
      BY <1>1, <2>5, HeapFacts
    <3>2. w[x].rank > w[h.in[x][1]].rank + 1 /\ w[x].rank > w[h.in[x][2]].rank + 1
      BY <2>1, <2>5 DEF Fits
    <3> QED
      BY <2>1, <3>1, <3>2
  <2> QED
    BY <2>2, <2>3, <2>4, <2>5
<1>9. \A g \in DOMAIN h.strong : w[g].part \in {0, p} /\ w[h.strong[g]].part = p
  <2>1. \A g \in DOMAIN h.strong : w[g].part \in {0, p} /\ g \in Live(h)
    BY <1>1 DEF TwinsOK, OriginalOK, Flagged, Twinned, HeapOK
  <2>2. \A g \in DOMAIN h.strong : w[g].part = 0 => w[h.strong[g]].part = p
    BY <1>1, <2>1 DEF TwinsOK, OriginalOK
  <2>3. \A g \in DOMAIN h.strong : w[g].part = p => w[h.strong[g]].part = p
    BY <1>1 DEF TwinsOK, StrongOK, NegationOf
  <2> QED
    BY <2>1, <2>2, <2>3
<1>10. X = {}
  <2> SUFFICES ASSUME X # {} PROVE FALSE
    OBVIOUS
  <2>1. IsFiniteSet(X) /\ X \subseteq Live(h)
    BY <1>3, <1>4, FS_Subset
  <2>2. \A x \in X : rank[x] \in Nat
    BY <1>1, <2>1 DEF Fitting
  <2>3. PICK x \in X : \A y \in X : rank[y] <= rank[x]
    <3> HIDE DEF X, rank
    <3> QED
      BY <2>1, <2>2, HighestOf
  <2>4. x \notin Held(cs) /\ x \in K /\ w[x].part = 0
    BY <1>5
  <2>5. ASSUME NEW g \in K, x \in Children(h, g) PROVE FALSE
    <3>1. g \in X /\ w[x].rank < w[g].rank
      BY <1>4, <1>8, <2>4, <2>5
    <3>2. rank[g] <= rank[x] /\ rank[g] = w[g].rank /\ rank[x] = w[x].rank
      BY <1>4, <2>1, <2>3, <3>1
    <3> QED
      BY <1>1, <1>4, <3>1, <3>2, <2>4 DEF Fitting
  <2> QED
    BY <1>1, <1>4, <1>9, <2>4, <2>5
<1>11. Y = {}
  <2> SUFFICES ASSUME Y # {} PROVE FALSE
    OBVIOUS
  <2>1. IsFiniteSet(Y) /\ Y \subseteq Live(h)
    BY <1>3, <1>4, FS_Subset
  <2>2. \A x \in Y : f2[x] \in Nat
    BY <1>1, <2>1 DEF Fitting
  <2>3. PICK x \in Y : \A y \in Y : f2[y] <= f2[x]
    <3> HIDE DEF Y, f2
    <3> QED
      BY <2>1, <2>2, HighestOf
  <2>4. x \notin Held(cs) /\ x \in K /\ x \notin R /\ x \in Live(h)
    BY <1>4, <1>6
  <2>5. ASSUME NEW g \in Y PROVE ~(w[x].rank < w[g].rank)
    <3>1. g \in Live(h) /\ w[g].rank \in Nat /\ w[x].rank \in Nat
      BY <1>1, <2>1, <2>4 DEF Fitting
    <3>2. f2[g] <= f2[x]
      BY <2>3
    <3> QED
      BY <2>4, <3>1, <3>2
  <2>6. ASSUME NEW g \in K, x \in Children(h, g) PROVE FALSE
    <3>1. g \in Y /\ w[x].rank < w[g].rank
      BY <1>4, <1>6, <1>8, <2>4, <2>6 DEF Downward
    <3> QED
      BY <2>5, <3>1
  <2>7. ASSUME NEW g \in K, g \in DOMAIN h.strong, g \notin F, x = h.strong[g] PROVE FALSE
    <3>1. w[g].part = p /\ g \in Live(h)
      BY <1>4, <1>9, <1>10, <2>7
    <3>2. g \in Y
      BY <1>2, <2>7, <3>1
    <3>3. /\ g \in Copies(h, w)
          /\ IF h.kind[g] = "NOT" THEN x = h.in[g][1]
             ELSE /\ x \in DOMAIN h.weak
                  /\ h.kind[g] # "INPUT" => w[x].rank = w[g].rank
      BY <1>1, <2>7, <3>1 DEF TwinsOK, StrongOK
    <3>4. CASE h.kind[g] = "NOT"
      <4>1. x \in Children(h, g)
        BY <1>1, <3>1, <3>3, <3>4, HeapFacts
      <4> QED
        BY <2>6, <4>1
    <3>5. CASE h.kind[g] = "INPUT"
      <4>1. g \in Range(cs[p].inputs)
        BY <1>1, <3>1, <3>5 DEF CircuitsOK
      <4>2. g \in Held(cs)
        BY <1>1, <4>1, HeldBy
      <4> QED
        BY <1>6, <3>2, <4>2
    <3>6. CASE h.kind[g] \notin {"INPUT", "NOT"}
      <4>1. g \notin DOMAIN h.weak
        BY <1>1, <3>1, <3>3 DEF TwinsOK, WeakOK
      <4>2. f2[g] = 2 * w[g].rank + 1 /\ f2[x] = 2 * w[x].rank /\ w[x].rank = w[g].rank
        BY <2>4, <3>1, <3>3, <3>6, <4>1
      <4>3. w[g].rank \in Nat /\ f2[g] <= f2[x]
        BY <1>1, <2>3, <3>1, <3>2 DEF Fitting
      <4> QED
        BY <4>2, <4>3
    <3> QED
      BY <3>4, <3>5, <3>6
  <2> QED
    BY <1>4, <2>4, <2>6, <2>7
<1> QED
  BY <1>6, <1>7, <1>10, <1>11 DEF K

\* m is h without the gates above R, and without flags.
Cut(h, m, R) ==
  /\ m.next = h.next /\ m.kind = [g \in R |-> h.kind[g]] /\ m.in = [g \in R |-> h.in[g]]
  /\ m.id = [g \in DOMAIN h.id \cap R |-> h.id[g]]
  /\ m.strong = [g \in {} |-> h.strong[g]] /\ m.weak = [g \in {} |-> h.weak[g]] /\ m.marked = {}
  /\ m = [next |-> m.next, kind |-> m.kind, in |-> m.in, id |-> m.id,
          strong |-> m.strong, weak |-> m.weak, marked |-> m.marked]

LEMMA CutFacts ==
  ASSUME NEW h, HeapOK(h), NEW w, Fitting(h, w), NEW cs, NEW f, CircuitsOK(h, w, cs, f),
         NEW S, StrippedOK(h, w, cs, S), NEW R, R = ReachableFrom(h, Held(cs)),
         NEW m, Cut(h, m, R)
  PROVE  LET u == [x \in R |-> w[x]] IN
         /\ HeapOK(m) /\ Fitting(m, u) /\ CircuitsOK(m, u, cs, f) /\ StrippedOK(m, u, cs, S)
         /\ Flagged(m) = {} /\ Live(m) = ReachableFrom(m, Held(cs)) /\ Live(m) = R
<1> DEFINE u == [x \in R |-> w[x]]
<1>1. Held(cs) \in SUBSET Live(h) /\ DOMAIN cs = 1 .. Len(cs)
  BY HeldLive DEF CircuitsOK
<1>2. /\ Held(cs) \subseteq R /\ R \subseteq Live(h) /\ Downward(h, R)
      /\ \A T : Held(cs) \subseteq T /\ Downward(h, T) => R \subseteq T
  BY <1>1, ReachOK
<1>3. /\ Live(m) = R /\ DOMAIN m.in = R /\ m.next = h.next
      /\ \A x \in R : m.kind[x] = h.kind[x] /\ m.in[x] = h.in[x] /\ Children(m, x) = Children(h, x)
      /\ DOMAIN m.id = DOMAIN h.id \cap R /\ \A x \in DOMAIN h.id \cap R : m.id[x] = h.id[x]
      /\ DOMAIN m.strong = {} /\ DOMAIN m.weak = {} /\ m.marked = {}
  BY DEF Cut, Live, Children
<1>4. Flagged(m) = {} /\ Twinned(m) = {}
  BY <1>3 DEF Flagged, Twinned
<1>5. \A x \in R : Children(h, x) \subseteq R
  BY <1>2 DEF Downward
<1>6. HeapOK(m)
  <2>1. m = [next |-> m.next, kind |-> [g \in Live(m) |-> m.kind[g]],
             in |-> [g \in Live(m) |-> m.in[g]], id |-> [g \in DOMAIN m.id |-> m.id[g]],
             strong |-> [g \in DOMAIN m.strong |-> m.strong[g]],
             weak |-> [g \in DOMAIN m.weak |-> m.weak[g]], marked |-> m.marked]
    <3>1. /\ m.kind = [g \in Live(m) |-> m.kind[g]] /\ m.in = [g \in Live(m) |-> m.in[g]]
          /\ m.id = [g \in DOMAIN m.id |-> m.id[g]] /\ m.strong = [g \in DOMAIN m.strong |-> m.strong[g]]
          /\ m.weak = [g \in DOMAIN m.weak |-> m.weak[g]]
      BY <1>3 DEF Cut
    <3> QED
      BY <3>1 DEF Cut
  <2>2. /\ m.next \in Nat \ {0} /\ Live(m) \subseteq 1 .. m.next - 1
    BY <1>2, <1>3 DEF HeapOK
  <2>3. ASSUME NEW g \in Live(m)
        PROVE  /\ m.kind[g] \in {"INPUT", "TRUE", "FALSE", "NOT", "AND", "OR"}
               /\ DOMAIN m.in[g] = 1 .. Arity(m.kind[g]) /\ Children(m, g) \subseteq Live(m)
               /\ g \in DOMAIN m.id <=> m.kind[g] = "INPUT"
    BY <1>2, <1>3, <1>5 DEF HeapOK
  <2>4. m.marked \subseteq Live(m) /\ DOMAIN m.id \subseteq Live(m)
    BY <1>3
  <2> QED
    BY <1>3, <1>4, <2>1, <2>2, <2>3, <2>4 DEF HeapOK
<1>7. \A x \in R : u[x] = w[x]
  OBVIOUS
<1>8. Fitting(m, u)
  <2> SUFFICES ASSUME NEW x \in R
               PROVE  /\ u[x].rank \in Nat /\ u[x].part \in Nat /\ u[x].value \in SUBSET Valuation
                      /\ \A c \in Children(m, x) : u[c].part = u[x].part
                      /\ Fits(m, u, x)
    BY <1>3 DEF Fitting
  <2>1. /\ w[x].rank \in Nat /\ w[x].part \in Nat /\ w[x].value \in SUBSET Valuation
        /\ \A c \in Children(h, x) : w[c].part = w[x].part
        /\ Fits(h, w, x)
    BY <1>2 DEF Fitting
  <2>2. h.kind[x] = "INPUT" => m.id[x] = h.id[x]
    BY <1>2, <1>3 DEF HeapOK
  <2>3. \A y \in R : Alike(w, y, u, y)
    BY <1>7 DEF Alike
  <2> HIDE DEF u
  <2>4. Fits(m, u, x)
    BY <1>2, <1>3, <1>5, <2>1, <2>2, <2>3, SameFits
  <2> QED
    BY <1>3, <1>5, <1>7, <2>1, <2>4
<1> HIDE DEF u
<1>9. CircuitsOK(m, u, cs, f)
  <2>1. ASSUME NEW n \in 1 .. Len(cs)
        PROVE  /\ cs[n].output \in R /\ Range(cs[n].inputs) \subseteq R
    <3>1. \A g : g = cs[n].output \/ g \in Range(cs[n].inputs) => g \in Held(cs)
      BY <1>1, HeldBy
    <3> QED
      BY <1>2, <3>1
  <2>2. ASSUME NEW n \in 1 .. Len(cs)
        PROVE  /\ cs[n].output \in Live(m) /\ u[cs[n].output].part = n
               /\ u[cs[n].output].value = f
               /\ DOMAIN cs[n].inputs = InputGate
               /\ u[cs[n].output].inputs = Range(cs[n].inputs)
               /\ Range(cs[n].inputs) = {g \in Live(m) : u[g].part = n /\ m.kind[g] = "INPUT"}
    <3>1. /\ w[cs[n].output].part = n /\ w[cs[n].output].value = f
          /\ DOMAIN cs[n].inputs = InputGate /\ w[cs[n].output].inputs = Range(cs[n].inputs)
          /\ Range(cs[n].inputs) = {g \in Live(h) : w[g].part = n /\ h.kind[g] = "INPUT"}
      BY DEF CircuitsOK
    <3>2. {g \in Live(m) : u[g].part = n /\ m.kind[g] = "INPUT"}
            = R \cap {g \in Live(h) : w[g].part = n /\ h.kind[g] = "INPUT"}
      BY <1>2, <1>3, <1>7
    <3> QED
      BY <1>3, <1>7, <2>1, <3>1, <3>2
  <2> QED
    BY <1>2, <1>3, <1>7, <2>2 DEF CircuitsOK
<1>10. StrippedOK(m, u, cs, S)
  <2> SUFFICES ASSUME NEW i \in S, NEW g \in R, u[g].part = i, m.kind[g] = "NOT"
               PROVE  /\ m.kind[m.in[g][1]] = "INPUT"
                      /\ g = cs[i].output
                           \/ \A x \in R \ {g, cs[i].output} :
                                u[x].part = i /\ m.kind[x] = "NOT" => m.in[x] # m.in[g]
    BY <1>3 DEF StrippedOK, Clean
  <2>1. Clean(h, w, i, cs[i].output) /\ g \in Live(h) /\ w[g].part = i /\ h.kind[g] = "NOT"
    BY <1>2, <1>3, <1>7 DEF StrippedOK
  <2>2. h.in[g][1] \in R
    BY <1>5, <2>1, HeapFacts
  <2>3. h.kind[h.in[g][1]] = "INPUT"
        /\ (g = cs[i].output
              \/ \A x \in Live(h) \ {g, cs[i].output} :
                   w[x].part = i /\ h.kind[x] = "NOT" => h.in[x] # h.in[g])
    BY <2>1 DEF Clean
  <2> QED
    BY <1>2, <1>3, <1>7, <2>2, <2>3
<1>11. Live(m) = ReachableFrom(m, Held(cs))
  <2> DEFINE M == ReachableFrom(m, Held(cs))
  <2>1. Held(cs) \subseteq M /\ M \subseteq Live(m) /\ Downward(m, M)
    BY <1>2, <1>3, <1>6, ReachOK
  <2> HIDE DEF M
  <2>2. Downward(h, M)
    BY <1>3, <2>1 DEF Downward
  <2>3. R \subseteq M
    BY <1>2, <2>1, <2>2
  <2> QED
    BY <1>3, <2>1, <2>3 DEF M
<1> QED
  BY <1>3, <1>4, <1>6, <1>8, <1>9, <1>10, <1>11 DEF u

\* The NOT gates of the circuit that was stripped are above inputs, and each
\* but the output is the one its input kept as its twin.
LEMMA NotsLeft ==
  ASSUME NEW h, NEW w, NEW cs, NEW f, NEW p, NEW pins, Walked(h, w, cs, f, p, pins),
         NEW R, R = ReachableFrom(h, Held(cs)), NEW m, Cut(h, m, R), NEW u, u = [x \in R |-> w[x]]
  PROVE  Clean(m, u, p, cs[p].output)
<1> DEFINE top == cs[p].output
           N == ReachableFrom(h, {top})
           F == FlaggedFrom(h, top)
<1>1. /\ HeapOK(h) /\ CircuitsOK(h, w, cs, f) /\ top \in h.marked
      /\ \A g \in h.marked : h.kind[g] = "NOT" => h.kind[h.in[g][1]] = "INPUT"
      /\ \A g \in h.marked : \A s \in DOMAIN h.in[g] : Settled(h, g, s)
  BY DEF Walked
<1>2. N \subseteq h.marked /\ \A x \in R : w[x].part = p => x \in N
  BY AllMarked
<1>3. \A x \in N : x = top \/ \E y \in N : x \in Children(h, y)
  <2>1. HeapOK(h) /\ {top} \in SUBSET Live(h)
    BY <1>1 DEF HeapOK
  <2> HIDE DEF top
  <2> QED
    BY <2>1, ReachedFrom
<1> HIDE DEF N, top
<1>4. R \subseteq Live(h) /\ Downward(h, R)
  <2>1. Held(cs) \in SUBSET Live(h)
    BY <1>1, HeldLive
  <2> QED
    BY <1>1, <2>1, ReachOK
<1>5. /\ Live(m) = R
      /\ \A x \in R : m.kind[x] = h.kind[x] /\ m.in[x] = h.in[x] /\ u[x] = w[x]
  BY DEF Cut, Live
<1>6. ASSUME NEW g \in R, w[g].part = p, h.kind[g] = "NOT"
      PROVE  /\ h.kind[h.in[g][1]] = "INPUT" /\ h.in[g][1] \in R
             /\ g # top => g = h.strong[h.in[g][1]]
  <2>1. g \in N /\ g \in h.marked
    BY <1>2, <1>6
  <2>2. h.in[g][1] \in R
    BY <1>1, <1>4, <1>6, HeapFacts DEF Downward
  <2>3. g # top => \E y \in N : \E s \in DOMAIN h.in[y] : g = h.in[y][s]
    BY <1>3, <2>1 DEF Children, Range
  <2>4. \A y \in N : \A s \in DOMAIN h.in[y] : Settled(h, y, s)
    BY <1>1, <1>2
  <2>5. g # top => g = h.strong[h.in[g][1]]
    BY <1>6, <2>3, <2>4 DEF Settled
  <2> QED
    BY <1>1, <1>6, <2>1, <2>2, <2>5
<1>7. ASSUME NEW g \in Live(m), u[g].part = p, m.kind[g] = "NOT"
      PROVE  /\ m.kind[m.in[g][1]] = "INPUT"
             /\ g = top \/ \A x \in Live(m) \ {g, top} :
                             u[x].part = p /\ m.kind[x] = "NOT" => m.in[x] # m.in[g]
  <2>1. g \in R /\ w[g].part = p /\ h.kind[g] = "NOT" /\ m.in[g] = h.in[g]
    BY <1>5, <1>7
  <2>2. m.kind[m.in[g][1]] = "INPUT"
    BY <1>5, <1>6, <2>1
  <2>3. ASSUME g # top, NEW x \in Live(m) \ {g, top}, u[x].part = p, m.kind[x] = "NOT", m.in[x] = m.in[g]
        PROVE  FALSE
    <3>1. x \in R /\ w[x].part = p /\ h.kind[x] = "NOT" /\ h.in[x] = h.in[g] /\ x # top /\ x # g
      BY <1>5, <2>1, <2>3
    <3>2. x = h.strong[h.in[x][1]] /\ g = h.strong[h.in[g][1]]
      BY <1>6, <2>1, <2>3, <3>1
    <3> QED
      BY <3>1, <3>2
  <2> QED
    BY <2>2, <2>3
<1> QED
  BY <1>7 DEF Clean, top

LEMMA EndStripKeeps ==
  ASSUME CopyInv, EndStrip
  PROVE  CopyInv'
<1> DEFINE top == circuits[last].output
           pins == Held(circuits) \cup {oldOutput}
           F == FlaggedFrom(heap, top)
           k == ResetTwins(heap, top)
           R == ReachableFrom(heap, Held(circuits))
<1>1. PICK w : Sound(w)
  BY DEF CopyInv
<1> DEFINE u == [x \in R |-> w[x]]
<1>2. /\ phase = "walk" /\ stack = <<>> /\ phase' = "idle" /\ stripped' = stripped \cup {last}
      /\ heap' = Release(k, Held(circuits) \cup {} \cup {g.gate : g \in Range(stack)})
      /\ UNCHANGED <<circuits, stack, goal>>
  BY DEF EndStrip, Keep
<1>3. heap' = Release(k, Held(circuits))
  <2>1. {g.gate : g \in Range(stack)} = {}
    BY <1>2 DEF Range
  <2>2. Held(circuits) \cup {} \cup {g.gate : g \in Range(stack)} = Held(circuits)
    BY <2>1
  <2> HIDE DEF k
  <2> QED
    BY <1>2, <2>2
<1>4. /\ HeapOK(heap) /\ Fitting(heap, w) /\ CircuitsOK(heap, w, circuits, goal)
      /\ StrippedOK(heap, w, circuits, stripped) /\ last \notin stripped
      /\ last \in 1 .. Len(circuits) /\ TwinsOK(heap, w, last, pins)
  <2> HIDE DEF pins
  <2> QED
    BY <1>1, <1>2, Walking DEF pins
<1>5. WalkOK(heap, w, stack) /\ top \in heap.marked
  BY <1>1, <1>2 DEF Sound, Stripping
<1>6. Walked(heap, w, circuits, goal, last, pins)
  <2>1. Len(stack) = 0
    BY <1>2
  <2>2. \A g \in heap.marked : \A s \in DOMAIN heap.in[g] : Settled(heap, g, s)
    <3>1. ~ \E i \in 1 .. Len(stack) : TRUE
      BY <2>1
    <3> QED
      BY <1>5, <3>1 DEF WalkOK
  <2>3. \A g \in heap.marked : heap.kind[g] = "NOT" => heap.kind[heap.in[g][1]] = "INPUT"
    BY <1>5 DEF WalkOK
  <2> HIDE DEF pins
  <2> QED
    BY <1>4, <1>5, <2>2, <2>3 DEF Walked
<1> HIDE DEF pins
<1>7. /\ k.next = heap.next /\ k.kind = heap.kind /\ k.in = heap.in /\ k.id = heap.id
      /\ k.strong = [x \in DOMAIN heap.strong \ F |-> heap.strong[x]]
      /\ k.weak = [x \in DOMAIN heap.weak \ F |-> heap.weak[x]]
      /\ k.marked = heap.marked \ F
      /\ k = [next |-> k.next, kind |-> k.kind, in |-> k.in, id |-> k.id,
              strong |-> k.strong, weak |-> k.weak, marked |-> k.marked]
  <2>1. heap = [next |-> heap.next, kind |-> heap.kind, in |-> heap.in, id |-> heap.id,
                strong |-> heap.strong, weak |-> heap.weak, marked |-> heap.marked]
    BY <1>4 DEF HeapOK
  <2>2. k = [heap EXCEPT !.marked = heap.marked \ F,
                         !.strong = [x \in DOMAIN heap.strong \ F |-> heap.strong[x]],
                         !.weak = [x \in DOMAIN heap.weak \ F |-> heap.weak[x]]]
    BY DEF ResetTwins
  <2> HIDE DEF F
  <2> QED
    BY <2>1, <2>2
<1> HIDE DEF k
<1>8. /\ Owned(k, Held(circuits)) = R /\ \A x \in R : w[x].part # 0
  <2> DEFINE p == last
  <2>1. Walked(heap, w, circuits, goal, p, pins) /\ F = FlaggedFrom(heap, circuits[p].output)
    BY <1>6
  <2> HIDE DEF p, F
  <2> QED
    BY <1>7, <2>1, OnlyReached
<1>9. R \subseteq Live(heap) /\ \A x \in R : x \in Flagged(heap) => x \in F
  <2>1. R \subseteq Live(heap)
    <3>1. Held(circuits) \in SUBSET Live(heap)
      BY <1>4, HeldLive
    <3> QED
      BY <1>4, <3>1, ReachOK
  <2>2. \A x \in R : w[x].part = last => x \in F
    <3> DEFINE p == last
               N == ReachableFrom(heap, {circuits[p].output})
    <3>1. /\ Walked(heap, w, circuits, goal, p, pins) /\ F = FlaggedFrom(heap, circuits[p].output)
          /\ R = ReachableFrom(heap, Held(circuits)) /\ N = ReachableFrom(heap, {circuits[p].output})
      BY <1>6
    <3> HIDE DEF p, F, R, N
    <3>2. N \subseteq F /\ \A x \in R : w[x].part = p => x \in N
      BY <3>1, AllMarked
    <3> QED
      BY <3>2 DEF p
  <2>3. \A x \in Flagged(heap) : w[x].part \in {0, last}
    BY <1>4 DEF TwinsOK, OriginalOK
  <2> HIDE DEF R, F
  <2> QED
    BY <1>8, <2>1, <2>2, <2>3
<1> HIDE DEF F, R
<1>10. Cut(heap, heap', R)
  <2>1. /\ (DOMAIN heap.strong \ F) \cap R = {} /\ (DOMAIN heap.weak \ F) \cap R = {}
        /\ (heap.marked \ F) \cap R = {}
    BY <1>9 DEF Flagged, Twinned
  <2>2. heap' = [k EXCEPT !.kind = [g \in R |-> k.kind[g]], !.in = [g \in R |-> k.in[g]],
                          !.id = [g \in DOMAIN k.id \cap R |-> k.id[g]],
                          !.strong = [g \in DOMAIN k.strong \cap R |-> k.strong[g]],
                          !.weak = [g \in DOMAIN k.weak \cap R |-> k.weak[g]],
                          !.marked = k.marked \cap R]
    BY <1>3, <1>8 DEF Release
  <2>3. /\ DOMAIN k.strong \cap R = {} /\ DOMAIN k.weak \cap R = {} /\ k.marked \cap R = {}
    BY <1>7, <2>1
  <2>4. heap' = [next |-> heap.next, kind |-> [g \in R |-> heap.kind[g]], in |-> [g \in R |-> heap.in[g]],
                 id |-> [g \in DOMAIN heap.id \cap R |-> heap.id[g]],
                 strong |-> [g \in {} |-> k.strong[g]], weak |-> [g \in {} |-> k.weak[g]], marked |-> {}]
    BY <1>7, <2>2, <2>3
  <2>5. /\ [g \in {} |-> k.strong[g]] = [g \in {} |-> heap.strong[g]]
        /\ [g \in {} |-> k.weak[g]] = [g \in {} |-> heap.weak[g]]
    OBVIOUS
  <2> DEFINE m == heap'
  <2>6. m = [next |-> heap.next, kind |-> [g \in R |-> heap.kind[g]], in |-> [g \in R |-> heap.in[g]],
             id |-> [g \in DOMAIN heap.id \cap R |-> heap.id[g]],
             strong |-> [g \in {} |-> heap.strong[g]], weak |-> [g \in {} |-> heap.weak[g]], marked |-> {}]
    BY <2>4, <2>5
  <2> HIDE DEF m
  <2>7. Cut(heap, m, R)
    BY <2>6 DEF Cut
  <2> QED
    BY <2>7 DEF m
<1>11. /\ HeapOK(heap') /\ Fitting(heap', u) /\ CircuitsOK(heap', u, circuits, goal)
       /\ StrippedOK(heap', u, circuits, stripped) /\ Flagged(heap') = {}
       /\ Live(heap') = ReachableFrom(heap', Held(circuits)) /\ Live(heap') = R
       /\ Clean(heap', u, last, circuits[last].output)
  <2> DEFINE m == heap'
             p == last
  <2>1. Cut(heap, m, R) /\ Walked(heap, w, circuits, goal, p, pins) /\ R = ReachableFrom(heap, Held(circuits))
    BY <1>6, <1>10 DEF R
  <2> HIDE DEF m, p
  <2>2. /\ HeapOK(m) /\ Fitting(m, u) /\ CircuitsOK(m, u, circuits, goal)
        /\ StrippedOK(m, u, circuits, stripped) /\ Flagged(m) = {}
        /\ Live(m) = ReachableFrom(m, Held(circuits)) /\ Live(m) = R
    BY <1>4, <2>1, CutFacts
  <2>3. Clean(m, u, p, circuits[p].output)
    BY <2>1, NotsLeft
  <2> QED
    BY <2>2, <2>3 DEF m, p
<1>12. StrippedOK(heap', u, circuits, stripped \cup {last})
  <2> HIDE DEF u
  <2> QED
    BY <1>4, <1>11 DEF StrippedOK
<1>13. \A g \in Live(heap') : u[g].part # 0
  BY <1>8, <1>11
<1> HIDE DEF u
<1>14. /\ HeapOK(heap') /\ Fitting(heap', u) /\ CircuitsOK(heap', u, circuits', goal')
       /\ StrippedOK(heap', u, circuits', stripped') /\ phase' = "idle" /\ stack' = <<>>
       /\ Flagged(heap') = {} /\ Live(heap') = ReachableFrom(heap', Held(circuits'))
       /\ \A g \in Live(heap') : u[g].part # 0
  BY <1>2, <1>11, <1>12, <1>13
<1> QED
  BY <1>14 DEF CopyInv, Sound, Idle, Stripping

-----------------------------------------------------------------------------
(* The start.                                                              *)

\* A circuit as it is built.
LEMMA CircuitBuilt ==
  ASSUME NEW netlist \in Circuits
  PROVE  LET built == Build(netlist) IN
         /\ HeapRecord(built) /\ Layered(built) /\ Live(built) = 1 .. NumOfInputs + Len(netlist)
         /\ built.next - 1 \in Live(built) /\ built.id = [g \in InputGate |-> g]
         /\ InputGate \subseteq ReachableFrom(built, {built.next - 1})
<1>1. IsNetlist(netlist)
  BY CircuitsAssumption
<1>2. Build(netlist).next - 1 = NumOfInputs + Len(netlist)
  BY <1>1, BuiltFacts
<1>3. InputGate \subseteq ReachableFrom(Build(netlist), {NumOfInputs + Len(netlist)})
  BY CircuitsAssumption
<1> QED
  BY <1>1, <1>2, <1>3, BuiltFacts

\* Between AND and OR gates there is room for a NOT gate that is made later.
FirstRank(h, g) == IF h.kind[g] \in {"INPUT", "TRUE", "FALSE"} THEN 0 ELSE 3 * g

FirstKnown(h) ==
  [g \in Live(h) |-> [rank |-> FirstRank(h, g), part |-> 1,
                      inputs |-> ReachableFrom(h, {g}) \cap InputGate, value |-> Table(h, g)]]

LEMMA FirstFits ==
  ASSUME NEW h, Layered(h), DOMAIN h.id = InputGate
  PROVE  Fitting(h, FirstKnown(h))
<1> DEFINE w == FirstKnown(h)
           R(g) == ReachableFrom(h, {g})
<1>1. ASSUME NEW g \in Live(h)
      PROVE  /\ w[g].rank = FirstRank(h, g) /\ w[g].part = 1
             /\ w[g].inputs = R(g) \cap InputGate /\ w[g].value = Table(h, g)
  BY DEF FirstKnown
<1> HIDE DEF w
<1>2. /\ Live(h) \subseteq Nat \ {0} /\ DOMAIN w = Live(h)
      /\ \A g \in Live(h) :
              /\ h.kind[g] \in {"INPUT", "TRUE", "FALSE", "NOT", "AND", "OR"}
              /\ h.kind[g] = "INPUT" <=> g \in InputGate
              /\ h.kind[g] \in {"INPUT", "TRUE", "FALSE"} => Children(h, g) = {}
              /\ h.kind[g] = "NOT" =>
                   h.in[g][1] \in Live(h) /\ h.in[g][1] < g /\ Children(h, g) = {h.in[g][1]}
              /\ h.kind[g] \in {"AND", "OR"} =>
                   /\ h.in[g][1] \in Live(h) /\ h.in[g][1] < g
                   /\ h.in[g][2] \in Live(h) /\ h.in[g][2] < g
                   /\ Children(h, g) = {h.in[g][1], h.in[g][2]}
      /\ \A g \in Live(h) : Children(h, g) \subseteq Live(h)
  BY LayeredFacts DEF Layered, w, FirstKnown
<1>3. ASSUME NEW g \in Live(h)
      PROVE  \A z : z \in R(g) <=> z = g \/ \E y \in Children(h, g) : z \in R(y)
  <2> DEFINE next == [x \in Live(h) |-> Children(h, x)]
  <2>1. IsFiniteSet(Live(h)) /\ next \in [Live(h) -> SUBSET Live(h)]
    BY LiveIsFinite, ChildrenAreLive
  <2>2. \A x : R(x) = Closure(next, {x})
    BY DEF ReachableFrom
  <2>3. next[g] = Children(h, g)
    OBVIOUS
  <2> HIDE DEF R, next
  <2>4. \A z : z \in Closure(next, {g}) <=> z = g \/ \E y \in next[g] : z \in Closure(next, {y})
    BY <2>1, ClosureOfOne
  <2> QED
    BY <2>2, <2>3, <2>4
<1> HIDE DEF R
<1>4. ASSUME NEW g \in Live(h)
      PROVE  /\ w[g].rank \in Nat /\ w[g].part \in Nat /\ w[g].value \in SUBSET Valuation
             /\ \A x \in Children(h, g) : w[x].part = w[g].part
             /\ Fits(h, w, g)
  <2>1. w[g].rank \in Nat
    BY <1>1, <1>2 DEF FirstRank
  <2>2. w[g].value \in SUBSET Valuation
    BY <1>1, TableIsSet
  <2>3. \A x \in Children(h, g) : w[x].part = w[g].part
    BY <1>1, <1>2
  <2>4. Fits(h, w, g)
    <3>1. CASE h.kind[g] \in {"INPUT", "TRUE", "FALSE"}
      <4>1. w[g].rank = 0
        BY <1>1, <3>1 DEF FirstRank
      <4>2. R(g) = {g}
        BY <1>2, <1>3, <3>1
      <4>3. w[g].inputs = IF h.kind[g] = "INPUT" THEN {g} ELSE {}
        <5>1. w[g].inputs = {g} \cap InputGate
          BY <1>1, <4>2
        <5>2. h.kind[g] = "INPUT" <=> g \in InputGate
          BY <1>2
        <5> QED
          BY <5>1, <5>2
      <4>4. /\ h.kind[g] = "INPUT" => w[g].value = {a \in Valuation : h.id[g] \in a}
            /\ h.kind[g] = "TRUE" => w[g].value = Valuation
            /\ h.kind[g] = "FALSE" => w[g].value = {}
        BY <1>1, TableOf
      <4> QED
        BY <3>1, <4>1, <4>3, <4>4 DEF Fits
    <3>2. CASE h.kind[g] = "NOT"
      <4> DEFINE x == h.in[g][1]
      <4>1. x \in Live(h) /\ x < g /\ Children(h, g) = {x} /\ g \in Nat \ {0} /\ x \in Nat \ {0}
        BY <1>2, <3>2
      <4>2. w[g].value = Valuation \ w[x].value
        BY <1>1, <3>2, <4>1, TableOf
      <4> HIDE DEF x
      <4>3. w[g].rank > w[x].rank
        <5>1. w[g].rank = 3 * g /\ (w[x].rank = 0 \/ w[x].rank = 3 * x)
          BY <1>1, <3>2, <4>1 DEF FirstRank
        <5> QED
          BY <4>1, <5>1
      <4>4. w[g].inputs = w[x].inputs
        <5>1. g \notin InputGate
          BY <1>2, <3>2
        <5>2. \A z \in InputGate : z \in R(g) <=> z \in R(x)
          BY <1>3, <4>1, <5>1
        <5>3. w[g].inputs = R(g) \cap InputGate /\ w[x].inputs = R(x) \cap InputGate
          BY <1>1, <4>1
        <5> QED
          BY <5>2, <5>3
      <4> QED
        BY <3>2, <4>2, <4>3, <4>4 DEF Fits, x
    <3>3. CASE h.kind[g] \in {"AND", "OR"}
      <4> DEFINE x == h.in[g][1]
                 y == h.in[g][2]
      <4>1. /\ x \in Live(h) /\ x < g /\ y \in Live(h) /\ y < g /\ Children(h, g) = {x, y}
            /\ g \in Nat \ {0} /\ x \in Nat \ {0} /\ y \in Nat \ {0}
        BY <1>2, <3>3
      <4>2. w[g].value = IF h.kind[g] = "AND" THEN w[x].value \cap w[y].value
                         ELSE w[x].value \cup w[y].value
        <5>1. /\ w[g].value = Table(h, g) /\ w[x].value = Table(h, x) /\ w[y].value = Table(h, y)
          BY <1>1, <4>1
        <5>2. /\ h.kind[g] = "AND" => Table(h, g) = Table(h, x) \cap Table(h, y)
              /\ h.kind[g] = "OR" => Table(h, g) = Table(h, x) \cup Table(h, y)
          BY TableOf
        <5> HIDE DEF x, y
        <5> QED
          BY <3>3, <5>1, <5>2
      <4> HIDE DEF x, y
      <4>3. w[g].rank > 2 /\ w[g].rank > w[x].rank + 1 /\ w[g].rank > w[y].rank + 1
        <5>1. /\ w[g].rank = 3 * g /\ (w[x].rank = 0 \/ w[x].rank = 3 * x)
              /\ (w[y].rank = 0 \/ w[y].rank = 3 * y)
          BY <1>1, <3>3, <4>1 DEF FirstRank
        <5> QED
          BY <4>1, <5>1
      <4>4. w[g].inputs = w[x].inputs \cup w[y].inputs
        <5>1. g \notin InputGate
          BY <1>2, <3>3
        <5>2. \A z \in InputGate : z \in R(g) <=> z \in R(x) \/ z \in R(y)
          BY <1>3, <4>1, <5>1
        <5> QED
          BY <1>1, <4>1, <5>2
      <4> QED
        BY <3>3, <4>2, <4>3, <4>4 DEF Fits, x, y
    <3> QED
      BY <1>2, <3>1, <3>2, <3>3
  <2> QED
    BY <1>1, <2>1, <2>2, <2>3, <2>4
<1> QED
  BY <1>2, <1>4 DEF Fitting, w

LEMMA InitKeeps ==
  ASSUME Init
  PROVE  CopyInv
<1>1. PICK netlist \in Circuits :
        LET built == Build(netlist)
            original == [inputs |-> [n \in InputGate |-> n], output |-> built.next - 1]
        IN  /\ circuits = <<original>>
            /\ heap = Untwinned(Sweep(built, Held(circuits)))
            /\ stack = <<>> /\ oldOutput = 0 /\ phase = "idle" /\ stripped = {}
            /\ goal = Table(heap, original.output)
  BY DEF Init
<1> DEFINE built == Build(netlist)
           top == built.next - 1
           pins == Held(circuits)
           s == Sweep(built, pins)
           kept == ReachableFrom(built, pins)
           w == FirstKnown(heap)
<1>2. /\ HeapRecord(built) /\ Layered(built) /\ top \in Live(built)
      /\ built.id = [g \in InputGate |-> g] /\ InputGate \subseteq Live(built)
      /\ InputGate \subseteq ReachableFrom(built, {top})
  BY CircuitBuilt DEF Layered
<1> HIDE DEF built, top
<1>3. /\ heap = Untwinned(s) /\ stack = <<>> /\ phase = "idle" /\ stripped = {}
      /\ Len(circuits) = 1 /\ DOMAIN circuits = 1 .. 1 /\ goal = Table(heap, top)
      /\ circuits[1].output = top /\ circuits[1].inputs = [n \in InputGate |-> n]
  BY <1>1 DEF built, top
<1>4. Range(circuits[1].inputs) = InputGate
  BY <1>3 DEF Range
<1>5. pins = {top} \cup InputGate
  BY <1>3, <1>4 DEF Held, Range
<1> HIDE DEF pins
<1>6. /\ Live(s) = kept /\ pins \subseteq kept /\ AgreeOn(built, s, kept)
  <2>1. pins \in SUBSET Live(built) /\ InputGate \subseteq pins
    BY <1>2, <1>5
  <2> QED
    BY <1>2, <2>1, SweepAgrees
<1>7. s.kind = [g \in kept |-> built.kind[g]] /\ s.in = [g \in kept |-> built.in[g]] /\ s.id = built.id
  <2>1. s = KeepOnly(built, kept)
    BY DEF Sweep
  <2>2. PICK k, i, o, d, y : built = [kind |-> k, in |-> i, out |-> o, id |-> d, next |-> y]
    BY <1>2 DEF HeapRecord
  <2> HIDE DEF s, kept
  <2> QED
    BY <2>1, <2>2 DEF KeepOnly
<1>8. ReachableFrom(s, pins) = kept /\ ReachableFrom(s, {top}) = ReachableFrom(built, {top})
  <2>1. pins \in SUBSET kept /\ {top} \in SUBSET kept
    BY <1>5, <1>6
  <2> HIDE DEF s, kept
  <2>2. /\ ReachableFrom(built, pins) = ReachableFrom(s, pins)
        /\ ReachableFrom(built, {top}) = ReachableFrom(s, {top})
    BY <1>6, <2>1, SameReach
  <2> QED
    BY <2>2 DEF kept
<1>9. Layered(s)
  BY <1>6 DEF AgreeOn
<1> HIDE DEF s, kept
<1>10. /\ heap.next = s.next /\ heap.kind = s.kind /\ heap.in = s.in /\ heap.id = s.id
       /\ heap.strong = <<>> /\ heap.weak = <<>> /\ heap.marked = {}
       /\ heap = [next |-> heap.next, kind |-> heap.kind, in |-> heap.in, id |-> heap.id,
                  strong |-> heap.strong, weak |-> heap.weak, marked |-> heap.marked]
  BY <1>3 DEF Untwinned
<1>11. /\ Live(heap) = kept /\ \A x : Children(heap, x) = Children(s, x)
       /\ DOMAIN heap.id = InputGate /\ Layered(heap)
  <2>1. Live(heap) = kept /\ (\A x : Children(heap, x) = Children(s, x)) /\ Live(heap) = Live(s)
    BY <1>6, <1>10 DEF Live, Children
  <2>2. DOMAIN heap.id = InputGate
    BY <1>2, <1>7, <1>10
  <2>3. Layered(heap)
    BY <1>9, <1>10, <2>1 DEF Layered
  <2> QED
    BY <2>1, <2>2, <2>3
<1>12. Twinned(heap) = {} /\ Flagged(heap) = {} /\ DOMAIN heap.strong = {} /\ DOMAIN heap.weak = {}
  BY <1>10 DEF Twinned, Flagged
<1>13. HeapOK(heap)
  <2>1. heap = [next |-> heap.next, kind |-> [g \in Live(heap) |-> heap.kind[g]],
                in |-> [g \in Live(heap) |-> heap.in[g]],
                id |-> [g \in DOMAIN heap.id |-> heap.id[g]],
                strong |-> [g \in DOMAIN heap.strong |-> heap.strong[g]],
                weak |-> [g \in DOMAIN heap.weak |-> heap.weak[g]], marked |-> heap.marked]
    <3>1. heap.kind = [g \in Live(heap) |-> heap.kind[g]] /\ heap.in = [g \in Live(heap) |-> heap.in[g]]
      BY <1>7, <1>10, <1>11
    <3>2. heap.id = [g \in DOMAIN heap.id |-> heap.id[g]]
      BY <1>2, <1>7, <1>10
    <3>3. /\ heap.strong = [g \in DOMAIN heap.strong |-> heap.strong[g]]
          /\ heap.weak = [g \in DOMAIN heap.weak |-> heap.weak[g]]
      BY <1>10
    <3> QED
      BY <1>10, <3>1, <3>2, <3>3
  <2>2. ASSUME NEW g \in Live(heap)
        PROVE  /\ heap.kind[g] \in {"INPUT", "TRUE", "FALSE", "NOT", "AND", "OR"}
               /\ DOMAIN heap.in[g] = 1 .. Arity(heap.kind[g]) /\ Children(heap, g) \subseteq Live(heap)
               /\ g \in DOMAIN heap.id <=> heap.kind[g] = "INPUT"
    BY <1>11, LayeredFacts, ChildrenAreLive DEF Layered
  <2>3. /\ heap.next \in Nat \ {0} /\ Live(heap) \subseteq 1 .. heap.next - 1 /\ InputGate \subseteq Live(heap)
    BY <1>11 DEF Layered
  <2> QED
    BY <1>10, <1>11, <1>12, <2>1, <2>2, <2>3 DEF HeapOK
<1>14. Fitting(heap, w)
  BY <1>11, FirstFits
<1>15. ReachableFrom(heap, pins) = kept /\ InputGate \subseteq ReachableFrom(heap, {top})
  <2>1. \A X : ReachableFrom(heap, X) = ReachableFrom(s, X)
    <3>1. [g \in Live(heap) |-> Children(heap, g)] = [g \in Live(s) |-> Children(s, g)]
      BY <1>6, <1>11
    <3> QED
      BY <3>1 DEF ReachableFrom
  <2> QED
    BY <1>2, <1>8, <2>1
<1>16. CircuitsOK(heap, w, circuits, goal)
  <2>1. \A g \in Live(heap) : /\ w[g].part = 1 /\ w[g].value = Table(heap, g)
                              /\ w[g].inputs = ReachableFrom(heap, {g}) \cap InputGate
    BY DEF FirstKnown
  <2> HIDE DEF w
  <2>2. top \in Live(heap) /\ InputGate \subseteq Live(heap)
    BY <1>5, <1>6, <1>11
  <2>3. InputGate = {g \in Live(heap) : w[g].part = 1 /\ heap.kind[g] = "INPUT"}
    <3>1. \A g \in Live(heap) : heap.kind[g] = "INPUT" <=> g \in InputGate
      BY <1>11, LayeredFacts
    <3> QED
      BY <2>1, <2>2, <3>1
  <2>4. w[top].inputs = InputGate
    BY <1>15, <2>1, <2>2
  <2>5. DOMAIN circuits[1].inputs = InputGate
    BY <1>3
  <2>6. /\ circuits[1].output \in Live(heap) /\ w[circuits[1].output].part = 1
        /\ w[circuits[1].output].value = goal
        /\ w[circuits[1].output].inputs = Range(circuits[1].inputs)
        /\ Range(circuits[1].inputs) = {g \in Live(heap) : w[g].part = 1 /\ heap.kind[g] = "INPUT"}
    BY <1>3, <1>4, <2>1, <2>2, <2>3, <2>4
  <2>7. \A n \in 1 .. Len(circuits) : n = 1
    BY <1>3
  <2>8. Len(circuits) \in Nat \ {0} /\ DOMAIN circuits = 1 .. Len(circuits) /\ 1 \in 0 .. Len(circuits)
    BY <1>3
  <2> QED
    BY <2>1, <2>5, <2>6, <2>7, <2>8 DEF CircuitsOK
<1>17. StrippedOK(heap, w, circuits, stripped)
  BY <1>3 DEF StrippedOK
<1>18. Live(heap) = ReachableFrom(heap, Held(circuits))
  BY <1>11, <1>15 DEF pins
<1>19. \A g \in Live(heap) : w[g].part # 0
  BY DEF FirstKnown
<1> HIDE DEF w
<1> QED
  BY <1>3, <1>12, <1>13, <1>14, <1>16, <1>17, <1>18, <1>19 DEF CopyInv, Sound, Idle, Stripping

-----------------------------------------------------------------------------
(* The theorems.                                                           *)

\* No constructor, and no step of removeNotGates, breaks the invariant.
LEMMA NextKeeps ==
  CopyInv /\ [Next]_vars => CopyInv'
<1> SUFFICES ASSUME CopyInv, [Next]_vars PROVE CopyInv'
  OBVIOUS
<1>1. CASE CopyCircuit
  BY <1>1, CopyCircuitKeeps
<1>2. CASE StripNots
  BY <1>2, StripNotsKeeps
<1>3. CASE StripOutput
  BY <1>3, StripOutputKeeps
<1>4. CASE PushNotDown
  BY <1>4, PushNotDownKeeps
<1>5. CASE Descend
  BY <1>5, DescendKeeps
<1>6. CASE Return
  BY <1>6, ReturnKeeps
<1>7. CASE EndStrip
  BY <1>7, EndStripKeeps
<1>8. CASE UNCHANGED vars
  BY <1>8 DEF vars, CopyInv, Sound, Idle, Stripping, last
<1>9. CASE Terminated
  BY <1>8, <1>9 DEF Terminated
<1> QED
  BY <1>1, <1>2, <1>3, <1>4, <1>5, <1>6, <1>7, <1>8, <1>9 DEF Next

\* The inductive invariant: the heap is made of whole circuits, every gate of
\* the one being stripped has its negation for a twin or is one, and what the
\* walk has left behind has its NOT gates above inputs.
THEOREM CopyInvariance == Spec => []CopyInv
<1>1. Init => CopyInv
  BY InitKeeps
<1>2. CopyInv /\ [Next]_vars => CopyInv'
  BY NextKeeps
<1> QED
  BY <1>1, <1>2, PTL DEF Spec

LEMMA InvComputes == CopyInv => FunctionKept
<1> SUFFICES ASSUME NEW w, Sound(w) PROVE FunctionKept
  BY DEF CopyInv
<1>1. HeapOK(heap) /\ Fitting(heap, w) /\ CircuitsOK(heap, w, circuits, goal)
  BY DEF Sound
<1>2. ASSUME NEW n \in DOMAIN circuits
      PROVE  Table(heap, circuits[n].output) = goal
  <2>1. circuits[n].output \in Live(heap) /\ w[circuits[n].output].value = goal
    BY <1>1 DEF CircuitsOK
  <2> QED
    BY <1>1, <2>1, TablesAre
<1> QED
  BY <1>2 DEF FunctionKept

\* Copying a circuit, and every step of pushing the NOT gates of a copy down
\* (removeNotGates), keep what each circuit computes.
THEOREM CopiesCompute == Spec => []FunctionKept
BY CopyInvariance, InvComputes, PTL

LEMMA InvTwinsLive == CopyInv => NoExpiredTwin
<1> SUFFICES ASSUME NEW w, Sound(w), NEW g \in Twinned(heap) PROVE Twin(heap, g) \in Live(heap)
  BY DEF CopyInv, NoExpiredTwin
<1>1. phase # "idle"
  BY DEF Sound, Idle, Flagged
<1>2. HeapOK(heap) /\ TwinsOK(heap, w, last, Held(circuits) \cup {oldOutput})
  BY <1>1 DEF Sound, Stripping
<1>3. CASE g \in DOMAIN heap.strong
  BY <1>2, <1>3 DEF TwinsOK, OriginalOK, Twin
<1>4. CASE g \in DOMAIN heap.weak
  <2>1. g \in Live(heap) /\ w[g].part = last /\ DOMAIN heap.strong \subseteq Live(heap)
    BY <1>2, <1>4 DEF TwinsOK, OriginalOK, HeapOK, Twinned
  <2>2. heap.weak[g] \in DOMAIN heap.strong
    BY <1>2, <1>4, <2>1 DEF TwinsOK, WeakOK
  <2>3. g \notin DOMAIN heap.strong
    BY <1>2, <1>4 DEF HeapOK
  <2> QED
    BY <2>1, <2>2, <2>3 DEF Twin
<1> QED
  BY <1>3, <1>4 DEF Twinned

\* A gate that getNegatedTwin asks for its twin finds it alive: the strong
\* twins and the old output keep every gate that a weak twin leads to.
THEOREM TwinsStayAlive == Spec => []NoExpiredTwin
BY CopyInvariance, InvTwinsLive, PTL

\* A circuit's network lies within its part.
LEMMA NetworkInPart ==
  ASSUME NEW w, Sound(w), NEW n \in DOMAIN circuits
  PROVE  /\ \A x \in Network(circuits[n]) : x \in Live(heap) /\ w[x].part = n
         /\ \A x \in Range(circuits[n].inputs) : x \in Live(heap) /\ w[x].part = n
<1> DEFINE top == circuits[n].output
           N == ReachableFrom(heap, {top})
           P == {x \in Live(heap) : w[x].part \in {n}}
<1>1. HeapOK(heap) /\ Fitting(heap, w) /\ CircuitsOK(heap, w, circuits, goal)
  BY DEF Sound
<1>2. /\ top \in P
      /\ \A x \in Range(circuits[n].inputs) : x \in Live(heap) /\ w[x].part = n
  BY <1>1 DEF CircuitsOK
<1>3. Downward(heap, P)
  BY <1>1, PartsAreDownward
<1>4. N \subseteq P
  <2>1. {top} \in SUBSET Live(heap) /\ {top} \subseteq P
    BY <1>2
  <2> HIDE DEF top, P
  <2> QED
    BY <1>1, <1>3, <2>1, ReachOK
<1> QED
  BY <1>2, <1>4 DEF Network

LEMMA InvNotsLow == CopyInv => NotsAtInputs
<1> SUFFICES ASSUME NEW w, Sound(w), NEW n \in stripped,
                    NEW g \in Network(circuits[n]), heap.kind[g] = "NOT"
             PROVE  /\ heap.kind[heap.in[g][1]] = "INPUT"
                    /\ g = circuits[n].output
                         \/ \A x \in Network(circuits[n]) \ {g, circuits[n].output} :
                              heap.kind[x] = "NOT" => heap.in[x] # heap.in[g]
  BY DEF CopyInv, NotsAtInputs
<1>1. n \in DOMAIN circuits /\ Clean(heap, w, n, circuits[n].output)
  BY DEF Sound, StrippedOK, CircuitsOK
<1>2. \A x \in Network(circuits[n]) : x \in Live(heap) /\ w[x].part = n
  BY <1>1, NetworkInPart
<1> QED
  BY <1>1, <1>2 DEF Clean

\* After removeNotGates the only NOT gates are above inputs, one above each
\* at most besides the output.
THEOREM NotsPushedDown == Spec => []NotsAtInputs
BY CopyInvariance, InvNotsLow, PTL

LEMMA InvApart == CopyInv => CopiesDisjoint
<1> SUFFICES ASSUME NEW w, Sound(w), NEW m \in DOMAIN circuits, NEW n \in DOMAIN circuits, m # n
             PROVE  (Network(circuits[m]) \cup Range(circuits[m].inputs))
                      \cap (Network(circuits[n]) \cup Range(circuits[n].inputs)) = {}
  BY DEF CopyInv, CopiesDisjoint
<1>1. \A x \in Network(circuits[m]) \cup Range(circuits[m].inputs) : w[x].part = m
  BY NetworkInPart
<1>2. \A x \in Network(circuits[n]) \cup Range(circuits[n].inputs) : w[x].part = n
  BY NetworkInPart
<1> QED
  BY <1>1, <1>2

\* A copy shares no gate and no input with what it was copied from.
THEOREM CopiesApart == Spec => []CopiesDisjoint
BY CopyInvariance, InvApart, PTL

LEMMA InvNothingLeft == CopyInv => NothingLeft
BY DEF CopyInv, Sound, Idle, NothingLeft

\* resetFlagRecursive reaches every twin and mark, and what no circuit
\* reaches is destroyed when a constructor returns.
THEOREM NothingRemains == Spec => []NothingLeft
BY CopyInvariance, InvNothingLeft, PTL
=============================================================================
