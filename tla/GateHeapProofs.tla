---------------------------- MODULE GateHeapProofs ----------------------------
(***************************************************************************)
(* Lemmas about the operators on heaps of gates, for every number of       *)
(* inputs: recursion from the older gates to the younger ones, what can be *)
(* reached, what a gate computes, and what adding gates and destroying the *)
(* unreachable ones leaves as it was.                                      *)
(***************************************************************************)
EXTENDS GateHeap, TLAPS, FiniteSetTheorems, SequenceTheorems

-----------------------------------------------------------------------------
(* Numbers.                                                                *)

\* A set of numbers up to n that is not empty has a greatest element.
LEMMA Greatest ==
  ASSUME NEW n \in Nat, NEW S \in SUBSET (1 .. n), S # {}
  PROVE  \E x \in S : \A y \in S : ~ (x < y)
  <1> DEFINE Higher(x) == {m \in 1 .. n : x < m}
             T == {Higher(x) : x \in S}
             R == StrictSubsetOrdering(1 .. n)
  <1>0. IsFiniteSet(1 .. n)
    BY FS_Interval
  <1>1. IsWellFoundedOn(R, SUBSET (1 .. n))
    BY <1>0, FS_StrictSubsetOrderingWellFounded, FS_FiniteSubsetsOfFinite
  <1>2. T \subseteq SUBSET (1 .. n) /\ T # {}
    OBVIOUS
  <1>3. PICK t \in T : \A u \in T : ~ (<<u, t>> \in R)
    <2> HIDE DEF T, R
    <2> QED
      BY <1>1, <1>2, WFMin
  <1>4. PICK x \in S : t = Higher(x)
    OBVIOUS
  <1>5. ASSUME NEW y \in S, x < y PROVE FALSE
    <2>1. \A m \in Higher(y) : m \in Higher(x)
      BY <1>5
    <2>2. y \in Higher(x) /\ y \notin Higher(y)
      BY <1>5
    <2>3. <<Higher(y), Higher(x)>> \in R
      BY <2>1, <2>2 DEF StrictSubsetOrdering
    <2> QED
      BY <1>3, <1>4, <2>3
  <1> QED
    BY <1>5

\* What holds of a number as soon as it holds of all before it, holds.
LEMMA FromBelow ==
  ASSUME NEW n \in Nat, NEW Good,
         \A k \in 1 .. n : 1 .. k - 1 \subseteq Good => k \in Good
  PROVE  1 .. n \subseteq Good
<1> DEFINE Bad == {k \in 1 .. n : k \notin Good}
           Mirror == {n + 1 - k : k \in Bad}
<1> SUFFICES ASSUME Bad # {} PROVE FALSE
  OBVIOUS
<1>1. Mirror \in SUBSET (1 .. n) /\ Mirror # {}
  OBVIOUS
<1>2. PICK x \in Mirror : \A y \in Mirror : ~ (x < y)
  <2> HIDE DEF Mirror
  <2> QED
    BY <1>1, Greatest
<1>3. PICK k \in Bad : x = n + 1 - k
  OBVIOUS
<1>4. \A j \in Bad : ~ (j < k)
  <2> SUFFICES ASSUME NEW j \in Bad, j < k PROVE FALSE
    OBVIOUS
  <2>1. n + 1 - j \in Mirror /\ x < n + 1 - j
    BY <1>3
  <2> QED
    BY <1>2, <2>1
<1>5. 1 .. k - 1 \subseteq Good
  BY <1>4
<1> QED
  BY <1>5

\* The value that step gives to a member of L depends on those of smaller ones.
StepsUp(step, n, L, V) ==
  /\ n \in Nat /\ L \subseteq 1 .. n /\ V # {}
  /\ step \in [L -> [[L -> V] -> V]]
  /\ \A x \in L : \A t, u \in [L -> V] :
       (\A y \in L : y < x => t[y] = u[y]) => step[x][t] = step[x][u]

\* Such a recursion has a solution: one for the first numbers is continued to
\* the next.
LEMMA RecursionFromBelow ==
  ASSUME NEW n, NEW L, NEW V, NEW step, StepsUp(step, n, L, V)
  PROVE  \E f \in [L -> V] : \A x \in L : f[x] = step[x][f]
<1> DEFINE Solves(f, m) == \A x \in L : x <= m => f[x] = step[x][f]
           Good == {m \in 0 .. n : \E f \in [L -> V] : Solves(f, m)}
<1>0. n \in Nat /\ L \subseteq 1 .. n /\ V # {}
  BY DEF StepsUp
<1>1. 0 \in Good
  <2>1. PICK v \in V : TRUE
    BY <1>0
  <2>2. [x \in L |-> v] \in [L -> V] /\ Solves([x \in L |-> v], 0)
    BY <1>0
  <2> QED
    BY <1>0, <2>2
<1>2. ASSUME NEW m \in 1 .. n, m - 1 \in Good
      PROVE  m \in Good
  <2>1. PICK f \in [L -> V] : Solves(f, m - 1)
    BY <1>2
  <2>2. CASE m \notin L
    <3>1. ASSUME NEW x \in L, x <= m
          PROVE  x <= m - 1
      <4>1. x \in 1 .. n /\ x # m
        BY <1>0, <2>2
      <4> QED
        BY <1>0, <3>1, <4>1
    <3>2. Solves(f, m)
      BY <2>1, <3>1
    <3> QED
      BY <1>0, <2>1, <3>2
  <2>3. CASE m \in L
    <3> DEFINE next == [f EXCEPT ![m] = step[m][f]]
    <3>1. step[m][f] \in V
      BY <2>3 DEF StepsUp
    <3>2. next \in [L -> V]
      BY <3>1
    <3>3. \A y \in L : y # m => next[y] = f[y]
      OBVIOUS
    <3>4. next[m] = step[m][f]
      BY <2>3
    <3> HIDE DEF next
    <3>5. ASSUME NEW x \in L, x <= m
          PROVE  next[x] = step[x][next]
      <4>1. step[x][next] = step[x][f]
        <5>1. \A y \in L : y < x => next[y] = f[y]
          BY <1>0, <1>2, <3>3, <3>5
        <5> QED
          BY <3>2, <5>1 DEF StepsUp
      <4>2. CASE x = m
        BY <3>4, <4>1, <4>2
      <4>3. CASE x # m
        <5>1. x <= m - 1
          BY <1>0, <3>5, <4>3
        <5> QED
          BY <2>1, <3>3, <4>1, <4>3, <5>1
      <4> QED
        BY <4>2, <4>3
    <3>6. Solves(next, m)
      BY <3>5
    <3> QED
      BY <1>0, <3>2, <3>6
  <2> QED
    BY <2>2, <2>3
<1>3. n \in Good
  <2>1. \A k \in 1 .. n : 1 .. k - 1 \subseteq Good => k \in Good
    <3> SUFFICES ASSUME NEW k \in 1 .. n, 1 .. k - 1 \subseteq Good PROVE k \in Good
      OBVIOUS
    <3> HIDE DEF Good
    <3>1. k - 1 \in Good
      BY <1>0, <1>1
    <3> QED
      BY <1>2, <3>1
  <2> HIDE DEF Good
  <2>2. 1 .. n \subseteq Good
    BY <1>0, <2>1, FromBelow
  <2>3. n \in 1 .. n \/ n = 0
    BY <1>0
  <2> QED
    BY <1>1, <2>2, <2>3
<1>4. PICK f \in [L -> V] : Solves(f, n)
  BY <1>3
<1> QED
  BY <1>0, <1>4

-----------------------------------------------------------------------------
(* A circuit whose gates are younger than their inputs.                    *)

\* The inputs of the gates of each kind.
LEMMA LayeredFacts ==
  ASSUME NEW h, Layered(h)
  PROVE  /\ h.next \in Nat /\ Live(h) \subseteq 1 .. h.next /\ Live(h) \subseteq Nat
         /\ \A g \in InputGate : g \in Live(h) /\ h.kind[g] = "INPUT" /\ h.id[g] = g
         /\ \A g \in Live(h) :
              /\ h.kind[g] \in {"INPUT", "TRUE", "FALSE", "NOT", "AND", "OR"}
              /\ h.kind[g] \in {"INPUT", "TRUE", "FALSE"} <=> Arity(h.kind[g]) = 0
              /\ h.kind[g] = "INPUT" <=> g \in InputGate
              /\ h.kind[g] \in {"INPUT", "TRUE", "FALSE"} => Children(h, g) = {}
              /\ h.kind[g] = "NOT" =>
                   h.in[g][1] \in Live(h) /\ h.in[g][1] < g /\ Children(h, g) = {h.in[g][1]}
              /\ h.kind[g] \in {"AND", "OR"} =>
                   /\ h.in[g][1] \in Live(h) /\ h.in[g][1] < g
                   /\ h.in[g][2] \in Live(h) /\ h.in[g][2] < g
                   /\ Children(h, g) = {h.in[g][1], h.in[g][2]}
<1>1. h.next \in Nat /\ Live(h) \subseteq 1 .. h.next - 1
  BY DEF Layered
<1>2. Live(h) \subseteq 1 .. h.next /\ Live(h) \subseteq Nat
  BY <1>1
<1>3. \A kind \in {"INPUT", "TRUE", "FALSE"} : Arity(kind) = 0
  BY DEF Arity
<1>4. Arity("NOT") = 1 /\ Arity("AND") = 2 /\ Arity("OR") = 2
  BY DEF Arity
<1>5. \A g \in InputGate : g \in Live(h) /\ h.kind[g] = "INPUT" /\ h.id[g] = g
  BY DEF Layered
<1>6. ASSUME NEW g \in Live(h)
      PROVE  /\ h.kind[g] \in {"TRUE", "FALSE", "NOT", "AND", "OR"} \/ g \in InputGate
             /\ DOMAIN h.in[g] = 1 .. Arity(h.kind[g])
             /\ Children(h, g) \subseteq Live(h) \cap 1 .. g - 1
  BY DEF Layered
<1>7. ASSUME NEW g \in Live(h), h.kind[g] \in {"INPUT", "TRUE", "FALSE"}
      PROVE  Children(h, g) = {}
  <2>1. DOMAIN h.in[g] = {}
    BY <1>3, <1>6, <1>7
  <2> QED
    BY <2>1 DEF Children, Range
<1>8. ASSUME NEW g \in Live(h), h.kind[g] = "NOT"
      PROVE  h.in[g][1] \in Live(h) /\ h.in[g][1] < g /\ Children(h, g) = {h.in[g][1]}
  <2>1. DOMAIN h.in[g] = {1}
    BY <1>4, <1>6, <1>8
  <2>2. Children(h, g) = {h.in[g][1]}
    BY <2>1 DEF Children, Range
  <2>3. h.in[g][1] \in Live(h) /\ h.in[g][1] \in 1 .. g - 1
    BY <1>6, <2>2
  <2> QED
    BY <1>2, <2>2, <2>3
<1>9. ASSUME NEW g \in Live(h), h.kind[g] \in {"AND", "OR"}
      PROVE  /\ h.in[g][1] \in Live(h) /\ h.in[g][1] < g
             /\ h.in[g][2] \in Live(h) /\ h.in[g][2] < g
             /\ Children(h, g) = {h.in[g][1], h.in[g][2]}
  <2>1. DOMAIN h.in[g] = {1, 2}
    BY <1>4, <1>6, <1>9
  <2>2. Children(h, g) = {h.in[g][1], h.in[g][2]}
    BY <2>1 DEF Children, Range
  <2>3. /\ h.in[g][1] \in Live(h) /\ h.in[g][1] \in 1 .. g - 1
        /\ h.in[g][2] \in Live(h) /\ h.in[g][2] \in 1 .. g - 1
    BY <1>6, <2>2
  <2> QED
    BY <1>2, <2>2, <2>3
<1>10. \A g \in Live(h) : h.kind[g] \in {"INPUT", "TRUE", "FALSE", "NOT", "AND", "OR"}
  BY <1>5, <1>6
<1>11. \A g \in Live(h) : h.kind[g] = "INPUT" <=> g \in InputGate
  BY <1>5, <1>6
<1> HIDE DEF Layered
<1> QED
  BY <1>1, <1>2, <1>3, <1>4, <1>5, <1>7, <1>8, <1>9, <1>10, <1>11

-----------------------------------------------------------------------------
(* What a gate computes.                                                   *)

\* The function of a gate with inputs that compute t.
Computed(h, t, g) ==
  LET kind == h.kind[g]
      V == Valuation
  IN  CASE kind = "INPUT" -> {a \in V : h.id[g] \in a}
        [] kind = "TRUE" -> V
        [] kind = "FALSE" -> {}
        [] kind = "NOT" -> V \ t[h.in[g][1]]
        [] kind = "AND" -> t[h.in[g][1]] \cap t[h.in[g][2]]
        [] OTHER -> t[h.in[g][1]] \cup t[h.in[g][2]]

\* It depends on older gates only.
LEMMA ComputedFromBelow ==
  ASSUME NEW h, Layered(h), NEW g \in Live(h), NEW t, NEW u,
         \A x \in Live(h) : x < g => t[x] = u[x]
  PROVE  Computed(h, t, g) = Computed(h, u, g)
<1>1. h.kind[g] \in {"INPUT", "TRUE", "FALSE", "NOT", "AND", "OR"}
  BY LayeredFacts
<1>2. CASE h.kind[g] \in {"INPUT", "TRUE", "FALSE"}
  BY <1>2 DEF Computed
<1>3. CASE h.kind[g] = "NOT"
  <2>1. t[h.in[g][1]] = u[h.in[g][1]]
    BY <1>3, LayeredFacts
  <2> QED
    BY <1>3, <2>1 DEF Computed
<1>4. CASE h.kind[g] \in {"AND", "OR"}
  <2>1. t[h.in[g][1]] = u[h.in[g][1]] /\ t[h.in[g][2]] = u[h.in[g][2]]
    BY <1>4, LayeredFacts
  <2> QED
    BY <1>4, <2>1 DEF Computed
<1> QED
  BY <1>1, <1>2, <1>3, <1>4

\* The gates have tables.
LEMMA TablesEquation ==
  ASSUME NEW h, Layered(h)
  PROVE  Tables(h) = [g \in Live(h) |-> Computed(h, Tables(h), g)]
<1> DEFINE L == Live(h)
           V == SUBSET Valuation
           step == [g \in L |-> [t \in [L -> V] |-> Computed(h, t, g)]]
<1>1. h.next \in Nat /\ L \subseteq 1 .. h.next
  BY LayeredFacts
<1>2. ASSUME NEW g \in L, NEW t \in [L -> V]
      PROVE  Computed(h, t, g) \in V
  <2>1. CASE h.kind[g] \in {"INPUT", "TRUE", "FALSE"}
    BY <2>1 DEF Computed
  <2>2. CASE h.kind[g] = "NOT"
    BY <2>2 DEF Computed
  <2>3. CASE h.kind[g] \in {"AND", "OR"}
    <3>1. h.in[g][1] \in L /\ h.in[g][2] \in L
      BY <2>3, LayeredFacts
    <3>2. t[h.in[g][1]] \in V /\ t[h.in[g][2]] \in V
      BY <3>1
    <3> QED
      BY <2>3, <3>2 DEF Computed
  <2> QED
    BY <2>1, <2>2, <2>3, LayeredFacts
<1>3. step \in [L -> [[L -> V] -> V]]
  BY <1>2
<1>4. ASSUME NEW g \in L, NEW t \in [L -> V], NEW u \in [L -> V],
             \A x \in L : x < g => t[x] = u[x]
      PROVE  step[g][t] = step[g][u]
  BY <1>4, ComputedFromBelow
<1>5. \A x \in L : \A t, u \in [L -> V] :
        (\A y \in L : y < x => t[y] = u[y]) => step[x][t] = step[x][u]
  BY <1>4
<1>6. \A g \in L : \A t \in [L -> V] : step[g][t] = Computed(h, t, g)
  OBVIOUS
<1>7. V # {}
  OBVIOUS
<1> HIDE DEF step, V, L
<1>8. StepsUp(step, h.next, L, V)
  BY <1>1, <1>3, <1>5, <1>7 DEF StepsUp
<1>9. PICK f \in [L -> V] : \A g \in L : f[g] = step[g][f]
  BY <1>8, RecursionFromBelow
<1>10. f = [g \in L |-> Computed(h, f, g)]
  BY <1>6, <1>9
<1> DEFINE T == CHOOSE t : t = [g \in L |-> Computed(h, t, g)]
<1>11. T = [g \in L |-> Computed(h, T, g)]
  BY <1>10
<1>12. Tables(h) = T
  BY DEF Tables, Computed, L
<1> QED
  BY <1>11, <1>12 DEF L

\* The table of a gate, by its kind.
LEMMA TableOf ==
  ASSUME NEW h, Layered(h), NEW g \in Live(h)
  PROVE  /\ h.kind[g] = "INPUT" => Table(h, g) = {a \in Valuation : h.id[g] \in a}
         /\ h.kind[g] = "TRUE" => Table(h, g) = Valuation
         /\ h.kind[g] = "FALSE" => Table(h, g) = {}
         /\ h.kind[g] = "NOT" => Table(h, g) = Valuation \ Table(h, h.in[g][1])
         /\ h.kind[g] = "AND" => Table(h, g) = Table(h, h.in[g][1]) \cap Table(h, h.in[g][2])
         /\ h.kind[g] = "OR" => Table(h, g) = Table(h, h.in[g][1]) \cup Table(h, h.in[g][2])
<1>1. Table(h, g) = Computed(h, Tables(h), g)
  BY TablesEquation DEF Table
<1> QED
  BY <1>1 DEF Computed, Table

LEMMA TableIsSet ==
  ASSUME NEW h, Layered(h), NEW g \in Live(h)
  PROVE  Table(h, g) \subseteq Valuation
<1> DEFINE Good == {x \in 1 .. h.next : x \in Live(h) => Table(h, x) \subseteq Valuation}
<1>1. ASSUME NEW x \in Live(h), \A y \in Live(h) : y < x => Table(h, y) \subseteq Valuation
      PROVE  Table(h, x) \subseteq Valuation
  <2>1. CASE h.kind[x] \in {"INPUT", "TRUE", "FALSE"}
    BY <2>1, TableOf
  <2>2. CASE h.kind[x] = "NOT"
    BY <2>2, TableOf
  <2>3. CASE h.kind[x] \in {"AND", "OR"}
    <3>1. Table(h, h.in[x][1]) \subseteq Valuation /\ Table(h, h.in[x][2]) \subseteq Valuation
      BY <1>1, <2>3, LayeredFacts
    <3> QED
      BY <2>3, <3>1, TableOf
  <2> QED
    BY <2>1, <2>2, <2>3, LayeredFacts
<1>2. ASSUME NEW x \in 1 .. h.next, 1 .. x - 1 \subseteq Good
      PROVE  x \in Good
  <2>1. \A y \in Live(h) : y < x => y \in 1 .. x - 1
    BY LayeredFacts
  <2> QED
    BY <1>1, <1>2, <2>1
<1>3. h.next \in Nat /\ g \in 1 .. h.next
  BY LayeredFacts
<1> HIDE DEF Good
<1>4. g \in Good
  BY <1>2, <1>3, FromBelow
<1> QED
  BY <1>4 DEF Good
-----------------------------------------------------------------------------
(* What can be reached.                                                    *)

\* T holds what its members lead to.
Closed(next, T) == \A x \in T \cap DOMAIN next : next[x] \subseteq T

\* The closure is the least closed set: the recursion has this solution, and
\* no other, for it adds members until the set is closed.
LEMMA ClosureIsLeast ==
  ASSUME NEW L, IsFiniteSet(L), NEW next \in [L -> SUBSET L], NEW start \in SUBSET L
  PROVE  Closure(next, start)
           = {x \in L : \A T \in SUBSET L : start \subseteq T /\ Closed(next, T) => x \in T}
<1> DEFINE Least(S) == {x \in L : \A T \in SUBSET L : S \subseteq T /\ Closed(next, T) => x \in T}
           Next(S) == UNION {next[x] : x \in S}
           More(S) == Next(S) \ S
           Body(r) == [S \in SUBSET DOMAIN next |-> IF More(S) = {} THEN S ELSE r[S \cup More(S)]]
           R == CHOOSE r : r = Body(r)
<1>1. ASSUME NEW S \in SUBSET L
      PROVE  More(S) \in SUBSET L /\ More(S) \cap S = {}
  <2>1. Next(S) \subseteq L
    OBVIOUS
  <2> HIDE DEF Next
  <2> QED
    BY <2>1
<1>2. ASSUME NEW S \in SUBSET L, More(S) = {}
      PROVE  Least(S) = S
  <2>1. Closed(next, S)
    <3> SUFFICES ASSUME NEW x \in S, NEW y \in next[x] PROVE y \in S
      BY DEF Closed
    <3>1. y \in Next(S)
      OBVIOUS
    <3> HIDE DEF Next
    <3> QED
      BY <1>2, <3>1
  <2> QED
    BY <2>1
<1>3. ASSUME NEW S \in SUBSET L
      PROVE  Least(S \cup More(S)) = Least(S)
  <2>1. ASSUME NEW T \in SUBSET L, S \subseteq T, Closed(next, T)
        PROVE  S \cup More(S) \subseteq T
    <3>1. \A x \in S : next[x] \subseteq T
      BY <2>1 DEF Closed
    <3> QED
      BY <2>1, <3>1
  <2> HIDE DEF More
  <2> QED
    BY <2>1
<1>4. [S \in SUBSET L |-> Least(S)] = Body([S \in SUBSET L |-> Least(S)])
  <2> DEFINE f == [S \in SUBSET L |-> Least(S)]
  <2>1. ASSUME NEW S \in SUBSET L
        PROVE  f[S] = IF More(S) = {} THEN S ELSE f[S \cup More(S)]
    <3>1. S \cup More(S) \in SUBSET L
      BY <1>1
    <3> HIDE DEF Least, More
    <3>2. f[S] = Least(S) /\ f[S \cup More(S)] = Least(S \cup More(S))
      BY <3>1
    <3> QED
      BY <1>2, <1>3, <3>2
  <2> HIDE DEF Least, More
  <2> QED
    BY <2>1
<1>5. R = Body(R)
  <2> HIDE DEF Body, Least
  <2> QED
    BY <1>4
<1>6. Closure(next, start) = R[start]
  BY DEF Closure
<1> HIDE DEF R, Least, More
<1>7. \A S \in SUBSET L : R[S] = IF More(S) = {} THEN S ELSE R[S \cup More(S)]
  BY <1>5
<1>8. \A S \in SUBSET L : R[S] = Least(S)
  <2> DEFINE Bad == {S \in SUBSET L : R[S] # Least(S)}
             Left == {L \ S : S \in Bad}
             Order == StrictSubsetOrdering(L)
  <2> SUFFICES ASSUME Bad # {} PROVE FALSE
    OBVIOUS
  <2>1. IsWellFoundedOn(Order, SUBSET L)
    BY FS_StrictSubsetOrderingWellFounded, FS_FiniteSubsetsOfFinite
  <2>2. Left \subseteq SUBSET L /\ Left # {}
    OBVIOUS
  <2>3. PICK left \in Left : \A u \in Left : ~ (<<u, left>> \in Order)
    <3> HIDE DEF Left, Order
    <3> QED
      BY <2>1, <2>2, WFMin
  <2>4. PICK S \in Bad : left = L \ S
    OBVIOUS
  <2>5. More(S) # {}
    BY <1>2, <1>7
  <2>6. S \cup More(S) \in SUBSET L
    BY <1>1
  <2>7. S \cup More(S) \in Bad
    BY <1>3, <1>7, <2>5, <2>6
  <2>8. <<L \ (S \cup More(S)), left>> \in Order
    <3>1. PICK x \in More(S) : TRUE
      BY <2>5
    <3>2. x \in L /\ x \notin S
      BY <1>1
    <3>3. L \ (S \cup More(S)) \subseteq left /\ L \ (S \cup More(S)) # left
      BY <2>4, <3>1, <3>2
    <3> QED
      BY <2>4, <3>3 DEF StrictSubsetOrdering
  <2> QED
    BY <2>3, <2>7, <2>8
<1> QED
  BY <1>6, <1>8 DEF Least

\* What is used of it.
LEMMA ClosureFacts ==
  ASSUME NEW L, IsFiniteSet(L), NEW next \in [L -> SUBSET L], NEW start \in SUBSET L
  PROVE  /\ start \subseteq Closure(next, start) /\ Closure(next, start) \subseteq L
         /\ Closed(next, Closure(next, start))
         /\ \A T : start \subseteq T /\ Closed(next, T) => Closure(next, start) \subseteq T
<1> DEFINE C == Closure(next, start)
<1>1. C = {x \in L : \A T \in SUBSET L : start \subseteq T /\ Closed(next, T) => x \in T}
  BY ClosureIsLeast
<1> HIDE DEF C
<1>2. Closed(next, C)
  <2> SUFFICES ASSUME NEW x \in C, NEW y \in next[x] PROVE y \in C
    BY DEF Closed
  <2>1. x \in L /\ y \in L
    BY <1>1
  <2>2. ASSUME NEW T \in SUBSET L, start \subseteq T, Closed(next, T)
        PROVE  y \in T
    <3>1. x \in T
      BY <1>1, <2>2
    <3> QED
      BY <2>2, <3>1 DEF Closed
  <2> QED
    BY <1>1, <2>1, <2>2
<1>3. ASSUME NEW T, start \subseteq T, Closed(next, T)
      PROVE  C \subseteq T
  <2>1. Closed(next, T \cap L)
    <3> SUFFICES ASSUME NEW x \in T \cap L PROVE next[x] \subseteq T \cap L
      BY DEF Closed
    <3> QED
      BY <1>3 DEF Closed
  <2>2. T \cap L \in SUBSET L /\ start \subseteq T \cap L
    BY <1>3
  <2> QED
    BY <1>1, <2>1, <2>2
<1> QED
  BY <1>1, <1>2, <1>3 DEF C

\* The closure of one member: it, and what can be reached from what it leads to.
LEMMA ClosureOfOne ==
  ASSUME NEW L, IsFiniteSet(L), NEW next \in [L -> SUBSET L], NEW x \in L
  PROVE  \A z : z \in Closure(next, {x}) <=> z = x \/ \E y \in next[x] : z \in Closure(next, {y})
<1> DEFINE C(y) == Closure(next, {y})
           U == {x} \cup UNION {C(y) : y \in next[x]}
<1>1. \A y \in L : y \in C(y) /\ C(y) \subseteq L /\ Closed(next, C(y))
  BY ClosureFacts
<1>2. \A y \in L : \A T : y \in T /\ Closed(next, T) => C(y) \subseteq T
  <2> SUFFICES ASSUME NEW y \in L, NEW T, y \in T, Closed(next, T) PROVE C(y) \subseteq T
    OBVIOUS
  <2>1. {y} \in SUBSET L /\ {y} \subseteq T
    OBVIOUS
  <2> QED
    BY <2>1, ClosureFacts
<1> HIDE DEF C
<1>3. C(x) \subseteq U
  <2>1. Closed(next, U)
    <3> SUFFICES ASSUME NEW z \in U, z \in L PROVE next[z] \subseteq U
      BY DEF Closed
    <3>1. CASE z = x
      BY <1>1, <3>1
    <3>2. CASE \E y \in next[x] : z \in C(y)
      BY <1>1, <3>2 DEF Closed
    <3> QED
      BY <3>1, <3>2
  <2> QED
    BY <1>2, <2>1
<1>4. U \subseteq C(x)
  <2>1. ASSUME NEW y \in next[x]
        PROVE  C(y) \subseteq C(x)
    <3>1. y \in L /\ y \in C(x)
      BY <1>1 DEF Closed
    <3> QED
      BY <1>1, <1>2, <3>1
  <2> QED
    BY <1>1, <2>1
<1>5. \A z : z \in C(x) <=> z = x \/ \E y \in next[x] : z \in C(y)
  BY <1>3, <1>4
<1> QED
  BY <1>5 DEF C

\* It depends on nothing outside of a closed set.
LEMMA ClosureWithin ==
  ASSUME NEW L, IsFiniteSet(L), NEW next \in [L -> SUBSET L],
         NEW M, IsFiniteSet(M), NEW other \in [M -> SUBSET M],
         NEW T, T \subseteq L, T \subseteq M, Closed(next, T),
         \A x \in T : next[x] = other[x],
         NEW start \in SUBSET T
  PROVE  Closure(next, start) = Closure(other, start)
<1> DEFINE C == Closure(next, start)
           D == Closure(other, start)
<1>1. /\ start \subseteq C /\ Closed(next, C)
      /\ \A S : start \subseteq S /\ Closed(next, S) => C \subseteq S
  <2>1. start \in SUBSET L
    OBVIOUS
  <2> QED
    BY <2>1, ClosureFacts
<1>2. /\ start \subseteq D /\ Closed(other, D)
      /\ \A S : start \subseteq S /\ Closed(other, S) => D \subseteq S
  <2>1. start \in SUBSET M
    OBVIOUS
  <2> QED
    BY <2>1, ClosureFacts
<1> HIDE DEF C, D
<1>3. C \subseteq T
  BY <1>1
<1>4. Closed(other, T)
  BY DEF Closed
<1>5. D \subseteq T
  BY <1>2, <1>4
<1>6. Closed(other, C)
  BY <1>1, <1>3 DEF Closed
<1>7. Closed(next, D)
  BY <1>2, <1>5 DEF Closed
<1>8. C = D
  BY <1>1, <1>2, <1>6, <1>7
<1> QED
  BY <1>8 DEF C, D
-----------------------------------------------------------------------------
(* What can be reached through the links.                                  *)

LEMMA LiveIsFinite ==
  ASSUME NEW h, Layered(h)
  PROVE  IsFiniteSet(Live(h))
<1>1. h.next \in Nat /\ Live(h) \in SUBSET (1 .. h.next)
  BY LayeredFacts
<1>2. IsFiniteSet(1 .. h.next)
  BY <1>1, FS_Interval
<1> QED
  BY <1>1, <1>2, FS_Subset

LEMMA ChildrenAreLive ==
  ASSUME NEW h, Layered(h), NEW g \in Live(h)
  PROVE  Children(h, g) \subseteq Live(h)
BY DEF Layered

\* T has with a gate its inputs.
Downward(h, T) == \A x \in T \cap Live(h) : Children(h, x) \subseteq T

LEMMA ReachFacts ==
  ASSUME NEW h, Layered(h), NEW gates \in SUBSET Live(h)
  PROVE  /\ gates \subseteq ReachableFrom(h, gates) /\ ReachableFrom(h, gates) \subseteq Live(h)
         /\ Downward(h, ReachableFrom(h, gates))
         /\ \A T : gates \subseteq T /\ Downward(h, T) => ReachableFrom(h, gates) \subseteq T
<1> DEFINE next == [g \in Live(h) |-> Children(h, g)]
<1>1. next \in [Live(h) -> SUBSET Live(h)] /\ IsFiniteSet(Live(h))
  BY ChildrenAreLive, LiveIsFinite
<1>2. \A T : Downward(h, T) <=> Closed(next, T)
  BY DEF Downward, Closed
<1>3. ReachableFrom(h, gates) = Closure(next, gates)
  BY DEF ReachableFrom
<1> HIDE DEF next
<1>4. /\ gates \subseteq Closure(next, gates) /\ Closure(next, gates) \subseteq Live(h)
      /\ Closed(next, Closure(next, gates))
      /\ \A T : gates \subseteq T /\ Closed(next, T) => Closure(next, gates) \subseteq T
  BY <1>1, ClosureFacts
<1> QED
  BY <1>2, <1>3, <1>4

-----------------------------------------------------------------------------
(* Heaps that agree on some gates.                                         *)

\* The gates in T, with all that is below them, are the same in both.
AgreeOn(h, j, T) ==
  /\ Layered(h) /\ Layered(j) /\ T \subseteq Live(h) \cap Live(j) /\ Downward(h, T)
  /\ \A g \in T : h.kind[g] = j.kind[g] /\ h.in[g] = j.in[g]

LEMMA SameTables ==
  ASSUME NEW h, NEW j, NEW T, AgreeOn(h, j, T), NEW g \in T
  PROVE  Table(h, g) = Table(j, g)
<1> DEFINE Good == {x \in 1 .. h.next : x \in T => Table(h, x) = Table(j, x)}
<1>1. /\ Layered(h) /\ Layered(j)
      /\ \A x \in T : /\ x \in Live(h) /\ x \in Live(j) /\ Children(h, x) \subseteq T
                      /\ h.kind[x] = j.kind[x] /\ h.in[x] = j.in[x]
  BY DEF AgreeOn, Downward
<1>2. ASSUME NEW x \in T, \A y \in T : y < x => Table(h, y) = Table(j, y)
      PROVE  Table(h, x) = Table(j, x)
  <2>1. h.kind[x] = j.kind[x] /\ h.in[x] = j.in[x] /\ x \in Live(h) /\ x \in Live(j)
    BY <1>1
  <2>2. CASE h.kind[x] = "INPUT"
    <3>1. h.id[x] = x /\ j.id[x] = x
      BY <1>1, <2>1, <2>2, LayeredFacts
    <3>2. Table(h, x) = {a \in Valuation : x \in a}
      BY <1>1, <2>1, <2>2, <3>1, TableOf
    <3>3. Table(j, x) = {a \in Valuation : x \in a}
      BY <1>1, <2>1, <2>2, <3>1, TableOf
    <3> QED
      BY <3>2, <3>3
  <2>3. CASE h.kind[x] = "TRUE"
    <3>1. Table(h, x) = Valuation /\ Table(j, x) = Valuation
      BY <1>1, <2>1, <2>3, TableOf
    <3> QED
      BY <3>1
  <2>4. CASE h.kind[x] = "FALSE"
    <3>1. Table(h, x) = {} /\ Table(j, x) = {}
      BY <1>1, <2>1, <2>4, TableOf
    <3> QED
      BY <3>1
  <2>5. CASE h.kind[x] = "NOT"
    <3>1. h.in[x][1] \in T /\ h.in[x][1] < x
      BY <1>1, <2>1, <2>5, LayeredFacts
    <3>2. Table(h, x) = Valuation \ Table(h, h.in[x][1])
      BY <1>1, <2>1, <2>5, TableOf
    <3>3. Table(j, x) = Valuation \ Table(j, h.in[x][1])
      BY <1>1, <2>1, <2>5, TableOf
    <3> QED
      BY <1>2, <3>1, <3>2, <3>3
  <2>6. CASE h.kind[x] \in {"AND", "OR"}
    <3>1. h.in[x][1] \in T /\ h.in[x][1] < x /\ h.in[x][2] \in T /\ h.in[x][2] < x
      BY <1>1, <2>1, <2>6, LayeredFacts
    <3>2. /\ Table(h, h.in[x][1]) = Table(j, h.in[x][1])
          /\ Table(h, h.in[x][2]) = Table(j, h.in[x][2])
      BY <1>2, <3>1
    <3>3. /\ h.kind[x] = "AND" => Table(h, x) = Table(h, h.in[x][1]) \cap Table(h, h.in[x][2])
          /\ h.kind[x] = "OR" => Table(h, x) = Table(h, h.in[x][1]) \cup Table(h, h.in[x][2])
      BY <1>1, <2>1, TableOf
    <3>4. /\ h.kind[x] = "AND" => Table(j, x) = Table(j, h.in[x][1]) \cap Table(j, h.in[x][2])
          /\ h.kind[x] = "OR" => Table(j, x) = Table(j, h.in[x][1]) \cup Table(j, h.in[x][2])
      BY <1>1, <2>1, TableOf
    <3> QED
      BY <2>6, <3>2, <3>3, <3>4
  <2> QED
    BY <1>1, <2>1, <2>2, <2>3, <2>4, <2>5, <2>6, LayeredFacts
<1>3. h.next \in Nat /\ T \subseteq 1 .. h.next
  BY <1>1, LayeredFacts
<1>4. ASSUME NEW x \in 1 .. h.next, 1 .. x - 1 \subseteq Good
      PROVE  x \in Good
  <2>1. \A y \in T : y < x => y \in 1 .. x - 1
    BY <1>3
  <2> QED
    BY <1>2, <1>4, <2>1
<1> HIDE DEF Good
<1>5. g \in Good
  BY <1>3, <1>4, FromBelow
<1> QED
  BY <1>5 DEF Good

LEMMA SameReach ==
  ASSUME NEW h, NEW j, NEW T, AgreeOn(h, j, T), NEW gates \in SUBSET T
  PROVE  ReachableFrom(h, gates) = ReachableFrom(j, gates) /\ ReachableFrom(h, gates) \subseteq T
<1> DEFINE next == [g \in Live(h) |-> Children(h, g)]
           other == [g \in Live(j) |-> Children(j, g)]
<1>1. next \in [Live(h) -> SUBSET Live(h)] /\ other \in [Live(j) -> SUBSET Live(j)]
  BY ChildrenAreLive DEF AgreeOn
<1>2. IsFiniteSet(Live(h)) /\ IsFiniteSet(Live(j)) /\ T \subseteq Live(h) /\ T \subseteq Live(j)
  BY LiveIsFinite DEF AgreeOn
<1>3. Closed(next, T) /\ \A x \in T : next[x] = other[x]
  BY DEF AgreeOn, Downward, Closed, Children
<1> HIDE DEF next, other
<1>4. Closure(next, gates) = Closure(other, gates)
  BY <1>1, <1>2, <1>3, ClosureWithin
<1>5. Closure(next, gates) \subseteq T
  BY <1>1, <1>2, <1>3, ClosureFacts
<1> QED
  BY <1>4, <1>5 DEF ReachableFrom, next, other
-----------------------------------------------------------------------------
(* New gates.                                                              *)

HeapRecord(h) == h = [kind |-> h.kind, in |-> h.in, out |-> h.out, id |-> h.id, next |-> h.next]

\* What can be a gate above the gates in S.
GateAbove(spec, S) ==
  /\ spec[1] \in {"TRUE", "FALSE", "NOT", "AND", "OR"}
  /\ spec = [i \in DOMAIN spec |-> spec[i]] /\ DOMAIN spec = 1 .. Arity(spec[1]) + 1
  /\ \A i \in 1 .. Arity(spec[1]) : spec[i + 1] \in S

LEMMA TailOfSpec ==
  ASSUME NEW spec, NEW S, GateAbove(spec, S)
  PROVE  /\ DOMAIN Tail(spec) = 1 .. Arity(spec[1]) /\ Range(Tail(spec)) \subseteq S
         /\ \A i \in 1 .. Arity(spec[1]) : Tail(spec)[i] = spec[i + 1]
<1> DEFINE n == Arity(spec[1])
<1>1. n \in Nat
  BY DEF GateAbove, Arity
<1>2. /\ spec = [i \in DOMAIN spec |-> spec[i]] /\ DOMAIN spec = 1 .. n + 1
      /\ \A i \in 1 .. n : spec[i + 1] \in S
  BY DEF GateAbove
<1> HIDE DEF n
<1>3. spec \in Seq({spec[i] : i \in 1 .. n + 1}) /\ Len(spec) = n + 1 /\ spec # <<>>
  BY <1>1, <1>2
<1>4. Len(Tail(spec)) = n /\ \A i \in 1 .. n : Tail(spec)[i] = spec[i + 1]
  BY <1>1, <1>3, HeadTailProperties
<1>5. DOMAIN Tail(spec) = 1 .. n
  BY <1>1, <1>3, <1>4, HeadTailProperties
<1> QED
  BY <1>2, <1>4, <1>5 DEF Range, n

\* j is h with a gate x made from spec.
OneMore(h, j, x, spec) ==
  /\ HeapRecord(j) /\ Layered(j) /\ j.next = x + 1 /\ Live(j) = Live(h) \cup {x} /\ j.id = h.id
  /\ j.kind[x] = spec[1] /\ j.in[x] = Tail(spec)
  /\ \A g \in Live(h) : j.kind[g] = h.kind[g] /\ j.in[g] = h.in[g]

LEMMA AddGateFacts ==
  ASSUME NEW h, HeapRecord(h), Layered(h), NEW spec, GateAbove(spec, Live(h))
  PROVE  OneMore(h, AddGate(h, spec), h.next, spec) /\ h.next \notin Live(h)
<1> DEFINE new == AddGate(h, spec)
           x == h.next
<1>1. /\ new.kind = Extended(h.kind, x, spec[1])
      /\ new.in = Extended(h.in, x, Tail(spec))
      /\ new.id = h.id
      /\ new.next = h.next + 1
      /\ new = [kind |-> new.kind, in |-> new.in, out |-> new.out, id |-> new.id, next |-> new.next]
  <2> DEFINE kinds == Extended(h.kind, x, spec[1])
             ins == Extended(h.in, x, Tail(spec))
             outs == Attach(Extended(h.out, x, <<>>), x, Tail(spec))
  <2>1. new = [[[[h EXCEPT !.kind = kinds] EXCEPT !.in = ins] EXCEPT !.out = outs]
                EXCEPT !.next = x + 1]
    BY DEF AddGate, MakeGate
  <2>2. PICK k, i, o, d, y : h = [kind |-> k, in |-> i, out |-> o, id |-> d, next |-> y]
    BY DEF HeapRecord
  <2> HIDE DEF kinds, ins, outs
  <2>3. new = [kind |-> kinds, in |-> ins, out |-> outs, id |-> d, next |-> x + 1]
    BY <2>1, <2>2
  <2> QED
    BY <2>2, <2>3 DEF kinds, ins
<1>2. /\ x \in Nat \ {0} /\ Live(h) \subseteq 1 .. x - 1 /\ DOMAIN h.in = Live(h)
      /\ DOMAIN h.kind = Live(h) /\ x \notin Live(h)
      /\ InputGate \subseteq Live(h)
  BY DEF Layered, Live
<1> HIDE DEF new, x
<1>3. /\ DOMAIN new.kind = Live(h) \cup {x} /\ new.kind[x] = spec[1]
      /\ \A g \in Live(h) : new.kind[g] = h.kind[g]
  BY <1>1, <1>2 DEF Extended
<1>4. /\ DOMAIN new.in = Live(h) \cup {x} /\ new.in[x] = Tail(spec)
      /\ \A g \in Live(h) : new.in[g] = h.in[g]
  BY <1>1, <1>2 DEF Extended
<1>5. Live(new) = Live(h) \cup {x} /\ DOMAIN new.in = Live(new)
  BY <1>3, <1>4 DEF Live
<1>6. new.next = x + 1
  BY <1>1 DEF x
<1>7. \A g \in InputGate : new.kind[g] = "INPUT" /\ new.id[g] = g
  BY <1>1, <1>2, <1>3 DEF Layered
<1>8. ASSUME NEW g \in Live(new)
      PROVE  /\ new.kind[g] \in {"TRUE", "FALSE", "NOT", "AND", "OR"} \/ g \in InputGate
             /\ DOMAIN new.in[g] = 1 .. Arity(new.kind[g])
             /\ Children(new, g) \subseteq Live(new) \cap 1 .. g - 1
  <2>1. CASE g = x
    <3>1. DOMAIN Tail(spec) = 1 .. Arity(spec[1]) /\ Range(Tail(spec)) \subseteq Live(h)
      BY TailOfSpec
    <3>2. Range(Tail(spec)) \subseteq Live(new) \cap 1 .. x - 1
      BY <1>2, <1>5, <3>1
    <3> QED
      BY <1>3, <1>4, <2>1, <3>1, <3>2 DEF GateAbove, Children
  <2>2. CASE g # x
    <3>1. g \in Live(h)
      BY <1>5, <2>2
    <3>2. Children(new, g) = Children(h, g)
      BY <1>4, <3>1 DEF Children
    <3>3. /\ h.kind[g] \in {"TRUE", "FALSE", "NOT", "AND", "OR"} \/ g \in InputGate
          /\ DOMAIN h.in[g] = 1 .. Arity(h.kind[g])
          /\ Children(h, g) \subseteq Live(h) \cap 1 .. g - 1
      BY <3>1 DEF Layered
    <3> QED
      BY <1>3, <1>4, <1>5, <3>1, <3>2, <3>3
  <2> QED
    BY <2>1, <2>2
<1>9. Layered(new)
  <2>1. new.next \in Nat \ {0} /\ new.next - 1 = x
    BY <1>2, <1>6
  <2>2. InputGate \subseteq Live(new) /\ Live(new) \subseteq 1 .. x
    BY <1>2, <1>5
  <2> QED
    BY <1>5, <1>7, <1>8, <2>1, <2>2 DEF Layered
<1>10. OneMore(h, new, x, spec)
  BY <1>1, <1>3, <1>4, <1>5, <1>6, <1>9 DEF OneMore, HeapRecord
<1> QED
  BY <1>2, <1>10 DEF new, x

\* The gates that the programs make, as specs over S.
LEMMA SpecsAbove ==
  ASSUME NEW S, NEW a \in S, NEW b \in S
  PROVE  /\ \A kind \in {"AND", "OR"} : GateAbove(<<kind, a, b>>, S)
         /\ GateAbove(<<"NOT", a>>, S)
<1>1. ASSUME NEW kind \in {"AND", "OR"}
      PROVE  GateAbove(<<kind, a, b>>, S)
  <2> DEFINE spec == <<kind, a, b>>
  <2>1. /\ spec[1] = kind /\ spec[2] = a /\ spec[3] = b /\ DOMAIN spec = 1 .. 3
        /\ spec = [i \in DOMAIN spec |-> spec[i]]
    OBVIOUS
  <2> HIDE DEF spec
  <2>2. Arity(spec[1]) = 2
    BY <2>1 DEF Arity
  <2>3. \A i \in 1 .. 2 : spec[i + 1] \in S
    BY <2>1
  <2>4. GateAbove(spec, S)
    BY <2>1, <2>2, <2>3 DEF GateAbove
  <2> QED
    BY <2>4 DEF spec
<1>2. GateAbove(<<"NOT", a>>, S)
  <2> DEFINE spec == <<"NOT", a>>
  <2>1. /\ spec[1] = "NOT" /\ spec[2] = a /\ DOMAIN spec = 1 .. 2
        /\ spec = [i \in DOMAIN spec |-> spec[i]]
    OBVIOUS
  <2> HIDE DEF spec
  <2>2. Arity(spec[1]) = 1
    BY <2>1 DEF Arity
  <2>3. \A i \in 1 .. 1 : spec[i + 1] \in S
    BY <2>1
  <2>4. GateAbove(spec, S)
    BY <2>1, <2>2, <2>3 DEF GateAbove
  <2> QED
    BY <2>4 DEF spec
<1> QED
  BY <1>1, <1>2

LEMMA ConstantAbove ==
  ASSUME NEW S, NEW kind \in {"TRUE", "FALSE"}
  PROVE  GateAbove(<<kind>>, S)
<1> DEFINE spec == <<kind>>
<1>1. /\ spec[1] = kind /\ DOMAIN spec = 1 .. 1
      /\ spec = [i \in DOMAIN spec |-> spec[i]]
  OBVIOUS
<1> HIDE DEF spec
<1>2. Arity(spec[1]) = 0
  BY <1>1 DEF Arity
<1>3. GateAbove(spec, S)
  BY <1>1, <1>2 DEF GateAbove
<1> QED
  BY <1>3 DEF spec

\* A list of gates above the gates of h and the ones before in the list.
NetlistAbove(netlist, h) ==
  /\ Len(netlist) \in Nat
  /\ \A n \in 1 .. Len(netlist) :
       GateAbove(netlist[n], Live(h) \cup h.next .. h.next + n - 2)

\* j is h with n gates made from the netlist.
Grown(h, j, n, netlist) ==
  /\ HeapRecord(j) /\ Layered(j)
  /\ j.next = h.next + n /\ Live(j) = Live(h) \cup h.next .. h.next + n - 1 /\ j.id = h.id
  /\ \A g \in Live(h) : j.kind[g] = h.kind[g] /\ j.in[g] = h.in[g]
  /\ \A k \in 1 .. n : /\ j.kind[h.next + k - 1] = netlist[k][1]
                       /\ j.in[h.next + k - 1] = Tail(netlist[k])

LEMMA AddGatesFacts ==
  ASSUME NEW h, HeapRecord(h), Layered(h), NEW netlist, NetlistAbove(netlist, h)
  PROVE  Grown(h, AddGates(h, netlist), Len(netlist), netlist)
<1> DEFINE N == Len(netlist)
           Body(f, n) == [i \in 0 .. n |-> IF i = 0 THEN h ELSE AddGate(f[i - 1], netlist[i])]
           Solves(f, n) == f = Body(f, n)
           Good == {n \in 0 .. N : \E f : Solves(f, n)}
<1>1. N \in Nat
  BY DEF NetlistAbove
<1>2. 0 \in Good
  <2>1. Solves([i \in 0 .. 0 |-> h], 0)
    OBVIOUS
  <2>2. 0 \in 0 .. N
    BY <1>1
  <2> HIDE DEF Solves
  <2> QED
    BY <2>1, <2>2
<1>3. ASSUME NEW n \in 1 .. N, n - 1 \in Good
      PROVE  n \in Good
  <2>1. PICK f : Solves(f, n - 1)
    BY <1>3
  <2> DEFINE next == [i \in 0 .. n |-> IF i = n THEN AddGate(f[n - 1], netlist[n]) ELSE f[i]]
  <2>2. \A i \in 0 .. n - 1 : next[i] = f[i] /\ f[i] = Body(f, n - 1)[i]
    BY <1>1, <2>1
  <2>3. ASSUME NEW i \in 0 .. n
        PROVE  next[i] = Body(next, n)[i]
    <3>1. CASE i = n
      <4>1. next[n] = AddGate(f[n - 1], netlist[n]) /\ next[n - 1] = f[n - 1]
        BY <1>1
      <4> QED
        BY <1>1, <3>1, <4>1
    <3>2. CASE i # n /\ i # 0
      <4>1. i \in 0 .. n - 1 /\ i - 1 \in 0 .. n - 1
        BY <1>1, <3>2
      <4>2. next[i] = AddGate(f[i - 1], netlist[i]) /\ next[i - 1] = f[i - 1]
        BY <2>2, <3>2, <4>1
      <4> QED
        BY <3>2, <4>2
    <3>3. CASE i # n /\ i = 0
      <4>1. 0 \in 0 .. n - 1
        BY <1>1, <3>3
      <4> QED
        BY <2>2, <3>3, <4>1
    <3> QED
      BY <3>1, <3>2, <3>3
  <2>4. Solves(next, n)
    BY <2>3
  <2> HIDE DEF Solves, next
  <2>5. n \in 0 .. N
    BY <1>1
  <2> QED
    BY <2>4, <2>5
<1>4. N \in Good
  <2>1. \A k \in 1 .. N : 1 .. k - 1 \subseteq Good => k \in Good
    <3> SUFFICES ASSUME NEW k \in 1 .. N, 1 .. k - 1 \subseteq Good PROVE k \in Good
      OBVIOUS
    <3>1. k - 1 \in 1 .. k - 1 \/ k - 1 = 0
      BY <1>1
    <3>2. k - 1 \in Good
      BY <1>2, <3>1
    <3> QED
      BY <1>3, <3>2
  <2> HIDE DEF Good
  <2>2. 1 .. N \subseteq Good
    BY <1>1, <2>1, FromBelow
  <2>3. N \in 1 .. N \/ N = 0
    BY <1>1
  <2> QED
    BY <1>2, <2>2, <2>3
<1> DEFINE added == CHOOSE f : Solves(f, N)
<1>5. Solves(added, N)
  <2> HIDE DEF Solves
  <2> QED
    BY <1>4
<1>6. AddGates(h, netlist) = added[N]
  BY DEF AddGates
<1> HIDE DEF added
<1>7. added[0] = h /\ \A n \in 1 .. N : added[n] = AddGate(added[n - 1], netlist[n])
  BY <1>1, <1>5
<1> DEFINE Layers == {n \in 0 .. N : Grown(h, added[n], n, netlist)}
<1>8. 0 \in Layers
  <2>1. h.next \in Nat
    BY DEF Layered
  <2>2. h.next = h.next + 0 /\ Live(h) = Live(h) \cup h.next .. h.next + 0 - 1
    BY <2>1
  <2>3. Grown(h, h, 0, netlist)
    BY <2>2 DEF Grown
  <2> QED
    BY <1>1, <1>7, <2>3
<1>9. ASSUME NEW n \in 1 .. N, 1 .. n - 1 \subseteq Layers
      PROVE  n \in Layers
  <2> DEFINE old == added[n - 1]
             new == added[n]
             x == h.next + n - 1
  <2>1. Grown(h, old, n - 1, netlist)
    <3>1. n - 1 \in 1 .. n - 1 \/ n - 1 = 0
      BY <1>1
    <3> QED
      BY <1>8, <1>9, <3>1
  <2>2. new = AddGate(old, netlist[n])
    BY <1>7
  <2>3. h.next \in Nat /\ n \in Nat
    BY <1>1 DEF Layered
  <2> HIDE DEF old, new
  <2>4. /\ HeapRecord(old) /\ Layered(old) /\ old.next = x
        /\ Live(old) = Live(h) \cup h.next .. h.next + n - 2
    BY <2>1, <2>3 DEF Grown
  <2>5. GateAbove(netlist[n], Live(old))
    BY <2>4 DEF NetlistAbove
  <2>6. OneMore(old, new, x, netlist[n])
    BY <2>2, <2>4, <2>5, AddGateFacts
  <2>7. new.next = h.next + n /\ Live(new) = Live(h) \cup h.next .. h.next + n - 1
    <3>1. h.next .. h.next + n - 1 = (h.next .. h.next + n - 2) \cup {x}
      BY <2>3
    <3>2. new.next = x + 1
      BY <2>6 DEF OneMore
    <3> QED
      BY <2>3, <2>4, <2>6, <3>1, <3>2 DEF OneMore
  <2>8. \A g \in Live(h) : new.kind[g] = h.kind[g] /\ new.in[g] = h.in[g]
    BY <2>1, <2>4, <2>6 DEF OneMore, Grown
  <2>9. ASSUME NEW k \in 1 .. n
        PROVE  /\ new.kind[h.next + k - 1] = netlist[k][1]
               /\ new.in[h.next + k - 1] = Tail(netlist[k])
    <3>1. CASE k = n
      BY <2>6, <3>1 DEF OneMore
    <3>2. CASE k # n
      <4>1. k \in 1 .. n - 1 /\ h.next + k - 1 \in Live(old)
        BY <2>3, <2>4, <3>2
      <4> QED
        BY <2>1, <2>6, <4>1 DEF OneMore, Grown
    <3> QED
      BY <3>1, <3>2
  <2>10. new.id = h.id
    BY <2>1, <2>6 DEF OneMore, Grown
  <2>11. Grown(h, new, n, netlist)
    BY <2>6, <2>7, <2>8, <2>9, <2>10 DEF Grown, OneMore
  <2> QED
    BY <1>1, <2>11 DEF new
<1>10. Grown(h, added[N], N, netlist)
  <2> HIDE DEF Layers
  <2>1. 1 .. N \subseteq Layers
    BY <1>1, <1>9, FromBelow
  <2>2. N \in 1 .. N \/ N = 0
    BY <1>1
  <2>3. N \in Layers
    BY <1>8, <2>1, <2>2
  <2> QED
    BY <2>3 DEF Layers
<1> QED
  BY <1>6, <1>10

\* The gates that were there are as before.
LEMMA AddGatesAgrees ==
  ASSUME NEW h, HeapRecord(h), Layered(h), NEW netlist, NetlistAbove(netlist, h)
  PROVE  AgreeOn(h, AddGates(h, netlist), Live(h))
<1>1. Grown(h, AddGates(h, netlist), Len(netlist), netlist)
  BY AddGatesFacts
<1>2. Downward(h, Live(h))
  BY ChildrenAreLive DEF Downward
<1> QED
  BY <1>1, <1>2 DEF Grown, AgreeOn

LEMMA InputsOnlyFacts ==
  /\ HeapRecord(InputsOnly) /\ Layered(InputsOnly)
  /\ Live(InputsOnly) = InputGate /\ InputsOnly.next = NumOfInputs + 1
<1> DEFINE h == InputsOnly
<1>1. /\ h.kind = [g \in InputGate |-> "INPUT"] /\ h.in = [g \in InputGate |-> <<>>]
      /\ h.id = [g \in InputGate |-> g] /\ h.next = NumOfInputs + 1
      /\ h = [kind |-> h.kind, in |-> h.in, out |-> h.out, id |-> h.id, next |-> h.next]
  BY DEF InputsOnly
<1>2. Live(h) = InputGate /\ DOMAIN h.in = InputGate
  BY <1>1 DEF Live
<1> HIDE DEF h
<1>3. \A g \in InputGate : DOMAIN h.in[g] = {} /\ Children(h, g) = {}
  BY <1>1 DEF Children, Range
<1>4. Arity("INPUT") = 0
  BY DEF Arity
<1>5. h.next \in Nat \ {0} /\ InputGate \subseteq 1 .. h.next - 1
  BY <1>1, InputsAssumption DEF InputGate
<1>6. Layered(h)
  BY <1>1, <1>2, <1>3, <1>4, <1>5 DEF Layered
<1> QED
  BY <1>1, <1>2, <1>6 DEF HeapRecord, h

-----------------------------------------------------------------------------
(* Gates destroyed.                                                        *)

\* What is kept with all that is below it stays as it was.
LEMMA KeepOnlyAgrees ==
  ASSUME NEW h, HeapRecord(h), Layered(h),
         NEW kept \in SUBSET Live(h), InputGate \subseteq kept, Downward(h, kept)
  PROVE  /\ HeapRecord(KeepOnly(h, kept)) /\ Live(KeepOnly(h, kept)) = kept
         /\ AgreeOn(h, KeepOnly(h, kept), kept) /\ KeepOnly(h, kept).next = h.next
<1> DEFINE new == KeepOnly(h, kept)
           kinds == [g \in kept |-> h.kind[g]]
           ins == [g \in kept |-> h.in[g]]
<1>1. PICK outs : new = [h EXCEPT !.kind = kinds, !.in = ins, !.out = outs]
  BY DEF KeepOnly
<1>2. PICK k, i, o, d, y : h = [kind |-> k, in |-> i, out |-> o, id |-> d, next |-> y]
  BY DEF HeapRecord
<1> HIDE DEF new, kinds, ins
<1>3. new = [kind |-> kinds, in |-> ins, out |-> outs, id |-> d, next |-> y]
  BY <1>1, <1>2
<1>4. new.kind = kinds /\ new.in = ins /\ new.id = h.id /\ new.next = h.next /\ HeapRecord(new)
  BY <1>2, <1>3 DEF HeapRecord
<1>5. Live(new) = kept /\ DOMAIN new.in = kept
  BY <1>4 DEF Live, kinds, ins
<1>6. \A g \in kept : new.kind[g] = h.kind[g] /\ new.in[g] = h.in[g]
  BY <1>4 DEF kinds, ins
<1>7. Layered(new)
  <2>1. new.next \in Nat \ {0} /\ kept \subseteq 1 .. new.next - 1
    BY <1>4 DEF Layered
  <2>2. \A g \in InputGate : new.kind[g] = "INPUT" /\ new.id[g] = g
    BY <1>4, <1>6 DEF Layered
  <2>3. ASSUME NEW g \in kept
        PROVE  /\ new.kind[g] \in {"TRUE", "FALSE", "NOT", "AND", "OR"} \/ g \in InputGate
               /\ DOMAIN new.in[g] = 1 .. Arity(new.kind[g])
               /\ Children(new, g) \subseteq kept \cap 1 .. g - 1
    <3>1. g \in Live(h) /\ Children(new, g) = Children(h, g)
      BY <1>6 DEF Children
    <3>2. Children(h, g) \subseteq kept
      BY <3>1 DEF Downward
    <3>3. /\ h.kind[g] \in {"TRUE", "FALSE", "NOT", "AND", "OR"} \/ g \in InputGate
          /\ DOMAIN h.in[g] = 1 .. Arity(h.kind[g])
          /\ Children(h, g) \subseteq 1 .. g - 1
      BY <3>1 DEF Layered
    <3> QED
      BY <1>6, <3>1, <3>2, <3>3
  <2> QED
    BY <1>5, <2>1, <2>2, <2>3 DEF Layered
<1>8. AgreeOn(h, new, kept)
  BY <1>5, <1>6, <1>7 DEF AgreeOn
<1> QED
  BY <1>4, <1>5, <1>8 DEF new

LEMMA SweepAgrees ==
  ASSUME NEW h, HeapRecord(h), Layered(h), NEW pins \in SUBSET Live(h), InputGate \subseteq pins
  PROVE  LET kept == ReachableFrom(h, pins) IN
         /\ HeapRecord(Sweep(h, pins)) /\ Live(Sweep(h, pins)) = kept /\ pins \subseteq kept
         /\ AgreeOn(h, Sweep(h, pins), kept) /\ Sweep(h, pins).next = h.next
<1> DEFINE kept == ReachableFrom(h, pins)
<1>1. pins \subseteq kept /\ kept \subseteq Live(h) /\ Downward(h, kept)
  BY ReachFacts
<1>2. kept \in SUBSET Live(h) /\ InputGate \subseteq kept
  BY <1>1
<1>3. Sweep(h, pins) = KeepOnly(h, kept)
  BY DEF Sweep
<1> HIDE DEF kept
<1> QED
  BY <1>1, <1>2, <1>3, KeepOnlyAgrees DEF kept

\* A circuit as built is layered, and its gates are numbered on from the inputs.
LEMMA BuiltFacts ==
  ASSUME NEW netlist, IsNetlist(netlist)
  PROVE  LET built == Build(netlist) IN
         /\ HeapRecord(built) /\ Layered(built) /\ Live(built) = 1 .. NumOfInputs + Len(netlist)
         /\ built.next - 1 = NumOfInputs + Len(netlist) /\ built.next - 1 \in Live(built)
         /\ built.id = [g \in InputGate |-> g]
<1> DEFINE h == InputsOnly
           j == Build(netlist)
           N == Len(netlist)
<1>1. /\ N \in Nat /\ NumOfInputs \in Nat /\ NumOfInputs + N # 0
      /\ \A n \in 1 .. N :
            \/ netlist[n] \in {<<"TRUE">>, <<"FALSE">>}
            \/ \E x \in 1 .. NumOfInputs + n - 1 : netlist[n] = <<"NOT", x>>
            \/ \E kind \in {"AND", "OR"}, x, y \in 1 .. NumOfInputs + n - 1 :
                 netlist[n] = <<kind, x, y>>
  BY InputsAssumption DEF IsNetlist
<1>2. /\ HeapRecord(h) /\ Layered(h) /\ Live(h) = InputGate /\ h.next = NumOfInputs + 1
      /\ j = AddGates(h, netlist) /\ h.id = [g \in InputGate |-> g]
  BY InputsOnlyFacts DEF Build, InputsOnly
<1> HIDE DEF h, j, N
<1>3. ASSUME NEW n \in 1 .. N
      PROVE  GateAbove(netlist[n], Live(h) \cup h.next .. h.next + n - 2)
  <2> DEFINE S == 1 .. NumOfInputs + n - 1
  <2>1. Live(h) \cup h.next .. h.next + n - 2 = S
    BY <1>1, <1>2 DEF InputGate
  <2> HIDE DEF S
  <2>2. CASE netlist[n] \in {<<"TRUE">>, <<"FALSE">>}
    <3>1. PICK kind \in {"TRUE", "FALSE"} : netlist[n] = <<kind>>
      BY <2>2
    <3>2. GateAbove(<<kind>>, S)
      BY ConstantAbove
    <3> QED
      BY <2>1, <3>1, <3>2
  <2>3. CASE \E x \in S : netlist[n] = <<"NOT", x>>
    <3>1. PICK x \in S : netlist[n] = <<"NOT", x>>
      BY <2>3
    <3>2. GateAbove(<<"NOT", x>>, S)
      BY SpecsAbove
    <3> QED
      BY <2>1, <3>1, <3>2
  <2>4. CASE \E kind \in {"AND", "OR"}, x, y \in S : netlist[n] = <<kind, x, y>>
    <3>1. PICK kind \in {"AND", "OR"}, x \in S, y \in S : netlist[n] = <<kind, x, y>>
      BY <2>4
    <3>2. GateAbove(<<kind, x, y>>, S)
      BY SpecsAbove
    <3> QED
      BY <2>1, <3>1, <3>2
  <2> QED
    BY <1>1, <2>2, <2>3, <2>4 DEF S
<1>4. NetlistAbove(netlist, h)
  BY <1>1, <1>3 DEF NetlistAbove, N
<1>5. Grown(h, j, N, netlist)
  BY <1>2, <1>4, AddGatesFacts DEF N
<1>6. /\ HeapRecord(j) /\ Layered(j) /\ j.next = h.next + N
      /\ Live(j) = Live(h) \cup h.next .. h.next + N - 1 /\ j.id = h.id
  BY <1>5 DEF Grown
<1>7. Live(j) = 1 .. NumOfInputs + N /\ j.next - 1 = NumOfInputs + N
  BY <1>1, <1>2, <1>6 DEF InputGate
<1>8. j.next - 1 \in Live(j)
  BY <1>1, <1>7
<1> QED
  BY <1>1, <1>2, <1>6, <1>7, <1>8 DEF j, N

=============================================================================
