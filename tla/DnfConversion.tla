---------------------------- MODULE DnfConversion ----------------------------
(***************************************************************************)
(* Disjunctive normal forms: CircuitWithoutNotGate::toDnf collects a set   *)
(* of implicants in every gate (getDnf) and rebuilds the circuit from that *)
(* of the output (Circuit::buildFromDnf); DnfCircuit reads the clauses     *)
(* back from the gates, hands them to a minimiser and rebuilds the circuit *)
(* from the answer (minimizeEspresso, minimizeQuineMcClusky).              *)
(*                                                                         *)
(* An implicant gives every input the set of values it allows: {1} is      *)
(* TRUE, {0} FALSE, {0, 1} DONT_CARE and {} INVALID, so that &= is an      *)
(* intersection.  full is numOfDontCares = numOfVariables, which operator& *)
(* does not recompute.                                                     *)
(*                                                                         *)
(* Abstraction.  A std::set may keep several INVALID implicants, which one *)
(* depends on its layout; one is kept here, and it is the last in order.   *)
(***************************************************************************)
EXTENDS GateHeap

CONSTANT Circuits     \* the netlists to convert

\* The circuits come from removeNotGates, which leaves NOT gates above
\* inputs only, and the programs make no constant gates.
ASSUME CircuitsAssumption ==
  /\ NumOfInputs \in Nat \ {0}
  /\ \A netlist \in Circuits :
       /\ Len(netlist) \in Nat
       /\ \A n \in 1 .. Len(netlist) :
            \/ \E i \in InputGate : netlist[n] = <<"NOT", i>>
            \/ \E kind \in {"AND", "OR"}, x, y \in 1 .. NumOfInputs + n - 1 :
                 netlist[n] = <<kind, x, y>>

VARIABLES
  heap,     \* the gates
  forms,    \* normalForm of the gates flagged NORMAL_FORM
  output,   \* Circuit::output
  cubes,    \* the implicants the circuit was last built from, in order
  answer,   \* the lines of the PLA file that are still to be read
  phase,    \* "circuit", "collected", "dnf", "reading" or "done"
  goal      \* history: what the circuit computed at first

vars == <<heap, forms, output, cubes, answer, phase, goal>>

-----------------------------------------------------------------------------
(* Implicants.                                                             *)

Value == SUBSET {0, 1}
Rank(value) == CASE value = {} -> 0 [] value = {1} -> 1 [] value = {0} -> 2 [] OTHER -> 3

Valid(values) == \A i \in InputGate : values[i] # {}
DontCares == [i \in InputGate |-> {0, 1}]
Invalid == [i \in InputGate |-> {}]
Implicant(values) ==
  [values |-> IF Valid(values) THEN values ELSE Invalid, full |-> values = DontCares]

Literal(i, value) == Implicant([DontCares EXCEPT ![i] = {value}])

\* Mutant: the first operand is kept where the two disagree.
MeetFirst(p, q) ==
  LET values == [i \in InputGate |-> IF p.values[i] \cap q.values[i] = {} THEN p.values[i]
                                     ELSE p.values[i] \cap q.values[i]]
  IN  [Implicant(values) EXCEPT !.full = p.full]

\* Implicant::operator&: the counts are those of the first operand.
Meet(p, q) ==
  [Implicant([i \in InputGate |-> p.values[i] \cap q.values[i]]) EXCEPT !.full = p.full]

\* operator<: lexicographic, INVALID implicants last.
Smaller(p, q) ==
  \/ Valid(p.values) /\ ~Valid(q.values)
  \/ /\ Valid(p.values) /\ Valid(q.values)
     /\ \E i \in InputGate :
          /\ Rank(p.values[i]) < Rank(q.values[i])
          /\ \A j \in 1 .. i - 1 : p.values[j] = q.values[j]

\* The members of S, from the first to the last in the order before.
Sorted(S, before) ==
  [n \in 1 .. Cardinality(S) |->
     CHOOSE x \in S : Cardinality({y \in S : <<y, x>> \in before}) = n - 1]

InOrder(form) == Sorted(form, {pair \in form \X form : Smaller(pair[1], pair[2])})

-----------------------------------------------------------------------------
(* getDnf: the forms of g and of what is below it.                         *)

\* AndGate::getDnf.  std::set::insert keeps the element it has, so that of
\* equal products the one with the least first operand stays.
Product(first, second) ==
  LET values == {Meet(p, q).values : p \in first, q \in second}
      Factors(v) == {p \in first : \E q \in second : Meet(p, q).values = v}
      Full(v) == \E p \in Factors(v) : p.full /\ \A q \in Factors(v) : ~Smaller(q, p)
  IN  {[values |-> v, full |-> Full(v)] : v \in values}

\* OrGate::getDnf, set_union: of equal implicants the first one stays.
Union(first, second) == first \cup {q \in second : \A p \in first : p.values # q.values}

Forms(h, cache) ==
  LET form[g \in Live(h)] ==
        LET first == form[h.in[g][1]]
            second == form[h.in[g][2]]
        IN  IF g \in DOMAIN cache THEN cache[g]
            ELSE CASE h.kind[g] = "TRUE" -> {Implicant(DontCares)}
                   [] h.kind[g] = "FALSE" -> {}
                   [] h.kind[g] = "INPUT" -> {Literal(h.id[g], 1)}
                   [] h.kind[g] = "NOT" -> {Literal(h.id[h.in[g][1]], 0)}
                   [] h.kind[g] = "AND" -> Product(first, second)
                   [] OTHER -> Union(first, second)
  IN  form

\* A FALSE gate is not flagged, and a NOT gate does not ask its input.
WithForm(h, cache, g) ==
  LET Asked(x) == IF Bivariate(h, x) /\ x \notin DOMAIN cache THEN Children(h, x) ELSE {}
      asked == Closure([x \in Live(h) |-> Asked(x)], {g})
  IN  [x \in DOMAIN cache \cup {y \in asked : h.kind[y] # "FALSE"} |-> Forms(h, cache)[x]]

FormOf(cache, g) == IF g \in DOMAIN cache THEN cache[g] ELSE {}

ResetForms(h, cache, g) ==      \* resetFlagRecursive(NORMAL_FORM)
  LET flagged == [x \in Live(h) |-> Children(h, x) \cap DOMAIN cache]
  IN  [x \in DOMAIN cache \ Closure(flagged, {g}) |-> cache[x]]

-----------------------------------------------------------------------------
(* Gates from implicants: a tree of one kind over a list of gates, as a    *)
(* netlist whose first gate has the name first.                            *)

Names(first, list) == [k \in 1 .. Len(list) - 1 |-> first + k - 1]

\* The queue of Circuit::buildFromDnf: two from the front, one to the back.
Balanced(kind, list, first) ==
  LET queue == list \o Names(first, list)
  IN  [k \in 1 .. Len(list) - 1 |-> <<kind, queue[2 * k - 1], queue[2 * k]>>]

\* DnfCircuit::buildFromImplicant puts a new literal first, an OR second.
Linear(kind, list, first) ==
  LET Top(k) == IF k = 1 THEN list[1] ELSE first + k - 2
  IN  [k \in 1 .. Len(list) - 1 |->
         IF kind = "AND" THEN <<kind, list[k + 1], Top(k)>> ELSE <<kind, Top(k), list[k + 1]>>]

\* The heap with the tree, as Circuit or as DnfCircuit builds it, and its root.
Tree(class, h, kind, list) ==
  [heap |-> AddGates(h, IF class = "Circuit" THEN Balanced(kind, list, h.next)
                        ELSE Linear(kind, list, h.next)),
   gate |-> IF Len(list) = 1 THEN list[1] ELSE h.next + Len(list) - 2]

Less == {pair \in InputGate \X InputGate : pair[1] < pair[2]}
Negated(p) == {i \in InputGate : p.values[i] = {0}}
Nots(p) == LET negated == Sorted(Negated(p), Less)
           IN  [k \in DOMAIN negated |-> <<"NOT", negated[k]>>]

\* The gates of the literals of p, when the NOT gates start at first.
Literals(p, first) ==
  LET used == Sorted({i \in InputGate : p.values[i] # {0, 1}}, Less)
      Gate(i) == IF i \in Negated(p) THEN first + Cardinality({j \in Negated(p) : j < i}) ELSE i
  IN  [n \in DOMAIN used |-> Gate(used[n])]

Constant(h, kind) == [heap |-> AddGates(h, << <<kind>> >>), gate |-> h.next]

\* buildFromImplicant of either class; that of DnfCircuit is given valid
\* implicants only.
Clause(class, h, p) ==
  IF ~Valid(p.values) THEN Constant(h, "FALSE")
  ELSE IF p.full THEN Constant(h, "TRUE")
  ELSE Tree(class, AddGates(h, Nots(p)), "AND", Literals(p, h.next))

\* The heap with a clause for each member of list, and the clauses.
Clauses(class, h, list) ==
  LET made[n \in 0 .. Len(list)] ==
        IF n = 0 THEN [heap |-> h, gates |-> <<>>]
        ELSE LET clause == Clause(class, made[n - 1].heap, list[n])
             IN  [heap |-> clause.heap, gates |-> Append(made[n - 1].gates, clause.gate)]
  IN  made[Len(list)]

\* buildFromDnf, buildFromImplicantList.
Sum(class, h, list) ==
  LET clauses == Clauses(class, h, list)
  IN  IF list = <<>> THEN Constant(h, "FALSE") ELSE Tree(class, clauses.heap, "OR", clauses.gates)

-----------------------------------------------------------------------------
(* Implicants from gates.                                                  *)

\* g and, where gates are of this kind, what is below them.
Within(h, kind, g) ==
  Closure([x \in Live(h) |-> IF h.kind[x] = kind THEN Children(h, x) ELSE {}], {g})

\* Mutant: an OR right below an OR is not looked into.
TopClauses(h, g) == IF h.kind[g] = "OR" THEN Children(h, g) ELSE {g}

ClauseGates(h, g) ==          \* listClausesInSubgraph
  {x \in Within(h, "OR", g) : h.kind[x] # "OR"}

\* The values that a gate below a clause leaves to the inputs.
Allowed(h, x) ==
  CASE h.kind[x] = "INPUT" -> [DontCares EXCEPT ![x] = {1}]
    [] h.kind[x] = "NOT" -> [DontCares EXCEPT ![h.in[x][1]] = {0}]
    [] h.kind[x] \in {"AND", "TRUE"} -> DontCares
    [] h.kind[x] = "FALSE" -> [DontCares EXCEPT ![1] = {}]
    [] OTHER -> Invalid       \* "DNF error"; NoDnfError says that it is not met

Collect(h, g) ==              \* collectInputsFromSubgraph
  LET met == Within(h, "AND", g)
  IN  [i \in InputGate |-> {v \in {0, 1} : \A x \in met : v \in Allowed(h, x)[i]}]

IsValid(p) == Valid(p.values)

ImplicantList(h, g) ==        \* getImplicantList
  {p \in {Implicant(Collect(h, c)) : c \in ClauseGates(h, g)} : IsValid(p)}

-----------------------------------------------------------------------------
(* The minimisers, external: any irredundant cover by primes.              *)

Points(values) ==
  {a \in Valuation : \A i \in InputGate : (IF i \in a THEN 1 ELSE 0) \in values[i]}
Covered(implicants) == UNION {Points(p.values) : p \in implicants}

Primes(points) ==
  LET within == {v \in [InputGate -> Value \ {{}}] : Points(v) \subseteq points}
  IN  {v \in within : \A w \in within : Points(v) \subseteq Points(w) => v = w}
IrredundantCovers(points) ==
  LET Joined(vs) == UNION {Points(v) : v \in vs}
  IN  {vs \in SUBSET Primes(points) :
         Joined(vs) = points /\ \A v \in vs : Joined(vs \ {v}) # points}
Answers(implicants) ==
  {InOrder({Implicant(v) : v \in vs}) : vs \in IrredundantCovers(Covered(implicants))}

-----------------------------------------------------------------------------
(* The operations.                                                         *)

\* Mutant: the new output is built and not assigned.
SetOutputForgotten(built, list) == cubes' = list /\ UNCHANGED <<output, heap>>

\* The new output replaces the old one, which is destroyed.
SetOutput(built, list) ==
  /\ output' = built.gate
  /\ heap' = Sweep(built.heap, InputGate \cup {built.gate})
  /\ cubes' = list

Init ==
  \E netlist \in Circuits :
    LET built == Build(netlist) IN
    /\ output = built.next - 1
    /\ heap = Sweep(built, InputGate \cup {output})
    /\ goal = Table(heap, output)
    /\ forms = <<>> /\ cubes = <<>> /\ answer = <<>> /\ phase = "circuit"

\* toDnf collects the forms of the output ...
GetDnf ==
  /\ phase = "circuit"
  /\ forms' = WithForm(heap, forms, output)
  /\ phase' = "collected"
  /\ UNCHANGED <<heap, output, cubes, answer, goal>>

\* ... and builds from it while the old output still owns it.
BuildFromDnf ==
  LET list == InOrder(FormOf(forms, output))
  IN  /\ phase = "collected"
      /\ SetOutput(Sum("Circuit", heap, list), list)
      /\ forms' = LET reset == ResetForms(heap, forms, output)
                  IN  [g \in DOMAIN reset \cap Live(heap') |-> reset[g]]
      /\ phase' = "dnf"
      /\ UNCHANGED <<answer, goal>>

\* minimizeEspresso: an empty list throws and the circuit becomes FALSE.
Espresso ==
  LET list == ImplicantList(heap, output)
  IN  /\ phase = "dnf"
      /\ IF list = {}
         THEN /\ SetOutput(Sum("DnfCircuit", heap, <<>>), <<>>)
              /\ phase' = "done"
              /\ UNCHANGED answer
         ELSE /\ answer' \in Answers(list)
              /\ cubes' = <<>>
              /\ phase' = "reading"
              /\ UNCHANGED <<heap, output>>
      /\ UNCHANGED <<forms, goal>>

\* readPlaFormat rebuilds the circuit after every line.
ReadLine ==
  LET list == Append(cubes, Head(answer))
  IN  /\ phase = "reading" /\ answer # <<>>
      /\ SetOutput(Sum("DnfCircuit", heap, list), list)
      /\ answer' = Tail(answer)
      /\ UNCHANGED <<forms, phase, goal>>

EndOfFile ==
  /\ phase = "reading" /\ answer = <<>>
  /\ phase' = "done"
  /\ UNCHANGED <<heap, forms, output, cubes, answer, goal>>

\* minimizeQuineMcClusky, whose chart QuineMcCluskey models.
QuineMcClusky ==
  /\ phase = "dnf"
  /\ \E list \in Answers(ImplicantList(heap, output)) :
       SetOutput(Sum("DnfCircuit", heap, list), list)
  /\ phase' = "done"
  /\ UNCHANGED <<forms, answer, goal>>

\* A DnfCircuit is made from the result: a copy of its gates is converted.
ConvertAgain ==
  /\ phase = "done"
  /\ LET copy == Sum("DnfCircuit", InputsOnly, cubes)
     IN  heap' = copy.heap /\ output' = copy.gate
  /\ phase' = "circuit"
  /\ UNCHANGED <<forms, cubes, answer, goal>>

Next ==
  \/ GetDnf \/ BuildFromDnf \/ Espresso \/ ReadLine \/ EndOfFile \/ QuineMcClusky
  \/ ConvertAgain

Spec == Init /\ [][Next]_vars

-----------------------------------------------------------------------------
(* Properties.                                                             *)

\* Conversion and minimisation keep the function; while an answer is read
\* the circuit computes the clauses read so far, and with the lines that
\* are left it still computes the whole.
FunctionKept ==
  IF phase = "reading" /\ cubes # <<>>
  THEN /\ Table(heap, output) = Covered(Range(cubes))
       /\ Covered(Range(cubes \o answer)) = goal
  ELSE Table(heap, output) = goal

\* What a circuit was built from can be read back from its gates: no clause
\* is lost or read as another one, and contradictory ones alone are dropped.
ReadBack ==
  phase \in {"dnf", "reading", "done"} /\ (phase = "reading" => cubes # <<>>) =>
    {p.values : p \in ImplicantList(heap, output)}
      = {p.values : p \in {q \in Range(cubes) : IsValid(q)}}

\* collectInputsFromSubgraph throws "DNF error" for an OR below an AND, and
\* takes what is below a NOT for an input unseen.
NoDnfError ==
  phase \in {"dnf", "reading", "done"} =>
    \A clause \in ClauseGates(heap, output) :
      \A g \in ReachableFrom(heap, {clause}) :
        /\ heap.kind[g] # "OR"
        /\ heap.kind[g] = "NOT" => heap.in[g][1] \in InputGate

-----------------------------------------------------------------------------
(* Why these hold: an inductive invariant.                                 *)

\* What getDnf and collectInputsFromSubgraph rely on.  A product of a form
\* with DONT_CAREs only would keep its count, so no TRUE is below an AND.
Suitable(h) ==
  /\ h = [kind |-> h.kind, in |-> h.in, out |-> h.out, id |-> h.id, next |-> h.next]
  /\ Layered(h)
  /\ \A g \in Live(h) : h.kind[g] = "NOT" => h.in[g][1] \in InputGate
  /\ \A g \in Live(h) : h.kind[g] = "AND" =>
       \A x \in ReachableFrom(h, {g}) : h.kind[x] # "TRUE"

Implicants == {Implicant(values) : values \in [InputGate -> Value]}

Plain(h, clause) == \A g \in ReachableFrom(h, {clause}) : h.kind[g] # "OR"

ValidValues(implicants) == {p.values : p \in {q \in implicants : IsValid(q)}}

\* The gates below out are those of the clauses in list.
BuiltFrom(h, out, list) ==
  /\ \A clause \in ClauseGates(h, out) : Plain(h, clause)
  /\ {p.values : p \in ImplicantList(h, out)} = ValidValues(Range(list))

DnfInv ==
  /\ phase \in {"circuit", "collected", "dnf", "reading", "done"}
  /\ Suitable(heap) /\ output \in Live(heap)
  /\ cubes \in Seq(Implicants) /\ answer \in Seq(Implicants)
  /\ forms = IF phase = "collected" THEN WithForm(heap, <<>>, output) ELSE <<>>
  /\ phase \in {"circuit", "collected"} => Table(heap, output) = goal
  /\ phase \in {"dnf", "done"} =>
       BuiltFrom(heap, output, cubes) /\ Covered(Range(cubes)) = goal
  /\ phase = "reading" =>
       /\ \A clause \in ClauseGates(heap, output) : Plain(heap, clause)
       /\ cubes = <<>> => answer # <<>> /\ Table(heap, output) = goal
       /\ cubes # <<>> => BuiltFrom(heap, output, cubes)
       /\ Covered(Range(cubes \o answer)) = goal
=============================================================================
