--------------------------- MODULE QuineMcCluskey ---------------------------
(***************************************************************************)
(* DnfCircuit::minimizeQuineMcClusky: the clauses of a disjunctive normal  *)
(* form are read (getImplicantList), expanded to minterms                  *)
(* (Implicant::toMintermList), numbered and put into the first bracket of  *)
(* an ImplicantChart (addMinterm).  Brackets of ever larger implicants are *)
(* made by merging pairs that differ in one variable (mergeAllImplicants); *)
(* what was never merged is prime and is listed in the PrimeChart, whose   *)
(* search gives the new clauses.                                           *)
(*                                                                         *)
(* Abstractions.  An implicant is the function from the variables to its   *)
(* values; its counters are derived from them.  Merging a bracket is one   *)
(* step: marks are read only after the last one.  Which order the sets     *)
(* iterate in decides only the numbers of the minterms.                    *)
(***************************************************************************)
EXTENDS PrimeChart, SequencesExt

CONSTANTS
  Variable,     \* the input variables
  Dnfs          \* the circuits to minimise, as sequences of clauses

Value == {"TRUE", "FALSE", "DONT_CARE"}
Literal == Variable \X {"TRUE", "FALSE"}

\* A clause is the set of its literals.
ASSUME DnfAssumption ==
  /\ Implicant = [Variable -> Value]
  /\ Dnfs \subseteq Seq(SUBSET Literal)

VARIABLES
  clauses,        \* the clauses that are not yet read
  expansion,      \* minterms of the clause being read, not yet added
  sizeBrackets,   \* implicants by the number of their DONT_CAREs
  marked,         \* the implicants merged into a larger one
  goal            \* history: the minterms of the circuit

mergeVars == <<clauses, expansion, sizeBrackets, marked, goal>>
minimizeVars == <<primeVars, mergeVars>>

-----------------------------------------------------------------------------
Minterm == [Variable -> {"TRUE", "FALSE"}]

\* The minterms of an implicant: every DONT_CARE set to TRUE and to FALSE.
Cube(p) == {m \in Minterm : \A v \in Variable : p[v] \in {m[v], "DONT_CARE"}}

\* collectInputsFromSubgraph: a variable's value is DONT_CARE, narrowed by
\* each literal; with both literals of a variable the clause is invalid.
Valid(clause) ==
  \A v \in Variable : ~({<<v, "TRUE">>, <<v, "FALSE">>} \subseteq clause)
ToImplicant(clause) ==
  [v \in Variable |-> IF <<v, "TRUE">> \in clause THEN "TRUE"
                      ELSE IF <<v, "FALSE">> \in clause THEN "FALSE"
                      ELSE "DONT_CARE"]

Satisfies(m, clause) == \A l \in clause : m[l[1]] = l[2]

MinimizeInit ==
  /\ clauses \in Dnfs
  /\ goal = {m \in Minterm : \E n \in DOMAIN clauses : Satisfies(m, clauses[n])}
  /\ expansion = {}
  /\ sizeBrackets = <<{}>>
  /\ marked = {}
  /\ mintermIDs = << >>
  /\ coveringImplicants = << >>
  /\ StartSearch
  /\ pc = "read"

\* The next clause becomes an implicant; an invalid one is left out.
ReadClause ==
  /\ pc = "read"
  /\ expansion = {}
  /\ clauses # << >>
  /\ clauses' = Tail(clauses)
  /\ expansion' = IF Valid(Head(clauses)) THEN Cube(ToImplicant(Head(clauses))) ELSE {}
  /\ UNCHANGED <<primeVars, sizeBrackets, marked, goal>>

\* Mutant: repetitions are numbered again.
NumberAgain(m) == [p \in DOMAIN mintermIDs \cup {m} |->
                     IF p = m THEN {Cardinality(DOMAIN mintermIDs)} ELSE mintermIDs[p]]

\* A minterm that is in the bracket keeps its number; a new one gets the next.
Number(m) == [p \in DOMAIN mintermIDs \cup {m} |->
                IF p \in DOMAIN mintermIDs THEN mintermIDs[p]
                                           ELSE {Cardinality(DOMAIN mintermIDs)}]

AddMinterm ==
  /\ pc = "read"
  /\ expansion # {}
  /\ LET m == CHOOSE m \in expansion : TRUE
     IN  /\ expansion' = expansion \ {m}
         /\ mintermIDs' = Number(m)
         /\ sizeBrackets' = [sizeBrackets EXCEPT ![1] = @ \cup {m}]
  /\ UNCHANGED <<searchVars, coveringImplicants, clauses, marked, goal>>

AllRead ==
  /\ pc = "read"
  /\ expansion = {}
  /\ clauses = << >>
  /\ pc' = "merge"
  /\ UNCHANGED <<chartVars, covered, currentDNF, frames, position, bestDNF,
                 bestNumOfTerms, mergeVars>>

\* Mutant: a DONT_CARE equals every value.
DifferAtLoosely(x, y, v) ==
  /\ x[v] = "FALSE" /\ y[v] = "TRUE"
  /\ \A w \in Variable \ {v} : x[w] = y[w] \/ "DONT_CARE" \in {x[w], y[w]}

\* Implicant::merge: the implicants are equal but for one variable, FALSE in
\* the first and TRUE in the second.
DifferAt(x, y, v) ==
  /\ x[v] = "FALSE" /\ y[v] = "TRUE"
  /\ \A w \in Variable \ {v} : x[w] = y[w]

\* The merges of a bracket: the two implicants and the variable.
Merges(bracket) ==
  {e \in bracket \X bracket \X Variable : DifferAt(e[1], e[2], e[3])}
Merged(e) == [e[1] EXCEPT ![e[3]] = "DONT_CARE"]

\* Mutant: only the implicant that the outer loop is at is marked.
MarkedByFirst(merges) == {e[1] : e \in merges}

\* Both implicants of a merge are marked.
MarkedBy(merges) == {e[1] : e \in merges} \cup {e[2] : e \in merges}

\* One turn of mergeAllImplicants.  A merged implicant keeps the numbers it
\* got when it was first inserted.
MergeBracket ==
  /\ pc = "merge"
  /\ Cardinality(Last(sizeBrackets)) > 1
  /\ LET merges == Merges(Last(sizeBrackets))
         next == {Merged(e) : e \in merges}
     IN  /\ marked' = marked \cup MarkedBy(merges)
         /\ sizeBrackets' = Append(sizeBrackets, next)
         /\ mintermIDs' = [p \in DOMAIN mintermIDs \cup next |->
              IF p \in next
                THEN LET e == CHOOSE e \in merges : Merged(e) = p
                     IN  mintermIDs[e[1]] \cup mintermIDs[e[2]]
                ELSE mintermIDs[p]]
  /\ UNCHANGED <<searchVars, coveringImplicants, clauses, expansion, goal>>

ListedImplicants(brackets) ==
  (UNION {brackets[n] : n \in DOMAIN brackets}) \ marked

\* The loop ends at a bracket with no pair; getMinimizedDNF fills the chart
\* with the implicants that are not marked.
FillChart ==
  /\ pc = "merge"
  /\ Cardinality(Last(sizeBrackets)) <= 1
  /\ sizeBrackets' = IF Last(sizeBrackets) = {} THEN Front(sizeBrackets)
                                                ELSE sizeBrackets
  /\ coveringImplicants' = Listed(ListedImplicants(sizeBrackets), mintermIDs,
                                  Cardinality(sizeBrackets[1]))
  /\ pc' = "essential"
  /\ UNCHANGED <<mintermIDs, covered, currentDNF, frames, position, bestDNF,
                 bestNumOfTerms, clauses, expansion, marked, goal>>

MinimizeStep ==
  \/ ReadClause
  \/ AddMinterm
  \/ AllRead
  \/ MergeBracket
  \/ FillChart
  \/ SearchStep /\ UNCHANGED mergeVars

Minimized == pc = "found" /\ UNCHANGED minimizeVars

MinimizeNext == MinimizeStep \/ Minimized

MinimizeSpec ==
  MinimizeInit /\ [][MinimizeNext]_minimizeVars /\ WF_minimizeVars(MinimizeStep)
-----------------------------------------------------------------------------
\* The implicants of a function.
ImplicantsOf(minterms) == {p \in Implicant : Cube(p) \subseteq minterms}

\* Whatever merge inserted an implicant first, the numbers it carries are
\* those of its own minterms, and different minterms have different numbers:
\* they index the covering lists of the PrimeChart.
NumbersExact ==
  /\ \A p \in DOMAIN mintermIDs :
       mintermIDs[p] = UNION {mintermIDs[m] : m \in Cube(p)}
  /\ \A m, n \in DOMAIN mintermIDs \cap Minterm :
       mintermIDs[m] = mintermIDs[n] => m = n

\* The prime implicants: no other implicant of the function has their minterms.
PrimesOf(minterms) ==
  {p \in ImplicantsOf(minterms) :
     \A q \in ImplicantsOf(minterms) : Cube(p) \subseteq Cube(q) => q = p}

\* The chart that reading, numbering and merging leave to the search has a list
\* for each minterm of the circuit and no other.  A list holds all the prime
\* implicants of its minterm and nothing else, and is not empty, as the search
\* asserts (PrimeChart.cpp:66).
ChartOfPrimes ==
  pc \notin {"read", "merge"} =>
    LET primes == PrimesOf(goal)
    IN  /\ \A m \in goal : \E i \in Minterms : mintermIDs[m] = {i}
        /\ \A i \in Minterms : \E m \in goal :
             /\ mintermIDs[m] = {i}
             /\ coveringImplicants[i] = {p \in primes : m \in Cube(p)}
             /\ coveringImplicants[i] # {}

\* The clauses that minimisation yields compute the function of the circuit
\* (the driver's check, main.cpp:81) ...
ResultEquivalent ==
  pc = "found" => UNION {Cube(p) : p \in ToSet(bestDNF)} = goal

\* ... and no disjunctive normal form of it has fewer clauses.
ResultMinimum ==
  pc = "found" /\ bestDNF # << >> =>
    \A terms \in [1 .. Len(bestDNF) - 1 -> ImplicantsOf(goal)] :
      UNION {Cube(p) : p \in ToSet(terms)} # goal

-----------------------------------------------------------------------------
\* The parts of the inductive invariant that are not properties themselves.

DontCares(p) == {v \in Variable : p[v] = "DONT_CARE"}
Widened(p, v) == [p EXCEPT ![v] = "DONT_CARE"]

\* An implicant of the function can be widened in a variable it fixes.
Widenable(p) ==
  \E v \in Variable \ DontCares(p) : Widened(p, v) \in ImplicantsOf(goal)

\* The minterms numbered so far have the numbers from 0 on, one each.
NumbersDense ==
  LET numbers == 0 .. Cardinality(sizeBrackets[1]) - 1
  IN  /\ \A m \in DOMAIN mintermIDs \cap Minterm : \E i \in numbers : mintermIDs[m] = {i}
      /\ \A i \in numbers : \E m \in DOMAIN mintermIDs \cap Minterm : mintermIDs[m] = {i}

\* While clauses are read, the circuit's minterms are those in the bracket and
\* those still to come.
Reading ==
  /\ clauses \in Seq(SUBSET Literal)
  /\ expansion \subseteq Minterm
  /\ sizeBrackets = <<DOMAIN mintermIDs>>
  /\ DOMAIN mintermIDs \subseteq Minterm
  /\ goal = DOMAIN mintermIDs \cup expansion \cup
             {m \in Minterm : \E n \in DOMAIN clauses : Satisfies(m, clauses[n])}
  /\ marked = {}

\* Each bracket is complete: it holds every implicant of the function with its
\* number of DONT_CAREs.  Of the brackets before the last, the marked ones are
\* those that are not prime.
Bracket(n) == {p \in ImplicantsOf(goal) : Cardinality(DontCares(p)) = n - 1}
Merging ==
  /\ sizeBrackets \in Seq(SUBSET Implicant) /\ sizeBrackets # << >>
  /\ \A n \in DOMAIN sizeBrackets : sizeBrackets[n] = Bracket(n)
  /\ DOMAIN mintermIDs = UNION {sizeBrackets[n] : n \in DOMAIN sizeBrackets}
  /\ marked = UNION {{p \in Bracket(n) : Widenable(p)} : n \in 1 .. Len(sizeBrackets) - 1}

\* The chart numbers the minterms of the function, above every implicant there
\* is one on the chart, and what is on the chart cannot be widened.
Charted ==
  /\ DOMAIN mintermIDs = ImplicantsOf(goal)
  /\ \A m \in goal : \E i \in Minterms : mintermIDs[m] = {i}
  /\ \A i \in Minterms : \E m \in goal : mintermIDs[m] = {i}
  /\ \A q \in ImplicantsOf(goal) : \E p \in Primes : Cube(q) \subseteq Cube(p)
  /\ Primes = {p \in ImplicantsOf(goal) : ~Widenable(p)}

\* The inductive invariant.
MinimizeInv ==
  /\ goal \subseteq Minterm
  /\ mintermIDs \in [DOMAIN mintermIDs -> SUBSET Nat]
  /\ NumbersExact
  /\ pc \in {"read", "merge"} => /\ DOMAIN coveringImplicants = {}
                                 /\ StartSearch
                                 /\ NumbersDense
  /\ pc = "read" => Reading
  /\ pc = "merge" => Merging
  /\ pc \notin {"read", "merge"} => Charted /\ SearchInv
=============================================================================
