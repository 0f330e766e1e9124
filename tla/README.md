# CircuitMinimization: models, checks and proofs

The program builds random Boolean circuits and minimises them in several ways:
its own multi-level optimiser (`CircuitWithoutNotGate`), its own two-level
minimiser (Quine-McCluskey), and the external tools Espresso and ABC. It runs in
one thread, keeps nothing on disk and talks to nobody, so the difficulties are
those of pointer-rich sequential algorithms: lists that are stale when they are
used, caches and flags that outlive their purpose, gates destroyed in the middle
of a walk, containers ordered by values that change, backtracking, and long
sequences of legal rewrites that must keep one global fact true: **the circuit
computes the same function** (the checks `original==circN`, commented out in
`main.cpp:78-81`, say so for every optimiser).

## 1. Inventory

| Component | State | Operations | What makes it correct |
|---|---|---|---|
| Gate graph (`Gate`, `Link`, `BivariateGate`, `Input`, `NotGate`, constants) | `inputs`/`outputs` lists of `Link`s; a link owns its input gate (shared_ptr) and points raw to its output gate; `flags`, `twinStrong`/`twinWeak` | make/delete a link, `setInput`, twins, `resetFlagRecursive` | the two lists of every link agree; no raw pointer dangles; nothing leaks; a traversal's flag is clear everywhere when it ends |
| Circuit | `output`, `inputs` | random construction, copy, `==`, removal of NOT gates | copies share nothing; the function is kept; the comparison is exact |
| Reordering (`getMultiTwin`, `convertToSingleOptimized`, `MultiGate`) | multi-gates with an input list and `inputIndex`; `occurrences` (pair -> multi-gates), the set ordered by list length | collect trees, record pairs, take the most frequent pair, make a gate, rewrite multi-gates, repair lists, copy without one-input gates | no unchecked lookup fails; nothing is left behind; same function; the sharing is as greedy as intended |
| Simplification (`simplifyIterative3`) | `level`, `markedParents`, twins, `multiInputsWithLink`, `separatedGates` | replace an input by a constant below the gate it decides, separate shared gates, pull constants up | same function; the marks of one replacement do not spoil the next; the iteration ends |
| Factorisation (`factorizeIteratively`) | cached factor sets of raw pointers, `FACTORIZED` | find common factors, wrap, move parents, remove and extract factors | same function; the pointers stay valid; the iteration ends |
| DNF circuits, Espresso | `normalForm` (set of implicants) | `getDnf`, conversion to a circuit, to clauses and from PLA | same function; no clause lost or misread |
| Quine-McCluskey (`Implicant`, `ImplicantChart`, `PrimeChart`) | brackets of implicants, `mintermIDs`, marks; chart, `covered`, the branch, the best cover | expand, number, merge, list primes, branch and bound | same function; a minimum number of clauses |
| ABC interface | `pAbcNode` per gate | build an ABC network, optimise it, log its size | - |
| Logger, `main.cpp` | counters, statistics | - | - |

Components meet through the gate graph. `Circuit` constructors copy or translate
one; `CircuitWithoutNotGate::optimizeIteratively` runs simplification,
factorisation and reordering on it in turn; `DnfCircuit` reads a list of clauses
off it and builds a new one from the result. `convertToSingleOptimized` is a
pipeline over one network: AND phase, copy, OR phase, copy.
`minimizeQuineMcClusky` is a pipeline too: clauses, minterms, brackets, chart,
search. The hazards of each part, with the lines where they bite, are listed in
`PROJECT.json`.

## 2. Modules

| Module | Models |
|---|---|
| `GateGraph` | links, owners, the lists of both ends and every destructor as a step |
| `GateHeap` | the same heap as a value: making a gate, `setInput`, destruction of what nothing owns, what a gate computes. Used by the modules below |
| `RandomCircuit` | the constructor of random circuits |
| `CircuitComparison` | `operator==`, `getValue`, `getOutputValue` |
| `CheckedCircuit` | extends the two: a random circuit is made and compared |
| `CircuitCopy` | `Circuit(Circuit&)` and `CircuitWithoutNotGate(Circuit&)` with `removeNotGates`, one after the other |
| `Simplification` | `simplifyIterative3` |
| `Factorization` | `factorizeIteratively` |
| `SimplifyAndFactorize` | composes the two as `optimizeIteratively` does: what simplification leaves is factorised |
| `PairExtraction` | one phase of `convertToSingleOptimized`, with `addOccurrencesRecursive`, `updateOccurrences`, `hasInput`, `replaceInputs` |
| `ConvertToSingle` | extends it to the whole of `convertToSingleOptimized`: both phases and the copies `getSingleTwin` makes |
| `ReorderGates` | extends that to `reorderGates`: starts from a two-input circuit and `getMultiTwin` |
| `PairSharing`, `PairExtractionRefinement` | abstract specification of a phase (atomic greedy sharing of pairs), and the mapping to it |
| `DnfConversion` | `toDnf`, reading clauses back, the PLA exchange with a minimiser, rebuilding, converting again |
| `PrimeChart` | the chart and its branch-and-bound search |
| `QuineMcCluskey` | extends it to the whole of `minimizeQuineMcClusky` |
| `GateGraphProofs`, `CheckedCircuitProofs`, `CircuitCopyProofs`, `DnfConversionProofs`, `ConvertToSingleProofs` (of `PairExtraction` and its refinement too), `ReorderGatesProofs`, `QuineMcCluskeyProofs` (of `PrimeChart` too) | theorems and proofs |
| `GateHeapProofs` | lemmas about gates as a value, for the proofs about `CheckedCircuit`, `CircuitCopy`, `DnfConversion` and `ReorderGates` |
| `MC*` | instances for TLC |

### Gates

`GateGraph` is the ownership protocol alone. `src[l]` is `Link::inputGate`, an
owner; `dst[l]` the raw pointer to the gate that has the link as an input; `ins`
and `outs` are the lists of a gate; `held` are the gates that a circuit or a
caller owns. `dying` is the stack of destructors that are running: `Release` and
`BeginSetInput` drop an owner, `DeleteLink` is one `delete` of a gate's
destructor with the link's own destructor, and drops an owner in turn,
`FreeGate` is the end of a destructor. `setInput` is cut in two
(`BeginSetInput`, `EndSetInput`), because its assignment may destroy any number of
gates between the erasure from one list and the entry in the other; `moving` is
the link in question. `GateHeap` does the same in one step (`SetInput` and
`Sweep`), and keeps the order of `outputs`, which factorisation depends on. It
is what `GateGraph` allows: that destruction takes exactly what nothing owns, leaves
the lists right and ends is what the properties of `GateGraph` say.

### Circuits

`RandomCircuit` has the two parts of the constructor's loop: free choice
(`Choose`), then the joining of dead ends in the order of random numbers (`Order`,
`Join`). The random numbers come from a small set, so that equal ones occur.
`CircuitComparison` has the counter of `operator==` as steps of a carry, and an
evaluation with its short cuts and cached values (`Evaluate`) and the reset that
follows it. `cache` holds, for each circuit, which gates are MARKED and which of the
values kept are true; a value stays when its mark goes, as in the code. What
`getValue` of a gate does is a recursive function of the gate and of the marks it
meets; what a gate computes (`Table` of `GateHeap`) is one of the gate alone.
`CheckedCircuit` extends both modules: it calls `operator==` on the circuit that
`RandomCircuit` ends with, against that circuit with every gate's inputs exchanged
and against the one whose first AND or OR is turned into the other.

`CircuitCopy` makes copies of any of its circuits, and strips the last one of NOT gates.
A gate's twin is strong or weak; strong twins can close a circle of owners, so
what is destroyed is what loses its last owner (`Release`), not what nothing reaches. The
recursive `getCopyTwin` and `getNegatedTwin` are closures: the gates that are asked and have no twin yet
(`ToCopy`, `ToNegate`), and what is made of each (`WithCopy`, `WithNegation`). The walk of
`removeNotGatesRecursively` is a stack of gates and slots: `PushNotDown` is one
turn of the loop that rewires a link, `Descend` a recursive call, `Return` its
end. `StripNots` also covers `oldOutput`, the pointer that keeps the copied gates
alive for the walk.

### Optimisation

`Simplification` keeps flags as functions on the flagged gates (`level`,
`parents`, `twin`, `cached`, `marked`). A frame of the stack is one call of
`simplifyRecursively3`; a step is one key of `multiInputsWithLink`
(`ReplaceKey`: the replacement everywhere below and the constants pulled up;
`ReplaceNegated`: the same for the input of a NOT). The replacement is the
recursive `ReplaceInput`/`ReplaceBelow`, with the counting of parents
(`AllBelow`), the erasure of keys from the map that the caller is looping over
(`Forget`), the protected links and the separation of gates that are used elsewhere
(`Separate`). `EndRound` is `getConstantFreeTwin`, the reset of flags and the
comparison of sizes.

`Factorization` has a frame for each call of `factorizeRecursively`, with the two
passes of the code. `Examine` fills the caches and intersects them,
`WrapFactor` takes the next factor and makes the wrapper, `MoveParent` moves one
parent and removes and extracts the factor (`RemoveFactor`, `ExtractFactor`, with
the caches they read and reset), until the wrapper is the first of the gate's
outputs (`AllMoved`). Factors are names that may outlive their gate; that they do
not is `FactorsAlive`.

`SimplifyAndFactorize` hands the circuit from the one to the other (`Simplified`),
with what the gates still carry: the maps `multiInputsWithLink`. Nothing reads them
any more, but they own their keys (`links`). A gate that factorisation takes out of
the circuit may live on as a key of another gate's map; it is then still counted
among the outputs of its inputs, so that these are taken for shared
(`Shared`), and keeps its flags.

### Reordering

`PairExtraction` keeps the loop's own state. `inputIndex[g]` is both the input
list of multi-gate `g` and its `inputIndex` map: the inputs with their places.
`occurrences` is the map of lists, `ordered` the `std::set` of pairs. Its actions are
the turns of the loop: `Collect` (the recursive collection and the filling of the
set), `Reinsert` (the repaired list of the front pair is no longer the longest),
`Exhausted` (it is empty: the set is cleared), `CreateGate` (a gate is made, the pair
is chosen), `ReplaceInputs` (one per multi-gate of the list, in any order),
`InsertNewElements`, `Drained`. `made` and `table` record what the new gates are and
what every gate computes; a Boolean function is the set of assignments that make it
true. `ConvertToSingle` adds `TakeSingleTwin`, the copy at the end of a phase:
multi-gates with one input disappear, twins that coincide are taken once, the
order of the list is kept; this is what makes the OR phase start from lists that
are not in address order. Which gate a multi-gate is copied to (`singleTwin`)
and what a gate computes (`computes`) are recursive functions on the gates. `ReorderGates` puts `getMultiTwin` before it, as
the set of networks the conversion starts from (`MultiTwins`): a multi-gate is named by its type and the gate it is the twin of, and its inputs are
listed in the order of addresses. What a tree combines (`MultiInputs`) is a recursive function of the
gate, and the gates `getMultiTwin` is called on (`Visited`) are a closure.

What is left open: ties between lists of equal length (the code compares
addresses), the address order of the networks' gates, the order of the multi-gates
within a list.

### Two-level minimisation

`DnfConversion` represents an implicant by the values each input may have, so that
an INVALID value is the empty set, and keeps apart the one fact that
`Implicant::operator&` does not recompute, `numOfDontCares` (`full`).
Of equal products in a `std::set` the one inserted first keeps its count (`Product`,
`Union`). `getDnf` and the reading of clauses are recursions over the gates below the
output: the forms are a recursive function of the gate (`Forms`), and the gates that
are met are a closure (`Within`). Circuits are built as the code builds them: a queue of
gates, two taken from the front and one put at the back, in `Circuit::buildFromDnf`
(`Balanced`), a chain in `DnfCircuit` (`Linear`). Clauses are read back by the shape of
the gates. Espresso, a library vendored under `src/src/Espresso`, is here external,
and stands for either minimiser: any irredundant cover by primes is a possible answer. `PrimeChart` and `QuineMcCluskey` are the minimiser itself.

`PrimeChart` turns the recursion of `buildSubtreeFromPosition` into a stack of
`frames`, one per call that found an uncovered minterm: the minterm, the
implicants of its list still to be tried and the minterms the current choice
marked (`setToCovered`). `position` is the argument of the next call. The actions
are a turn of `getEssentialPrimes` (`ListEssential`), the start of the search
(`EndEssential`), a call that enters its loop (`Branch`) or finds everything covered
(`Leaf`), one choice (`Try`: push, mark, compare with the best), its undoing
(`Undo`) and the end of the loop (`EndLoop`). The order of a covering list is left
open. `QuineMcCluskey` puts before it the reading of the clauses (`ReadClause`: an
invalid clause is skipped), their minterms (`AddMinterm`: one in the bracket
already keeps its number), the merging of brackets (`MergeBracket`: a merged
implicant already there keeps its first numbers) and the listing of the
implicants never merged (`FillChart`).

## 3. What the runs check

Deadlock is checked in every run. A state where the algorithm has returned
stutters explicitly.

| Run | Instance and bounds | Shows |
|---|---|---|
| `gate_graph` | four gates, five links, four levels, in any order of calls | `NoDangling`, `OutputsAgree`, `DestroyedOnce`, `NoLeak` |
| `checked_circuit` | three inputs, three gates asked for, with and without constants, two random numbers; both variants above, the inputs all set before | `OutputReachesAll`: the output reaches every gate and input, which the copy constructor's reset relies on. `GateBound`: one gate more than asked for at most. `ResultExact`: `operator==` answers exactly |
| `circuit_copy` | all circuits of three gates over two inputs in which everything is used, and of four with a NOT above an operator; two copies, stripped or not | `FunctionKept`, `NoExpiredTwin`, `NotsAtInputs`, `CopiesDisjoint`, `NothingLeft` |
| `simplification` | chains of three gates over three inputs and a NOT; networks of five gates with shared ones | `FunctionKept` after every key, `NoMarkLeft`, `KeyKept`: the map that is looped over never loses the current key. `SimplifyEnds` |
| `simplify_and_factorize` | an AND of two ORs over shared operands, alone, below an OR, with two parents, or with an operand used elsewhere, and duals; simplified and then factorised | `FunctionKept` between all rounds, `FactorsAlive`, `FlagsClean`, `OptimizeEnds` |
| `nested_factors` | one circuit with nested factors | a **violation** (below) |
| `pair_extraction` | three multi-gates over four leaves: one a pair of neighbours, one the list a, b, c, one any three in either order, or all four; as many new gates as a phase can need | `ReplaceSafe`: no unchecked `find` in `replaceInputs` fails. `OneInputLeft`: clearing the set loses nothing. `SameFunction`. `SortKeysStable`: lists do not change under the ordered set. `MostFrequentFirst`: the choice is greedy in spite of stale lists. `ImplementsSharing`: the refinement, with its liveness. `Inv` is the inductive invariant of the proofs |
| `reorder_gates` | chains of four gates, and two layers below an AND, over three inputs; two orders of addresses | `OutputPreserved`, `SizeNeverGrows` (`Circuit::getSize`), `ReturnsTwoInputCircuit` |
| `reversed_key` | two MultiAnds below two MultiOrs | a **disagreement** (below) |
| `dnf_conversion` | NOT gates at two of three inputs and three ANDs and ORs above; converted twice | `FunctionKept` also while the answer is read line by line, `ReadBack`, `NoDnfError` |
| `prime_chart` | every chart of four minterms and four primes of one to three minterms | `SearchInv`: the inductive invariant of the proofs. `Minimum`, `SearchEnds` |
| `quine_mccluskey` | 577 forms of up to three clauses over three variables, with overlaps, repetitions, contradictions, tautologies and the cyclic chart without an essential prime | `NumbersExact`. `ChartOfPrimes`: the chart lists the prime implicants of each minterm, at least one (the `assert` of `PrimeChart.cpp:66`), and nothing else; a result that is equivalent and minimal does not show a mark that was missed. `ResultEquivalent`, `ResultMinimum` |

Why the bounds are enough. A chain of destructors needs a gate below a gate below the
link that moves: three gates, and a fourth to move it to. Staleness of an occurrence
list needs a multi-gate that loses an input of a pair that waits (two multi-gates,
three inputs); a repaired list that is overtaken needs a third multi-gate; pairs of
new gates with new gates need four inputs. In the chart, four minterms and four primes
give nested calls two deep with overlapping primes, and charts where the first
cover found is not the smallest. Three variables are the least with a cyclic core.
A separation in simplification needs a key, a gate that is used inside and
outside the key's tree and a decided input in it: five gates. A factor that is itself an operator, shared
operands, and two parents of a factorised gate need the five gates and the
tops of `simplify_and_factorize`; in it factors are also taken by the second pass, and gates live on as keys only. Two copies are the least where a twin left from
one would be met by the next. `NewGate` bounds the gates one conversion makes: an instance has at least as
many as a conversion can use, so the bound never stops it. `MaxCircuits` ends the
making of copies. `UintMax` is `UINT_MAX`, any number greater than the number of implicants.
Names of destroyed gates are renewed between rounds, so that the number of rounds is
not bounded.

**Fairness.** There is one thread; it takes a step whenever it has one. So weak
fairness of the whole step relation is assumed and nothing more; in particular
nothing is assumed about which of several possible steps is taken. In
`Simplification` and `SimplifyAndFactorize` that condition is written out as
`Runs == []<>(phase = "done") \/ []<><<Next>>_vars`: some step is possible until
the call has returned (deadlock is checked), and TLC cannot afford `ENABLED` of
their recursive operators.

**Findings.**

*Reversed keys.* `MultiGate.cpp:62` states that pairs are only ever recorded in ascending
order, so no pair is recorded in both directions; the same line doubts it. The
run `reversed_key` has the sequence: two MultiAnds with equal inputs get one twin, so
after the AND phase one MultiOr lists the twin before, another after, a common
input. The consequence is bounded by `MostFrequentFirst` and `ImplementsSharing`: the
conversion stays correct, but a pair's multi-gates may be divided between two lists, and a
pair that is up to half as frequent may be shared first.

*Nested factors.* `AndGate.cpp:404` and three more places ask whether a gate that a collected
factor points to can cease to exist before its turn. The run `nested_factors`
answers: when one factor is built from another, taking out the one may destroy the
other, and the loop goes on with the address of a destroyed gate. The run goes the way of
`optimizeIteratively`: simplification comes first, leaves the circuit as it is, and its maps do
not keep the factor alive. `simplify_and_factorize` has the circuits without nested factors.
There simplification matters for `FunctionKept` too: `factorizeIteratively` alone changes the
function of some circuits that simplification would have reduced, those where the same operand occurs
more than once below a factorised gate with several parents (`MoveParent` removes the factor
again for each parent).

## 4. What is proved

TLAPS proves the following for every value of the constants; the only
assumptions are those the modules name.

`GateGraphProofs` (`RankAssumption`, `DepthAssumption`: gates have finitely many
levels, the circuits are acyclic): `PointersValid` (`NoDangling`), `ListsValid`
(`OutputsAgree`, `InputsAgree`), `NoDoubleDestruction` (`DestroyedOnce`), `NothingForgotten`,
`NoLeaks` (`NoLeak`), `TypeCorrectness`. The invariant joins them, since none is inductive
alone: a raw pointer is good because the gate it leads to lists the link, and only a
gate on the stack `dying` without owner is freed, when its list is empty; the link whose
`setInput` runs is in no list, so the destructors that run meanwhile do not meet it. That
links can be levelled (`Levels`) is the part that excludes leaks: a set of gates that only
own each other would have a highest one, whose owner is higher.

`CheckedCircuitProofs` (`SizeAssumption`, `NumberAssumption`), first of `RandomCircuit`: `NoLoss`, `Reaching`
(`OutputReachesAll`) and `Bounded` (`GateBound`), for every number of inputs and gates and all random
numbers. A gate is open (a dead end, or in the ordered set) exactly when no gate takes it;
at the end one is open, and since inputs are older than the gate that takes them, the newest gate
missing from a set closed under inputs would have a newer one above it. The bound counts gates
made and dead ends together: it grows by at most one in a step of free choice, and joining trades one
dead end for one gate.

`ConvertToSingleProofs`, first of a phase (`NetworkAssumption`): `Invariance` (`Spec => []Inv`) and from it `ReplaceSafety`, `OneInput`,
`FunctionPreserved`, `NoDoubleEntry`, `KeysStable`, `GreedyChoice`. None of the properties is
inductive. `Inv` strengthens them with what the lazy repair maintains:
`PairsProper` (a recorded pair has two different ends), `ListsInjective` (an input has one
place in a list), `PairsRecorded` (every pair that occurs in a multi-gate is
recorded in one direction, with that multi-gate in its list, and waits in the set unless
it is being replaced), `ExtractedGone` (a pair no longer in the set occurs in no
multi-gate that is not about to be rewritten), `Replacing` (what is pending has both
inputs and not yet the new gate). So a stale entry only ever names a multi-gate that *lost* an
input: lists err on the side of too long, which is why the comparison with
unrepaired lists is safe, and why an empty longest list means that all are.

The same module proves the refinement: `SafeRefinement` (`Spec => Sharing!SafeSpec`), a step of the
loop is a sharing step or a stutter. The factor of two is where the two directions of a pair are
counted (`AtMostTwice`).

Then of the whole conversion (`CircuitAssumption` too: the networks given are acyclic,
with gates that compute what their tables say and an output among them): `ConvertInvariance`, and from it `FunctionOfOutput`
(`OutputPreserved`), `OnlyTwoInputGates` and `SafeInBothPhases` (`ReplaceSafe`), for both phases and
both copies. The phase invariant `Inv` carries over because nothing in it depends on address order,
which the copy between the phases destroys; it has to be established a second time, on the lists
`TakeSingleTwin` leaves. To it come: the network is acyclic (`Grounded`: a non-empty set of
gates has one with no operand in the set), a new gate computes its pair
(`MadeCompute`), the output computes the circuit (`OutputKept`), and after a phase no
multi-gate of its type is left (`PhasesOver`). What the network computes and which gate a
multi-gate is copied to are recursive functions there. That such a function has a solution is
shown by giving one: the recorded `table`, and the gate at the end of the chain of one-input
multi-gates that the copy skips. That it has no other follows from `Grounded`.

`NeverLarger` is `SizeNeverGrows` for every circuit. `getSize` adds up the gates below the output,
so the proof first makes sums over finite sets available: one exists (`SumsExist`), the order in which the gates are
met does not matter (`AnyOrder`), and it grows with the gates and their sizes (`TotalGrows`). A gate just made is not below the
output yet (`CreateIsNoLarger`). Where it replaces a pair it may come to count one, and the multi-gate
counts for one less (`ReplaceIsNoLarger`): equality is possible, growth is not. The copy only leaves gates out and merges inputs
(`CopyIsNoLarger`). It needs that only finitely many gates have been made (`FiniteMade`).

`ReorderGatesProofs` (`CircuitsAssumption`: finite netlists whose gates are built from older ones; `NamesAssumption`,
`AddressesAssumption`: the gates are named as `MultiTwin` names them, and no two have one address): `TwinsAreNetworks`, what `getMultiTwin` builds from any
two-input circuit meets `NetworkAssumption` and `CircuitAssumption`, so that the theorems above hold of every conversion that `reorderGates`
starts. And `ReorderedComputes`, the function of the circuit is at the output after every step of it. `getMultiInputs` is a recursion over a layered
heap and has one solution (`MultiInputsEquation`); by the associativity of AND and OR a multi-gate combines what it collects to the table of
the tree (`MultiInputsFacts`). Its inputs are older than it, so a set of gates has one that takes none of the set.

`QuineMcCluskeyProofs`, first of the search (`ChartAssumption`): `SearchInvariance` (`Spec => []SearchInv`) and from it `Backtracking`
(`CoveredExact`), `CoverFound` (`BestIsCover`), `TermsDistinct`
(`NoTermTwice`) and `Optimality` (`Minimum`), for every finite chart. The strengthening has two
parts. `FramesExact` says what each frame of the stack stands for: its minterm is the first that
the terms before it leave uncovered, and the marks to be undone are what its choice covers
beyond those terms; backtracking and distinct terms follow. `NoneLost` says that every cover is
either no shorter than the best one or still ahead: it includes the whole branch, or the branch
up to some frame and one of that frame's untried implicants. Pruning keeps it because a branch of
distinct terms is no longer than any cover that includes it. At the end no frame is left, so no
cover is ahead, and with `ChartAssumption` (the implicants together cover everything, and are
fewer than `UINT_MAX`) a cover has been found.

Then of the whole minimisation (`DnfAssumption` too: the forms given are finite lists of clauses):
`MinimizeInvariance`, and from it `ExactNumbers` (`NumbersExact`), `PrimesListed` (`ChartOfPrimes`), `Equivalence`
(`ResultEquivalent`) and `Minimality` (`ResultMinimum`), for every number of variables and every form.
The invariant says that a bracket holds every implicant of its size and no other, each with
exactly the numbers of its minterms, and that an implicant is marked exactly when a greater one
was merged from it. Merging ends at a bracket of at most one implicant, from which
nothing can be merged. So what is listed are the primes (an implicant that cannot be widened in one variable is below
no other, `PrimesCannotBeWidened`), each minterm lies in one (an
implicant above it that fixes a minimal set of variables is prime), and the
chart satisfies what `PrimeChart` assumes of it; from then on `SearchInv`
is carried along. A cover of the chart is a form of the same function, and any other form of the
function gives a cover of no more primes, one above each of its clauses, so the minimum over covers is
the minimum over forms.

The rest of `CheckedCircuitProofs`: `CheckedInvariance`, and from it `Exactness`
(`ResultExact`), for every number of inputs and every random circuit. A circuit is layered: a
gate's inputs have smaller names. So the recursions of `Table` and `Evaluate` are solved
layer by layer, which proves that both have the value their equation gives. An evaluation that
meets only right marks returns the value of the table and leaves right marks; all
the marks it makes are reached from the output through marked gates, so that the reset, which
descends through marked gates only, takes every one of them away and the next evaluation
starts without. That is the argument for `getValue` with its short cuts, where a
mark below an unmarked gate would survive. The counter tests the assignments in the order of the
numbers they stand for: `CompareInv` says that the circuits agree on every assignment up to the one
last tested (`NotAfter`, `LastTested`), of which a carry has cleared the low inputs. At the
end that one has every input set. That the circuits compared are layered comes from the
invariant of `RandomCircuit`, together with the kinds of its elements (`Shape`).

`DnfConversionProofs` (`CircuitsAssumption`: finite netlists without constants and with NOT gates above
inputs only, as `removeNotGates` leaves them): `DnfInvariance` (`Spec => []DnfInv`), and from it
`FunctionPreserved` (`FunctionKept`), `ReadsBack` (`ReadBack`) and `NoError` (`NoDnfError`), for every number
of inputs and every circuit, whatever irredundant cover the minimiser answers. None of the three is
inductive; `DnfInv`, which the run `dnf_conversion` was also checked with, ties three things together:

- *Gates and implicants.* Below the output are the gates of the implicants in `cubes` (`BuiltFrom`): every clause
  that is found there is free of ORs, and reading the clauses gives the valid implicants of `cubes`. For that, a tree
  over a list of gates is shown to have the gates of the list as its leaves and only gates of one kind above
  them, whether it was built as a queue or as a chain (`BalancedIsTree`, `LinearIsTree`). In the queue
  the k-th gate takes the entries 2k - 1 and 2k, which are there before it is made. A tree computes the meet or
  the join of its leaves (`TreeMeans`); the literals of an implicant are read back as its values (`ClauseMade`).
- *Forms.* `forms` is what `getDnf` gives for the heap, and it covers the table of each gate (`FormsRight`). A
  product takes its count of don't-cares from its first operand, so a form is right only if no gate below an AND has
  the form {DONT_CARE, ...}, that is, if no TRUE gate is below an AND. That, with NOT gates above inputs only and
  layered gates, is `Suitable`, which each rebuilding establishes again.
- *The function.* What `cubes` covers, with the lines of the answer still to be read, is what the circuit
  computed at first; while lines are read the circuit itself computes a part only.

There is one lemma for every action (`DnfInvGetDnf`, `DnfInvBuild`, ...), joined in `DnfInvariance`. They rest on
`GateHeapProofs`: gates added on a layered heap compute what their netlist says and change nothing below
(`AddGatesFacts`, `SameTables`), destruction takes only what is not reached from the inputs and the new output
(`SweepAgrees`), and the closures by which `getSize`, the clause walk and destruction are modelled are the least sets
closed under their step (`ClosureIsLeast`). Sorting by `operator<` is shown to be a sequence of all
members, each once (`SortedFacts`), which needs that the order is a strict total one (`SmallerOrders`).

`CircuitCopyProofs` (`CircuitsAssumption`: finite netlists whose gates are built from older ones and whose output
reaches every input, as `Reaching` proves of random circuits): `CopyInvariance` (`Spec => []CopyInv`), and from it
`CopiesCompute` (`FunctionKept`), `TwinsStayAlive` (`NoExpiredTwin`), `NotsPushedDown` (`NotsAtInputs`), `CopiesApart`
(`CopiesDisjoint`) and `NothingRemains` (`NothingLeft`), for every number of inputs, every such circuit and any number of copies. `CopyInv` was
checked on all states of `circuit_copy` before it was proved. It says that for every gate there is
something known (`Fitting`): a rank above those of its inputs, the circuit it is part of, the inputs below it and the function
it computes. The steps only have to say what is known of the gates they make.

- *Copies.* `getCopyTwin` gives every gate below the output a strong twin with what is known of the gate itself, in a part
  of its own. So circuits are closed parts of the heap, with all their inputs below their output (`CircuitsOK`), and a reset from
  the output takes every twin away. This is where the output has to reach all inputs.
- *Twins.* While a circuit is stripped, the circuit it was copied from is part 0: it keeps its strong twins, whose gates are
  `Copies`. Every gate of the part being stripped is a copy or the negation of one (`StrongOK`, `WeakOK`): an AND and an OR of
  equal rank, an input and its NOT gate. So a negation asked for twice leads back to the gate itself, or, for a NOT gate, to the gate
  below its input (`DoubleNegation`), and the function is kept. A link that is rewired leads to a gate of lower rank.
- *Owners.* `Release` leaves the greatest set of gates that have an owner in it (`OwnedIsGreatest`). In the walk the saved output
  owns part 0 through its links, part 0 owns the copies and these own their negations: nothing a twin leads to is
  destroyed (`HeldOK`). At the end the twins are gone and links only lead to lower ranks, so the chain of owners
  from any gate left leads up to a circuit, and `Live` is what the circuits reach.
- *The walk.* A link that was passed is `Settled`: below it is a marked gate, which is a NOT gate only if it is the one that its
  input keeps as its twin. A marked gate has settled links up to the slot where it is in the stack, and the stack is
  ordered by rank. When it is empty all links below the output are settled, which is `NotsAtInputs`.

Only model-checked: everything about `Simplification`, `Factorization` and their composition. The walks of these are recursive operators that rewire the heap as they descend, so that each
call works on what the one before has left; a theorem about them needs induction over the calls of an operator, which
the prover does not offer. `FunctionKept` and `FactorsAlive` of factorisation are moreover no theorems about all circuits (see the findings). And every liveness property, which is
out of the prover's reach under fairness, including the fairness part of the refinement.

## 5. Limits, and what is not modelled

Of `optimizeIteratively` the first two calls are checked in sequence; reordering is checked on circuits of
its own family, not on what factorisation leaves, and the loop around the three is left out.
`NoMarkLeft`, `FlagsClean` and `NothingLeft` show that flags are clear from one part to the next.

`FactorsAlive` of `simplify_and_factorize` holds for the family and is refuted
outside it, and what follows from a destroyed factor is not modelled (see the findings). `DnfConversion` has no
constants in its circuits, as the driver has none (`main.cpp:36`): `Implicant::operator&`
keeps the count of don't-cares of its first operand, so a conjunction of TRUE and an input would be converted to TRUE.

Not modelled:

- `simplify`, `simplify2` and their iterations, `convertToSingle`, `removeMultiGates`,
  `removeConstGatesRecursively` without a flag: nothing that runs calls them.
- `optimizeAbc`: it hands the circuit to ABC gate by gate and logs sizes; what ABC makes of it is not
  read back, so no state of this program depends on it.
- `getSize`, `getLevel` as calls of their own, formula output, printing, the layout of the PLA file and its
  exceptions, `Logger`, the driver's loop.
- Espresso and ABC themselves. They are vendored third-party libraries and make up nearly all of the lines of the
  repository; the program's own code is some seven thousand lines, of
  which the modules map more than a third.

What could follow: a model of the rounds of simplification in which every call is a step of its own, so that theorems about
it need no induction over calls; and the whole of `optimizeIteratively` in one run.
