------------------------- MODULE SimplifyAndFactorize -------------------------
(***************************************************************************)
(* The first two calls of CircuitWithoutNotGate::optimizeIteratively:      *)
(* simplifyIterative3, then factorizeIteratively on what it leaves.  From  *)
(* one to the other go the circuit, the flag MARKED and, in the gates, the *)
(* maps multiInputsWithLink, whose keys they own though nothing reads them *)
(* any more: a gate that factorisation takes out of the circuit may live   *)
(* on as a key, and is then a parent of its inputs still.                  *)
(***************************************************************************)
EXTENDS GateHeap

CONSTANT Circuits     \* the netlists to optimise

VARIABLES
  heap, output, stack, oldSize, phase,     \* of the call that is running
  goal,                                    \* history: the function at first
  temp, cont,                              \* of factorizeIteratively
  part                                     \* the call that is running

vars == <<heap, output, stack, oldSize, phase, goal, temp, cont, part>>

Simplify == INSTANCE Simplification
Factorize == INSTANCE Factorization

-----------------------------------------------------------------------------
Init == part = "simplify" /\ Simplify!Init /\ Factorize!Idle

\* The keys of the maps that the gates still hold.
LeftLinks(h) == [g \in {x \in DOMAIN h.links : h.links[x] # <<>>} |-> DOMAIN h.links[g]]

SimplifyStep == part = "simplify" /\ Simplify!Next /\ UNCHANGED <<temp, cont, part>>

Simplified ==
  /\ part = "simplify" /\ phase = "done"
  /\ part' = "factorize"
  /\ Factorize!FactorizeIteratively(
       [Factorize!Unflagged(heap, LeftLinks(heap)) EXCEPT !.marked = heap.marked])
  /\ UNCHANGED goal

FactorizeStep == part = "factorize" /\ Factorize!Next /\ UNCHANGED <<goal, part>>

Next == SimplifyStep \/ Simplified \/ FactorizeStep

\* The call runs on until it returns: WF_vars(Next), written out because
\* TLC cannot afford ENABLED of the recursive operators of the instances.
Returned == part = "factorize" /\ phase = "done"
Runs == []<>Returned \/ []<><<Next>>_vars

Spec == Init /\ [][Next]_vars /\ Runs

-----------------------------------------------------------------------------
(* Properties.                                                             *)

\* Between the rounds of either call the circuit computes what it did before
\* the first one, also where operands and factors are used elsewhere.
FunctionKept == phase # "round" => Table(heap, output) = goal

\* A factor collected as a raw pointer is alive until its turn comes, though
\* the factors before it have been taken out of the operands.
FactorsAlive ==
  part = "factorize" /\ Factorize!Running("factor")
    => Factorize!top.factors \subseteq Live(heap)

\* Factorisation starts without a flag or a cached pointer in the circuit and
\* no round of it leaves one, also where it made new gates above flagged ones.
\* Only gates that live on as keys of a map keep theirs.
FlagsClean ==
  part = "factorize" /\ phase # "round"
    => ReachableFrom(heap, {output}) \cap Factorize!Flagged(heap) = {}

\* Both calls return: the rounds end, though those that change nothing in
\* size go on, and so does the loop over a gate's parents, which waits for
\* the wrapper to be the first of the links that the loop itself moves.
OptimizeEnds == <>Returned
=============================================================================
