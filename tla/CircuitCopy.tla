----------------------------- MODULE CircuitCopy -----------------------------
(***************************************************************************)
(* Copies of a circuit: Circuit(Circuit&), and CircuitWithoutNotGate, that *)
(* pushes the NOT gates of its copy down to the inputs (removeNotGates,    *)
(* removeNotGatesRecursively).  Both are built from twins: getCopyTwin     *)
(* makes a copy of a gate, getNegatedTwin its negation, and the gate keeps *)
(* the twin until resetFlagRecursive.                                      *)
(*                                                                         *)
(* A twin pointer is strong (it owns the twin) or weak (it is empty once   *)
(* the twin is destroyed).  Strong twins can close a circle of owners, so  *)
(* gates are destroyed here by counting owners.  A gate is flagged TWIN    *)
(* when it is in the domain of strong or weak.                             *)
(*                                                                         *)
(* Abstraction.  The lists of outputs are left out: a link owns the gate   *)
(* at its input, and nothing here reads them from below.  A walk that      *)
(* makes twins is one step, and names the twin of g next + g: addresses    *)
(* have no order here.                                                     *)
(***************************************************************************)
EXTENDS GateHeap

CONSTANTS
  Circuits,      \* the netlists to copy
  MaxCircuits    \* bound on the circuits that are made

\* The output reaches every input (OutputReachesAll of RandomCircuit).
ASSUME CircuitsAssumption ==
  \A netlist \in Circuits :
    /\ IsNetlist(netlist)
    /\ InputGate \subseteq ReachableFrom(Build(netlist), {NumOfInputs + Len(netlist)})
ASSUME MaxCircuitsAssumption == MaxCircuits \in Nat

VARIABLES
  heap,       \* the gates, with their twins and marks
  circuits,   \* the inputs and the output of every circuit
  stack,      \* removeNotGatesRecursively: the gate and the link it is at
  oldOutput,  \* removeNotGates: the output that was copied, 0 for none
  phase,      \* "idle", "top" or "walk"
  stripped,   \* the circuits whose NOT gates were pushed down
  goal        \* history: what the original computes

vars == <<heap, circuits, stack, oldOutput, phase, stripped, goal>>

-----------------------------------------------------------------------------
(* Twins.                                                                  *)

Untwinned(h) ==
  [next |-> h.next, kind |-> h.kind, in |-> h.in, id |-> h.id,
   strong |-> <<>>, weak |-> <<>>, marked |-> {}]

Twinned(h) == DOMAIN h.strong \cup DOMAIN h.weak
Twin(h, g) == IF g \in DOMAIN h.strong THEN h.strong[g] ELSE h.weak[g]

\* f, and g where f is not defined.
Joined(f, g) == [x \in DOMAIN f \cup DOMAIN g |-> IF x \in DOMAIN f THEN f[x] ELSE g[x]]

\* A function on gates as one on the new gates that are named after them.
Shifted(h, f) == [n \in {h.next + g : g \in DOMAIN f} |-> f[n - h.next]]

\* For each g that has a kind here, a new gate with this kind and inputs.
MakeGates(h, kinds, ins) ==
  [h EXCEPT !.kind = Joined(@, Shifted(h, kinds)), !.in = Joined(@, Shifted(h, ins)),
            !.next = IF DOMAIN kinds = {} THEN @ ELSE @ + @]

\* getCopyTwin: the gates that are asked for their copy and have none.
ToCopy(h, gates) ==
  Closure([g \in Live(h) |-> Children(h, g) \ Twinned(h)], gates \ Twinned(h))

WithCopy(h, gates) ==      \* the heap after getCopyTwin of the gates
  LET new == ToCopy(h, gates)
      twin == Joined([g \in new |-> h.next + g], h.strong)
      kinds == [g \in new |-> h.kind[g]]
      ins == [g \in new |-> [s \in DOMAIN h.in[g] |-> twin[h.in[g][s]]]]
      ids == [g \in new \cap DOMAIN h.id |-> h.id[g]]        \* Input(Input&)
  IN  [MakeGates(h, kinds, ins) EXCEPT !.id = Joined(@, Shifted(h, ids)), !.strong = twin]

\* Mutant: De Morgan's rule without the change of operator.
SameKind(kind) == IF kind = "TRUE" THEN "FALSE" ELSE IF kind = "FALSE" THEN "TRUE" ELSE kind
Negation(kind) == IF kind = "TRUE" THEN "FALSE" ELSE IF kind = "FALSE" THEN "TRUE" ELSE Dual(kind)

\* getNegatedTwin: a NOT gate has its input, and does not ask below.
ToNegate(h, g) ==
  Closure([x \in Live(h) |-> IF h.kind[x] = "NOT" THEN {} ELSE Children(h, x) \ Twinned(h)],
          {g} \ Twinned(h))

WithNegation(h, g) ==      \* the heap after getNegatedTwin
  LET asked == ToNegate(h, g)
      new == {x \in asked : h.kind[x] # "NOT"}
      twin == Joined([x \in asked |-> IF x \in new THEN h.next + x ELSE h.in[x][1]], h.strong)
      TwinOf(x) == IF x \in DOMAIN twin THEN twin[x] ELSE h.weak[x]
      kinds == [x \in new |-> IF h.kind[x] = "INPUT" THEN "NOT" ELSE Negation(h.kind[x])]
      ins == [x \in new |-> IF h.kind[x] = "INPUT" THEN <<x>>
                            ELSE [s \in DOMAIN h.in[x] |-> TwinOf(h.in[x][s])]]
  IN  [MakeGates(h, kinds, ins) EXCEPT
         !.strong = twin, !.weak = Joined(@, Shifted(h, [x \in new |-> x]))]

-----------------------------------------------------------------------------
(* Owners and flags.                                                       *)

\* Gate g owns its inputs and its strong twin.
OwnedBy(h, g) == Children(h, g) \cup {h.strong[x] : x \in {g} \cap DOMAIN h.strong}

\* What is left when gates without an owner are destroyed until none is.
Owned(h, pins) ==
  LET left[S \in SUBSET Live(h)] ==
        LET owned == S \cap (pins \cup UNION {OwnedBy(h, g) : g \in S})
        IN  IF owned = S THEN S ELSE left[owned]
  IN  left[Live(h)]

Release(h, pins) ==     \* destroy what has no owner left
  LET kept == Owned(h, pins)
  IN  [h EXCEPT !.kind = [g \in kept |-> @[g]], !.in = [g \in kept |-> @[g]],
                !.id = [g \in DOMAIN @ \cap kept |-> @[g]],
                !.strong = [g \in DOMAIN @ \cap kept |-> @[g]],
                !.weak = [g \in DOMAIN @ \cap kept |-> @[g]],
                !.marked = @ \cap kept]

Flagged(h) == h.marked \cup Twinned(h)

FlaggedFrom(h, g) == Closure([x \in Live(h) |-> Children(h, x) \cap Flagged(h)], {g})

\* Mutant: resetFlagRecursive(MARKED) only.
ResetMarks(h, g) == [h EXCEPT !.marked = @ \ FlaggedFrom(h, g)]

\* resetFlagRecursive(MARKED | TWIN) descends into flagged gates.
ResetTwins(h, g) ==
  LET reset == FlaggedFrom(h, g)
  IN  [h EXCEPT !.marked = @ \ reset, !.strong = [x \in DOMAIN @ \ reset |-> @[x]],
                !.weak = [x \in DOMAIN @ \ reset |-> @[x]]]

Held(cs) == UNION {{c.output} \cup Range(c.inputs) : c \in Range(cs)}
Keep(h, cs, gates) == Release(h, Held(cs) \cup gates \cup {fr.gate : fr \in Range(stack)})

-----------------------------------------------------------------------------
(* Constructors.                                                           *)

Init ==
  \E netlist \in Circuits :
    LET built == Build(netlist)
        original == [inputs |-> [n \in InputGate |-> n], output |-> built.next - 1]
    IN  /\ circuits = <<original>>
        /\ heap = Untwinned(Sweep(built, Held(circuits)))
        /\ stack = <<>> /\ oldOutput = 0 /\ phase = "idle" /\ stripped = {}
        /\ goal = Table(heap, original.output)

Copied(h, c) ==         \* the inputs and the output that are the twins of c's
  [inputs |-> [n \in DOMAIN c.inputs |-> h.strong[c.inputs[n]]], output |-> h.strong[c.output]]

\* Mutant: the twins stay for the next copy.
CopyKeepingTwins(c) ==
  LET copied == WithCopy(heap, {c.output} \cup Range(c.inputs))
  IN  [heap |-> copied, circuit |-> Copied(copied, c)]

\* Circuit::Circuit(Circuit&).
Copy(c) ==
  LET copied == WithCopy(heap, {c.output} \cup Range(c.inputs))
  IN  [heap |-> ResetTwins(copied, c.output), circuit |-> Copied(copied, c)]

CopyCircuit ==
  /\ phase = "idle" /\ Len(circuits) < MaxCircuits
  /\ \E n \in DOMAIN circuits : LET copy == Copy(circuits[n]) IN
       /\ circuits' = Append(circuits, copy.circuit)
       /\ heap' = Keep(copy.heap, circuits', {})
  /\ UNCHANGED <<stack, oldOutput, phase, stripped, goal>>

last == Len(circuits)

\* Mutant: the local variable oldOutput is dropped.
KeepNothing == {}

\* removeNotGates works on a second copy; the first one is kept, with its
\* strong twins, so that no gate of the second is destroyed.
KeptOriginal == {oldOutput}

StripNots ==
  LET c == circuits[last]
      copied == WithCopy(heap, {c.output} \cup Range(c.inputs))
  IN  /\ phase = "idle" /\ last > 1 /\ last \notin stripped
      /\ oldOutput' = c.output
      /\ circuits' = [circuits EXCEPT ![last] = Copied(copied, c)]
      /\ heap' = Keep(copied, circuits', KeptOriginal')
      /\ phase' = "top"
      /\ UNCHANGED <<stack, stripped, goal>>

\* getNegatedTwin()->getNegatedTwin(): the gate, and the heap afterwards.
DoubleNegation(h, g) ==
  LET once == WithNegation(h, g)
      twice == WithNegation(once, Twin(once, g))
  IN  [heap |-> twice, gate |-> Twin(twice, Twin(once, g))]

\* removeNotGatesRecursively on a gate that is not yet marked.
Enter(h, g) == IF g \in h.marked THEN <<>> ELSE <<[gate |-> g, slot |-> 1]>>
Mark(h, g) == [h EXCEPT !.marked = @ \cup {g}]

StripOutput ==
  LET out == circuits[last].output
      pushed == DoubleNegation(heap, out)
  IN  /\ phase = "top"
      /\ IF heap.kind[out] = "NOT" /\ heap.kind[heap.in[out][1]] # "INPUT"
         THEN /\ circuits' = [circuits EXCEPT ![last].output = pushed.gate]
              /\ heap' = Keep(pushed.heap, circuits', KeptOriginal)
              /\ UNCHANGED <<stack, phase>>
         ELSE /\ stack' = Enter(heap, out)
              /\ heap' = Mark(heap, out)
              /\ phase' = "walk"
              /\ UNCHANGED circuits
      /\ UNCHANGED <<oldOutput, stripped, goal>>

fr == Head(stack)
child == heap.in[fr.gate][fr.slot]
AtLink == phase = "walk" /\ stack # <<>> /\ fr.slot <= Len(heap.in[fr.gate])

\* Mutant: any NOT gate above an input may stay.
OverAnyInput(h, g) == h.kind[h.in[g][1]] = "INPUT"

\* The NOT gate g is the one its input keeps as its twin.
OverItsInput(h, g) == Twin(WithNegation(h, h.in[g][1]), h.in[g][1]) = g

MustGo(h, g) == h.kind[g] = "NOT" /\ ~OverItsInput(h, g)

PushNotDown ==
  LET asked == WithNegation(heap, heap.in[child][1])
      pushed == DoubleNegation(asked, child)
  IN  /\ AtLink
      /\ MustGo(heap, child)
      /\ heap' = Keep([pushed.heap EXCEPT !.in[fr.gate][fr.slot] = pushed.gate],
                      circuits, KeptOriginal)
      /\ UNCHANGED <<circuits, stack, oldOutput, phase, stripped, goal>>

Descend ==
  LET asked == IF heap.kind[child] = "NOT" THEN WithNegation(heap, heap.in[child][1])
               ELSE heap
  IN  /\ AtLink
      /\ ~MustGo(heap, child)
      /\ stack' = Enter(heap, child) \o <<[fr EXCEPT !.slot = @ + 1]>> \o Tail(stack)
      /\ heap' = Mark(asked, child)
      /\ UNCHANGED <<circuits, oldOutput, phase, stripped, goal>>

Return ==
  /\ phase = "walk" /\ stack # <<>> /\ fr.slot > Len(heap.in[fr.gate])
  /\ stack' = Tail(stack)
  /\ UNCHANGED <<heap, circuits, oldOutput, phase, stripped, goal>>

EndStrip ==
  /\ phase = "walk" /\ stack = <<>>
  /\ heap' = Keep(ResetTwins(heap, circuits[last].output), circuits, {})
  /\ oldOutput' = 0
  /\ stripped' = stripped \cup {last}
  /\ phase' = "idle"
  /\ UNCHANGED <<circuits, stack, goal>>

Terminated == phase = "idle" /\ last = MaxCircuits /\ UNCHANGED vars

Next ==
  \/ CopyCircuit \/ StripNots \/ StripOutput \/ PushNotDown \/ Descend \/ Return
  \/ EndStrip \/ Terminated

Spec == Init /\ [][Next]_vars

-----------------------------------------------------------------------------
(* Properties.                                                             *)

Network(c) == ReachableFrom(heap, {c.output})

\* Every circuit computes what the original does, the one being stripped
\* too, after every step of the walk.
FunctionKept == \A n \in DOMAIN circuits : Table(heap, circuits[n].output) = goal

\* A weak twin is never asked for after its gate was destroyed, although
\* the walk takes away links of gates whose twins are still needed.
NoExpiredTwin ==
  \A g \in Twinned(heap) : Twin(heap, g) \in Live(heap)

\* A stripped circuit has NOT gates above inputs only, one for an input.
NotsAtInputs ==
  phase = "idle" => \A n \in stripped : LET N == Network(circuits[n]) IN
    \A g \in {x \in N : heap.kind[x] = "NOT"} :
      /\ heap.kind[heap.in[g][1]] = "INPUT"
      /\ g = circuits[n].output
           \/ \A x \in N \ {g, circuits[n].output} :
                heap.kind[x] = "NOT" => heap.in[x] # heap.in[g]

\* Circuits share no gate, so that no operation on one changes another.
CopiesDisjoint ==
  \A m, n \in DOMAIN circuits :
    m # n => (Network(circuits[m]) \cup Range(circuits[m].inputs))
               \cap (Network(circuits[n]) \cup Range(circuits[n].inputs)) = {}

\* Between two constructors no twin or mark is left for the next one, and no
\* circle of owners keeps a gate that no circuit reaches.
NothingLeft ==
  phase = "idle" =>
    /\ Flagged(heap) = {}
    /\ Live(heap) = ReachableFrom(heap, Held(circuits))
=============================================================================
