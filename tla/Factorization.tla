---------------------------- MODULE Factorization ----------------------------
(***************************************************************************)
(* CircuitWithoutNotGate::factorizeIteratively: (f+x)*(f+y) becomes        *)
(* f+(x*y), and the dual, at every gate and until a round changes nothing. *)
(* AndGate/OrGate::factorizeRecursively visits the inputs of a gate first, *)
(* collects the factors its operands share and, for each of them, wraps    *)
(* the gate in a new one; while parents are moved to the wrapper one by    *)
(* one, the factor is removed from one operand (removeFactor) and          *)
(* extracted from the other (extractFactor).  The operands' factors are    *)
(* cached in the gates as raw pointers.                                    *)
(*                                                                         *)
(* The recursion is a stack of frames; a frame holds the locals that own   *)
(* gates.  A flagged cache is a member of the domain of single or double;  *)
(* what a cache holds without its flag is cleared before it is read, so it *)
(* is not kept.  The maps that simplification leaves in the gates          *)
(* (multiInputsWithLink) are not read here, but own their keys: links.     *)
(*                                                                         *)
(* Abstraction.  Sets of pointers are visited in any order.                *)
(***************************************************************************)
EXTENDS GateHeap

VARIABLES
  heap,       \* the gates, with their flags and caches
  output,     \* Circuit::output
  stack,      \* the calls of factorizeRecursively, innermost first
  temp,       \* the NOT gate above the output, 0 for none
  cont,       \* what the outermost call returned
  oldSize,    \* the size before the round
  phase       \* "start" of a round, "round" or "done"

vars == <<heap, output, stack, temp, cont, oldSize, phase>>

-----------------------------------------------------------------------------
(* The cached factors of an operand.                                       *)

Unflagged(h, links) ==
  [next |-> h.next, kind |-> h.kind, in |-> h.in, out |-> h.out, id |-> h.id,
   links |-> links, single |-> <<>>, double |-> <<>>, factorized |-> {}, marked |-> {}]

Shared(h, g) == Len(h.out[g]) > 1

SingleOf(h, g) == IF Bivariate(h, g) THEN h.single[g] ELSE {}
DoubleOf(h, g) == IF Bivariate(h, g) THEN h.double[g] ELSE {}

\* getMultiInputsWithSingleOutput: operands reached through unshared gates.
RECURSIVE WithSingle(_, _)
WithSingle(h, g) ==
  LET Same(s) == h.kind[h.in[g][s]] = h.kind[g]
      Cache(hh, s) == IF Same(s) THEN WithSingle(hh, h.in[g][s]) ELSE hh
      filled == Cache(Cache(h, 1), 2)
      Part(s) == IF Same(s) THEN filled.single[h.in[g][s]] ELSE {h.in[g][s]}
  IN  IF ~Bivariate(h, g) \/ g \in DOMAIN h.single THEN h
      ELSE IF Shared(h, g) THEN [h EXCEPT !.single = @ @@ (g :> {g})]
      ELSE [filled EXCEPT !.single = @ @@ (g :> Part(1) \cup Part(2))]

\* getMultiInputsWithDoubleOutput: one shared gate may lie on the way.
RECURSIVE WithDouble(_, _)
WithDouble(h, g) ==
  LET Same(s) == h.kind[h.in[g][s]] = h.kind[g]
      Cache(hh, s) == IF ~Same(s) THEN hh
                      ELSE IF Shared(h, g) THEN WithSingle(hh, h.in[g][s])
                      ELSE WithDouble(hh, h.in[g][s])
      filled == Cache(Cache(h, 1), 2)
      Part(s) == IF ~Same(s) THEN {h.in[g][s]}
                 ELSE IF Shared(h, g) THEN filled.single[h.in[g][s]]
                 ELSE filled.double[h.in[g][s]]
  IN  IF ~Bivariate(h, g) \/ g \in DOMAIN h.double THEN h
      ELSE [filled EXCEPT !.double = @ @@ (g :> Part(1) \cup Part(2))]

\* set::erase and set::insert on a cache.
Erase(cache, g, f) == [x \in DOMAIN cache |-> IF x = g THEN cache[x] \ {f} ELSE cache[x]]
Insert(cache, g, f) ==
  [x \in DOMAIN cache |-> IF x = g THEN cache[x] \cup {f} ELSE cache[x]]
Forget(h, g, f) ==
  [h EXCEPT !.single = Erase(@, g, f), !.double = Erase(@, g, f)]

\* A gate owns its inputs and the keys of its map.
RECURSIVE OwnedFrom(_, _)
OwnedFrom(h, gates) ==
  LET Keys(g) == IF g \in DOMAIN h.links THEN h.links[g] ELSE {}
      next == (UNION {Children(h, g) \cup Keys(g) : g \in gates}) \ gates
  IN  IF next = {} THEN gates ELSE OwnedFrom(h, gates \cup next)

\* What is not owned is destroyed, with its annotations.
OnlyLive(h) ==
  LET Of(f) == [g \in DOMAIN f \cap Live(h) |-> f[g]]
  IN  [h EXCEPT !.links = Of(@), !.single = Of(@), !.double = Of(@),
                !.factorized = @ \cap Live(h), !.marked = @ \cap Live(h)]
Release(h, pins) == OnlyLive(KeepOnly(h, OwnedFrom(h, pins)))

-----------------------------------------------------------------------------
(* Taking a factor out of an operand: the heap afterwards and the gate     *)
(* that stands for the rest.  pins are the gates the callers own.          *)

Answer(h, gate) == [heap |-> h, gate |-> gate]
Released(answer, pins) ==
  [answer EXCEPT !.heap = Release(@, pins \cup {answer.gate})]

\* inputs[s]->setInput(retVal), when the recursion returned another gate
\* than it was called on; what the slot holds by then is not looked at.
Replace(answer, old, g, s, pins) ==
  IF answer.gate = old THEN answer.heap
  ELSE Release(SetInput(answer.heap, g, s, answer.gate), pins)

OtherInput(h, g, f) == IF h.in[g][1] = f THEN h.in[g][2] ELSE h.in[g][1]

\* BivariateGate::removeFactor, first the cache and then the rest.
RECURSIVE RemoveFactor(_, _, _, _), RemoveListed(_, _, _, _)
RemoveFactor(h, g, f, pins) == Released(RemoveListed(WithSingle(h, g), g, f, pins), pins)

RemoveListed(h, g, f, pins) ==
  LET in == h.in[g]
      held == pins \cup {g, in[1], in[2]}
      rest == OtherInput(h, g, f)
      forgotten == Forget(h, g, f)
      Below(hh, s) ==
        IF hh.kind[in[s]] # hh.kind[g] THEN hh
        ELSE Replace(RemoveFactor(hh, in[s], f, held), in[s], g, s, held)
  IN  IF f \notin SingleOf(h, g) THEN Answer(h, g)
      ELSE IF f \notin Range(in) THEN Answer(FoldLeft(Below, forgotten, <<1, 2>>), g)
      ELSE IF h.kind[rest] # h.kind[g] THEN Answer(forgotten, rest)
      ELSE RemoveFactor(forgotten, rest, f, held)

\* Every link of g but the new gate's own moves to the new gate, which is
\* made of the rest and the factor.
MoveOthers(h, g, new) ==
  FoldLeft(LAMBDA hh, link : IF link[1] = new THEN hh
                             ELSE SetInput(hh, link[1], link[2], new),
           h, h.out[g])
GiveOthers(rest, class, g, f) ==
  Answer(MoveOthers(MakeGate(rest.heap, class, <<rest.gate, f>>), g, rest.heap.next),
         rest.gate)

\* AndGate::extractFactor, OrGate::extractFactor: class is whose code runs.
RECURSIVE ExtractFactor(_, _, _, _, _), ExtractListed(_, _, _, _, _)
ExtractFactor(h, class, g, f, pins) ==
  Released(ExtractListed(WithDouble(h, g), class, g, f, pins), pins)

ExtractListed(h, class, g, f, pins) ==
  LET in == h.in[g]
      held == pins \cup {g, in[1], in[2]}
      Below(hh, s) ==
        IF hh.kind[in[s]] # hh.kind[g] THEN hh
        ELSE Replace(ExtractFactor(hh, class, in[s], f, held), in[s], g, s, held)
  IN  IF f \notin DoubleOf(h, g) THEN Answer(h, g)
      ELSE IF Shared(h, g)
      THEN GiveOthers(RemoveFactor([h EXCEPT !.single = Insert(@, g, f)], g, f, pins \cup {g}),
                      class, g, f)
      ELSE IF f \in Range(in) THEN Answer(Forget(h, g, f), OtherInput(h, g, f))
      ELSE Answer(FoldLeft(Below, Forget(h, g, f), <<1, 2>>), g)

-----------------------------------------------------------------------------
(* Flags over the whole network.                                           *)

Flagged(h) == h.marked \cup h.factorized \cup DOMAIN h.single \cup DOMAIN h.double

RECURSIVE Through(_, _, _)
Through(h, gates, passable) ==     \* reached from gates through passable ones
  LET next == (UNION {Children(h, g) : g \in gates} \cap passable) \ gates
  IN  IF next = {} THEN gates ELSE Through(h, gates \cup next, passable)

SetMarkingRecursively(h, g) ==
  [h EXCEPT !.marked = @ \cup Through(h, {g}, Live(h) \ @)]

ResetFlagRecursive(h, g) ==
  LET reset == Through(h, {g}, Flagged(h))
  IN  [h EXCEPT !.marked = @ \ reset, !.factorized = @ \ reset,
                !.single = [x \in DOMAIN @ \ reset |-> @[x]],
                !.double = [x \in DOMAIN @ \ reset |-> @[x]]]

\* Mutant: the network is not marked first.
ResetOnly(h, g) == ResetFlagRecursive(h, g)
CleanUp(h, g) == ResetFlagRecursive(SetMarkingRecursively(h, g), g)

-----------------------------------------------------------------------------
(* The recursion.                                                          *)

Frame(g) == [gate |-> g, at |-> "visit", slot |-> 1, pass |-> 1, changed |-> FALSE,
             held |-> <<>>, factors |-> {}, factor |-> 0, wrapper |-> 0]
Call(h, g) ==     \* a call that has something to do
  IF h.kind[g] \in {"AND", "OR", "NOT"} /\ g \notin h.factorized
  THEN <<Frame(g)>> ELSE <<>>

top == Head(stack)
this == top.gate
kind == heap.kind[this]
Pins(frames) ==
  InputGate \cup {output, temp}
    \cup UNION {{fr.gate, fr.wrapper} \cup Range(fr.held) : fr \in Range(frames)}
Keep(h, frames) == Release(h, Pins(frames) \cap Live(h))

Running(at) == phase = "round" /\ stack # <<>> /\ top.at = at
SetTop(frame) == stack' = <<frame>> \o Tail(stack)

\* Before the call nothing is there; the call comes with a circuit.
Idle == stack = <<>> /\ temp = 0 /\ cont = TRUE

FactorizeIteratively(h) ==
  /\ heap' = h
  /\ phase' = "start" /\ cont' = TRUE
  /\ oldSize' = GateSize(h, output)
  /\ UNCHANGED <<output, stack, temp>>

StartRound ==
  /\ phase = "start"
  /\ heap' = MakeGate(heap, "NOT", <<output>>)
  /\ temp' = heap.next
  /\ stack' = Call(heap, output)
  /\ cont' = FALSE
  /\ phase' = "round"
  /\ UNCHANGED <<output, oldSize>>

VisitInput ==
  /\ Running("visit")
  /\ IF top.slot <= Len(heap.in[this])
     THEN stack' = Call(heap, heap.in[this][top.slot])
                     \o <<[top EXCEPT !.slot = @ + 1]>> \o Tail(stack)
     ELSE SetTop([top EXCEPT !.at = IF kind = "NOT" THEN "leave" ELSE "examine",
                             !.held = IF kind = "NOT" THEN <<>> ELSE heap.in[this]])
  /\ UNCHANGED <<heap, output, temp, cont, oldSize, phase>>

\* Mutant: the kind of the second operand is not looked at.
FactorableByFirst(h, g, held) ==
  /\ h.kind[held[1]] = Dual(h.kind[g])
  /\ ~(Shared(h, held[1]) /\ Shared(h, held[2]))

Factorable(h, g, held) ==
  /\ \A s \in {1, 2} : h.kind[held[s]] = Dual(h.kind[g])
  /\ ~(Shared(h, held[1]) /\ Shared(h, held[2]))

\* Mutant: set_union for set_intersection.
AllOperands(a, b) == a \cup b
Common(a, b) == a \cap b

\* Mutant: changed is set before it is known that there is a factor.
ChangedBy(factors) == TRUE
Changes(factors) == factors # {}

\* Pass 1 looks for the factors that the second operand may share, pass 2
\* for those that the first one may.
Examine ==
  LET remover == top.held[top.pass]
      extractor == top.held[3 - top.pass]
      h == WithDouble(WithSingle(heap, remover), extractor)
      factors == Common(SingleOf(h, remover), DoubleOf(h, extractor))
  IN  /\ Running("examine")
      /\ IF Factorable(heap, this, top.held)
         THEN /\ heap' = h
              /\ SetTop([top EXCEPT !.at = "factor", !.factors = factors,
                                    !.changed = @ \/ Changes(factors)])
         ELSE /\ SetTop([top EXCEPT !.at = "leave"])
              /\ UNCHANGED heap
      /\ UNCHANGED <<output, temp, cont, oldSize, phase>>

WrapFactor ==
  /\ Running("factor")
  /\ \E f \in top.factors :
       /\ f \in Live(heap)
       /\ heap' = MakeGate(heap, Dual(kind), <<this, f>>)
       /\ SetTop([top EXCEPT !.at = "move", !.factors = @ \ {f}, !.factor = f,
                             !.wrapper = heap.next])
  /\ UNCHANGED <<output, temp, cont, oldSize, phase>>

\* input_s = ...Factor(currentFactor); inputs[s]->setInput(input_s).
SetOperand(answer, fr, s) ==
  LET frame == [fr EXCEPT !.held[s] = answer.gate]
  IN  [frame |-> frame,
       heap |-> Keep(SetInput(answer.heap, fr.gate, s, answer.gate),
                     <<frame>> \o Tail(stack))]

Reduce(state, s) ==
  LET fr == state.frame
      pins == Pins(<<fr>> \o Tail(stack)) \cap Live(state.heap)
  IN  SetOperand(IF s = fr.pass
                 THEN RemoveFactor(state.heap, fr.held[s], fr.factor, pins)
                 ELSE ExtractFactor(state.heap, Dual(kind), fr.held[s], fr.factor, pins),
                 fr, s)

Continue(state) == heap' = state.heap /\ SetTop(state.frame)

MoveParent ==
  LET link == Head(heap.out[this])
      moved == [frame |-> top, heap |-> SetInput(heap, link[1], link[2], top.wrapper)]
  IN  /\ Running("move")
      /\ link[1] # top.wrapper
      /\ Continue(FoldLeft(Reduce, moved, <<1, 2>>))
      /\ UNCHANGED <<output, temp, cont, oldSize, phase>>

AllMoved ==
  LET frame == [top EXCEPT !.at = "factor", !.wrapper = 0]
  IN  /\ Running("move")
      /\ Head(heap.out[this])[1] = top.wrapper
      /\ heap' = Keep(heap, <<frame>> \o Tail(stack))
      /\ SetTop(frame)
      /\ UNCHANGED <<output, temp, cont, oldSize, phase>>

NextPass ==
  /\ Running("factor")
  /\ top.factors = {}
  /\ SetTop([top EXCEPT !.at = IF top.pass = 1 THEN "examine" ELSE "leave",
                        !.pass = 2])
  /\ UNCHANGED <<heap, output, temp, cont, oldSize, phase>>

Leave ==
  /\ Running("leave")
  /\ heap' = Keep([heap EXCEPT !.factorized = @ \cup {this}], Tail(stack))
  /\ IF Len(stack) = 1
     THEN stack' = <<>> /\ cont' = top.changed
     ELSE /\ stack' = <<[stack[2] EXCEPT !.changed = @ \/ top.changed]>>
                        \o SubSeq(stack, 3, Len(stack))
          /\ UNCHANGED cont
  /\ UNCHANGED <<output, temp, oldSize, phase>>

\* No name of a destroyed gate is kept from one round to the next.
Renewed(h) == [h EXCEPT !.next = Max(Live(h)) + 1]

EndRound ==
  LET new == heap.in[temp][1]
      clean == CleanUp(Release(heap, InputGate \cup {new, temp}), new)
      newSize == GateSize(clean, new)
  IN  /\ phase = "round" /\ stack = <<>>
      /\ output' = new
      /\ heap' = Renewed(Release(clean, InputGate \cup {new}))
      /\ temp' = 0
      /\ phase' = IF cont /\ oldSize >= newSize THEN "start" ELSE "done"
      /\ oldSize' = newSize
      /\ UNCHANGED <<stack, cont>>

Terminated == phase = "done" /\ UNCHANGED vars

Next ==
  \/ StartRound \/ VisitInput \/ Examine \/ WrapFactor \/ MoveParent
  \/ AllMoved \/ NextPass \/ Leave \/ EndRound \/ Terminated
=============================================================================
