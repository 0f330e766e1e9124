---------------------------- MODULE Simplification ----------------------------
(***************************************************************************)
(* CircuitWithoutNotGate::simplifyIterative3.  In an AND, what is below an *)
(* input x may take x for TRUE, and in an OR for FALSE, provided that x    *)
(* stays where it is: AndGate/OrGate::simplifyRecursively3 looks at all    *)
(* inputs of a tree of one type (getMultiInputsWithLink), protects the     *)
(* link of one and replaces the input elsewhere (replaceInputRecursively3),*)
(* in gates that are used below this gate only; for a gate that is used    *)
(* elsewhere too it puts a twin.  Then constants are pulled up             *)
(* (removeConstGatesRecursivelyIfFlagged).  At the end of a round          *)
(* getConstantFreeTwin builds the circuit without them.                    *)
(*                                                                         *)
(* The flags: level, parents (MARKED_PARENTS) and twin are functions on    *)
(* the gates flagged, cached are the gates flagged MULTI_INPUTS_LINK.  The *)
(* map links stays, and owns its keys, when that flag is reset.  A gate    *)
(* that is its own twin has a weak one, all others are strong.             *)
(*                                                                         *)
(* Abstraction.  The keys of a map, ordered by address, come in any order. *)
(***************************************************************************)
EXTENDS GateHeap

CONSTANT Circuits     \* the netlists to simplify

VARIABLES
  heap,       \* the gates, with their flags
  output,     \* Circuit::output
  stack,      \* the calls of simplifyRecursively3, innermost first
  oldSize,    \* the size before the round
  phase,      \* "start" of a round, "round" or "done"
  goal        \* history: what the circuit computed at first

vars == <<heap, output, stack, oldSize, phase, goal>>

-----------------------------------------------------------------------------
(* Gates with flags.                                                       *)

Unflagged(h) ==
  [next |-> h.next, kind |-> h.kind, in |-> h.in, out |-> h.out, id |-> h.id,
   level |-> <<>>, parents |-> <<>>, twin |-> <<>>, links |-> <<>>, cached |-> {},
   marked |-> {}, separated |-> <<>>]

Constant == {"TRUE", "FALSE"}
Opposite(constant) == IF constant = "TRUE" THEN "FALSE" ELSE "TRUE"
Neutral(kind) == IF kind = "AND" THEN "TRUE" ELSE "FALSE"

Slots(h, g) == [s \in DOMAIN h.in[g] |-> s]

\* Who owns a gate: a link, another's twin, a map or the list separatedGates.
Owned(h, pins, g) ==
  \/ g \in pins \cup Range(h.separated)
  \/ h.out[g] # <<>>
  \/ \E x \in DOMAIN h.twin \ {g} : h.twin[x] = g
  \/ \E x \in DOMAIN h.links : g \in DOMAIN h.links[x]

Only(kept, h) ==
  LET OwnerKept(link) == link[1] \in kept
      Of(f) == [g \in DOMAIN f \cap kept |-> f[g]]
  IN  [h EXCEPT !.kind = Of(@), !.in = Of(@), !.level = Of(@), !.parents = Of(@),
                !.twin = Of(@), !.links = Of(@), !.cached = @ \cap kept,
                !.marked = @ \cap kept,
                !.out = [g \in kept |-> SelectSeq(@[g], OwnerKept)]]

RECURSIVE Release(_, _)
Release(h, pins) ==
  IF \A g \in Live(h) : Owned(h, pins, g) THEN h
  ELSE Release(Only({g \in Live(h) : Owned(h, pins, g)}, h), pins)

SetSlot(h, g, s, new, pins) == Release(SetInput(h, g, s, new), pins)
SetToAnswer(answer, g, s, pins) == SetSlot(answer.heap, g, s, answer.gate, pins)

RECURSIVE WithLevel(_, _)
WithLevel(h, g) ==      \* getLevel
  LET below == FoldLeft(WithLevel, h, h.in[g])
      level == Max({0} \cup {below.level[x] + 1 : x \in Children(h, g)})
  IN  IF g \in DOMAIN h.level THEN h ELSE [below EXCEPT !.level = @ @@ (g :> level)]

\* getMultiInputsWithLink: the inputs of a tree of one type, each with the
\* first link to it.
RECURSIVE WithLinks(_, _)
WithLinks(h, g) ==
  LET in == h.in[g]
      Same(s) == h.kind[in[s]] = h.kind[g]
      Cache(hh, s) == IF Same(s) THEN WithLinks(hh, in[s]) ELSE hh
      filled == Cache(Cache(h, 1), 2)
      Part(s) == IF Same(s) THEN filled.links[in[s]]
                 ELSE IF h.kind[in[s]] \in Constant THEN <<>>
                 ELSE in[s] :> <<g, s>>
  IN  IF g \in h.cached THEN h
      ELSE [filled EXCEPT !.links = (g :> (Part(1) @@ Part(2))) @@ @, !.cached = @ \cup {g}]

-----------------------------------------------------------------------------
(* Replacing an input below: c has the gate at which this started (root),  *)
(* the gate to be replaced (original), the constant for it (with) and the  *)
(* protected links.  pins are the gates the callers own.                   *)

Increment(h, g) ==      \* incrementMarkedParents
  [h EXCEPT !.parents = (g :> (IF g \in DOMAIN @ THEN @[g] ELSE 0) + 1) @@ @]

\* The constant that slot s of g becomes, if it is decided here.
Decided(h, g, s, c) ==
  LET x == h.in[g][s]
      unprotected == <<x, 1>> \notin c.protected
  IN  IF x = c.original /\ (h.kind[g] = "NOT" => <<g, s>> \notin c.protected)
      THEN {h.kind[c.with]}
      ELSE IF Bivariate(h, g) /\ h.kind[x] = "NOT" /\ unprotected /\ h.in[x][1] = c.original
      THEN {Opposite(h.kind[c.with])} ELSE {}

\* Mutant: the key is erased whatever link it has.
ForgetKeys(h, g, root) ==
  [h EXCEPT !.links[root] = [k \in DOMAIN @ \ Children(h, g) |-> @[k]]]

\* removeKeyAndValueFromMap, for both links of g.
Forget(h, g, root) ==
  LET links == h.links[root]
      gone == {k \in DOMAIN links : \E s \in {1, 2} : k = h.in[g][s] /\ links[k] = <<g, s>>}
  IN  [h EXCEPT !.links[root] = [k \in DOMAIN links \ gone |-> links[k]]]

ConstantTwin(h, g, constant) ==
  [MakeGate(h, constant, <<>>) EXCEPT !.twin = (g :> h.next) @@ @]

\* g is used elsewhere too and its slot s is decided: its twin, for this
\* root, is a constant or the other input.
Separate(h, g, s, c) ==
  LET constant == CHOOSE v \in Decided(h, g, s, c) : TRUE
      forgotten == IF h.kind[g] = "NOT" THEN h ELSE Forget(h, g, c.root)
      separated == [forgotten EXCEPT !.separated = Append(@, g)]
  IN  IF Bivariate(h, g) /\ constant = Neutral(h.kind[g])
      THEN [separated EXCEPT !.twin = (g :> h.in[g][3 - s]) @@ @]
      ELSE ConstantTwin(separated, g, IF h.kind[g] = "NOT" THEN Opposite(constant) ELSE constant)

RECURSIVE ReplaceInput(_, _, _, _), ReplaceBelow(_, _, _, _)

\* Mutant: not all links have to come from below the root.
AnyBelow(h, g) == TRUE
AllBelow(h, g) == h.parents[g] = Len(h.out[g])

\* The slot s of g, when the levels are known.
ReplaceInSlot(h, g, s, c, pins) ==
  LET x == h.in[g][s]
  IN  IF h.level[x] < h.level[c.original] THEN h
      ELSE IF x # c.original
      THEN SetToAnswer(ReplaceInput(h, x, c, pins \cup {x}), g, s, pins)
      ELSE IF <<g, s>> \in c.protected THEN h
      ELSE SetSlot(h, g, s, c.with, pins)

\* Gate::replaceInputRecursively3: only when the last of the links to g has
\* been come by, for then all of them are below the root.
ReplaceBelow(h, g, c, pins) ==
  LET counted == Increment(h, g)
      Slot(hh, s) ==
        ReplaceInSlot(WithLevel(WithLevel(hh, hh.in[g][s]), c.original), g, s, c, pins)
  IN  IF ~AllBelow(counted, g) THEN counted
      ELSE FoldLeft(Slot, [counted EXCEPT !.cached = @ \ {g}], Slots(h, g))

\* replaceInputRecursively3 of each kind: the heap and the gate returned.
ReplaceInput(h, g, c, pins) ==
  LET leaf == Arity(h.kind[g]) = 0
      single == Len(h.out[g]) = 1
      twinned == g \in DOMAIN h.twin
      holdsProtected == Bivariate(h, g) /\ {<<g, 1>>, <<g, 2>>} \cap c.protected # {}
      decided == {s \in DOMAIN h.in[g] : Decided(h, g, s, c) # {}}
      goesOn == \/ leaf \/ single
                \/ IF twinned THEN h.twin[g] = g ELSE ~holdsProtected /\ decided = {}
      touched == IF leaf THEN h
                 ELSE IF single THEN [h EXCEPT !.twin = (g :> g) @@ @]
                 ELSE IF twinned THEN h
                 ELSE [h EXCEPT !.twin = (g :> g) @@ @, !.cached = @ \ {g}]
      Answer(hh) == [heap |-> hh, gate |-> hh.twin[g]]
  IN  IF goesOn THEN [heap |-> ReplaceBelow(touched, g, c, pins), gate |-> g]
      ELSE Answer(IF twinned \/ holdsProtected THEN touched
                  ELSE Separate(touched, g, Min(decided), c))

-----------------------------------------------------------------------------
(* Pulling constants up.                                                   *)

\* getIndirectType, when it is a constant.
IndirectConstant(h, g) ==
  LET kinds == {h.kind[x] : x \in Children(h, g)}
      neutral == Neutral(h.kind[g])
  IN  CASE h.kind[g] \in Constant -> {h.kind[g]}
        [] h.kind[g] = "INPUT" -> {}
        [] h.kind[g] = "NOT" -> {Opposite(k) : k \in kinds \cap Constant}
        [] OTHER -> IF Opposite(neutral) \in kinds THEN {Opposite(neutral)}
                    ELSE kinds \cap (IF kinds = {neutral} THEN Constant ELSE {})

ResetTwinAndParents(h, g) ==
  [h EXCEPT !.twin = [x \in DOMAIN @ \ {g} |-> @[x]],
            !.parents = [x \in DOMAIN @ \ {g} |-> @[x]]]

\* removeConstGatesRecursivelyIfFlagged(TWIN | MARKED_PARENTS).
PullUp(h, g, s, held) ==
  LET constant == IndirectConstant(h, h.in[g][s])
  IN  IF constant = {} THEN h
      ELSE SetSlot(MakeGate(h, CHOOSE k \in constant : TRUE, <<>>), g, s, h.next, held)

RECURSIVE RemoveConstGates(_, _, _)
RemoveConstGates(h, g, pins) ==
  LET held == pins \cup {g}
      Slot(hh, s) == PullUp(RemoveConstGates(hh, hh.in[g][s], held), g, s, held)
  IN  IF g \notin DOMAIN h.twin \cup DOMAIN h.parents THEN h
      ELSE FoldLeft(Slot, Release(ResetTwinAndParents(h, g), held), Slots(h, g))

ConstantFree(h, g) == IF g \in DOMAIN h.twin THEN h.twin[g] ELSE g

\* getConstantFreeTwin, when the inputs have theirs.
MakeConstantFree(h, g) ==
  LET ins == [s \in DOMAIN h.in[g] |-> ConstantFree(h, h.in[g][s])]
      kind == [s \in DOMAIN ins |-> h.kind[ins[s]]]
      neutral == Neutral(h.kind[g])
      WithTwin(hh, twin) == [hh EXCEPT !.twin = @ @@ (g :> twin) @@ (twin :> twin)]
  IN  IF h.kind[g] = "NOT" /\ kind[1] \in Constant
      THEN ConstantTwin(h, g, Opposite(kind[1]))
      ELSE IF Bivariate(h, g) /\ (kind[1] = Opposite(neutral) \/ kind[2] = neutral)
      THEN [h EXCEPT !.twin = @ @@ (g :> ins[1])]
      ELSE IF Bivariate(h, g) /\ (kind[1] = neutral \/ kind[2] = Opposite(neutral))
      THEN [h EXCEPT !.twin = @ @@ (g :> ins[2])]
      ELSE IF ins = h.in[g] THEN WithTwin(h, g)
      ELSE WithTwin(MakeGate(h, h.kind[g], ins), h.next)

RECURSIVE WithConstantFree(_, _)
WithConstantFree(h, g) ==
  IF Arity(h.kind[g]) = 0 \/ g \in DOMAIN h.twin THEN h
  ELSE MakeConstantFree(FoldLeft(WithConstantFree, h, h.in[g]), g)

\* resetFlagRecursive(MARKED | LEVEL | TWIN | MULTI_INPUTS_LINK).
Flagged(h) == h.marked \cup h.cached \cup DOMAIN h.level \cup DOMAIN h.twin

RECURSIVE Through(_, _)
Through(h, gates) ==
  LET next == (UNION {Children(h, g) : g \in gates} \cap Flagged(h)) \ gates
  IN  IF next = {} THEN gates ELSE Through(h, gates \cup next)

ResetFlagRecursive(h, g) ==
  LET reset == Through(h, {g})
  IN  [h EXCEPT !.marked = @ \ reset, !.cached = @ \ reset,
                !.level = [x \in DOMAIN @ \ reset |-> @[x]],
                !.twin = [x \in DOMAIN @ \ reset |-> @[x]]]

-----------------------------------------------------------------------------
(* The recursion of simplifyRecursively3.                                  *)

Frame(g) == [gate |-> g, at |-> "enter", slot |-> 1, done |-> {}, key |-> 0,
             const |-> [k \in Constant |-> 0]]
Call(h, g) == IF Bivariate(h, g) /\ g \notin h.marked THEN <<Frame(g)>> ELSE <<>>

top == Head(stack)
this == top.gate
kind == heap.kind[this]
Pins(frames) ==
  InputGate \cup {output}
    \cup UNION {{fr.gate, fr.key} \cup Range(fr.const) : fr \in Range(frames)}
Keep(h, frames) == Release(h, Pins(frames))

Running(at) == phase = "round" /\ stack # <<>> /\ top.at = at
SetTop(frame) == stack' = <<frame>> \o Tail(stack)

Init ==
  \E netlist \in Circuits :
    /\ heap = LET built == Build(netlist)
              IN  Unflagged(Sweep(built, InputGate \cup {built.next - 1}))
    /\ output = NumOfInputs + Len(netlist)
    /\ stack = <<>> /\ phase = "start"
    /\ oldSize = GateSize(heap, output)
    /\ goal = Table(heap, output)

StartRound ==
  /\ phase = "start"
  /\ stack' = Call(heap, output)
  /\ phase' = "round"
  /\ UNCHANGED <<heap, output, oldSize, goal>>

PartOfTree(h, g) == Len(h.out[g]) = 1 /\ h.kind[h.out[g][1][1]] = h.kind[g]

\* The parent's tree included this gate.
EnterPart ==
  /\ Running("enter")
  /\ PartOfTree(heap, this)
  /\ heap' = [heap EXCEPT !.marked = @ \cup {this}]
  /\ SetTop([top EXCEPT !.at = "calls"])
  /\ UNCHANGED <<output, oldSize, phase, goal>>

EnterTree ==
  LET made == MakeGate(MakeGate(heap, "TRUE", <<>>), "FALSE", <<>>)
      frame == [top EXCEPT !.at = "keys",
                           !.const = [k \in Constant |-> heap.next + (IF k = "TRUE" THEN 0 ELSE 1)]]
  IN  /\ Running("enter")
      /\ ~PartOfTree(heap, this)
      /\ heap' = Keep(WithLinks(made, this), <<frame>> \o Tail(stack))
      /\ SetTop(frame)
      /\ UNCHANGED <<output, oldSize, phase, goal>>

\* Mutant: what was separated is left as it is.
LeftMarked(h) == <<>>
Separated(h) == h.separated

\* Constants are pulled up to this gate, then to the gates separated.
PullUpAll(h, pins) ==
  LET FromGate(hh, g) == RemoveConstGates(hh, g, pins)
  IN  FoldLeft(FromGate, [h EXCEPT !.parents = (this :> 0) @@ @], <<this>> \o Separated(h))

\* The loop over this gate's inputs, then the two loops that pull constants
\* up.  keep is this gate's own link that must stay.
ReplaceEverywhere(c, keep, pins) ==
  LET Slot(h, s) ==
        LET x == h.in[this][s]
        IN  IF x # c.original
            THEN SetToAnswer(ReplaceInput(h, x, c, pins \cup {x}), this, s, pins)
            ELSE IF <<this, s>> = keep THEN h ELSE SetSlot(h, this, s, c.with, pins)
  IN  PullUpAll(FoldLeft(Slot, heap, <<1, 2>>), pins)

\* The next key, which is at its own link what replaced it elsewhere.
ReplaceKey ==
  /\ Running("keys")
  /\ \E key \in DOMAIN heap.links[this] \ top.done :
       LET link == heap.links[this][key]
           frame == [top EXCEPT !.at = "negated", !.key = key, !.done = @ \cup {key}]
           c == [root |-> this, original |-> key, with |-> top.const[Neutral(kind)],
                 protected |-> {link}]
       IN  /\ heap' = ReplaceEverywhere(c, link, Pins(<<frame>> \o Tail(stack)))
           /\ SetTop(frame)
  /\ UNCHANGED <<output, oldSize, phase, goal>>

\* Under a NOT gate its input is replaced, by the opposite constant.
ReplaceNegated ==
  LET notLink == <<top.key, 1>>
      link == heap.links[this][top.key]
      c == [root |-> this, original |-> heap.in[top.key][1],
            with |-> top.const[Opposite(Neutral(kind))], protected |-> {notLink, link}]
      frame == [top EXCEPT !.at = "keys", !.key = 0]
  IN  /\ Running("negated")
      /\ heap' = Keep([(IF heap.kind[top.key] # "NOT" THEN heap
                        ELSE ReplaceEverywhere(c, notLink, Pins(stack)))
                         EXCEPT !.separated = <<>>], <<frame>> \o Tail(stack))
      /\ SetTop(frame)
      /\ UNCHANGED <<output, oldSize, phase, goal>>

LeaveTree ==
  LET frame == [top EXCEPT !.at = "calls", !.done = {}, !.const = [k \in Constant |-> 0]]
  IN  /\ Running("keys")
      /\ DOMAIN heap.links[this] \subseteq top.done
      /\ heap' = Keep([heap EXCEPT !.marked = @ \cup {this}, !.cached = @ \ {this}],
                      <<frame>> \o Tail(stack))
      /\ SetTop(frame)
      /\ UNCHANGED <<output, oldSize, phase, goal>>

CallInput ==
  /\ Running("calls")
  /\ top.slot <= 2
  /\ stack' = Call(heap, heap.in[this][top.slot])
                \o <<[top EXCEPT !.slot = @ + 1]>> \o Tail(stack)
  /\ UNCHANGED <<heap, output, oldSize, phase, goal>>

Return ==
  /\ Running("calls")
  /\ top.slot > 2
  /\ heap' = Keep(heap, Tail(stack))
  /\ stack' = Tail(stack)
  /\ UNCHANGED <<output, oldSize, phase, goal>>

\* No name of a destroyed gate is kept from one round to the next.
Renewed(h) == [h EXCEPT !.next = Max(Live(h)) + 1]

\* Mutant: a round that changes no size counts as progress.
NotLarger(newSize) == newSize <= oldSize
Smaller(newSize) == newSize < oldSize

CleanUp(h, new) ==
  LET pins == InputGate \cup {new}
  IN  Release(ResetFlagRecursive(Release(h, pins), new), pins)

EndRound ==
  LET twinned == WithConstantFree(heap, output)
  IN  /\ phase = "round" /\ stack = <<>>
      /\ output' = ConstantFree(twinned, output)
      /\ heap' = Renewed(CleanUp(twinned, output'))
      /\ oldSize' = GateSize(heap', output')
      /\ phase' = IF Smaller(oldSize') THEN "start" ELSE "done"
      /\ UNCHANGED <<stack, goal>>

Terminated == phase = "done" /\ UNCHANGED vars

Next ==
  \/ StartRound \/ EnterPart \/ EnterTree \/ ReplaceKey \/ ReplaceNegated
  \/ LeaveTree \/ CallInput \/ Return \/ EndRound \/ Terminated

\* The call runs on until it returns: WF_vars(Next), written out because
\* TLC cannot afford ENABLED of the recursive operators above.
Runs == []<>(phase = "done") \/ []<><<Next>>_vars

Spec == Init /\ [][Next]_vars /\ Runs

-----------------------------------------------------------------------------
(* Properties.                                                             *)

\* After every step, also in the middle of a gate's keys, the circuit
\* computes what it did at first: what is replaced by a constant is below
\* the gate that decides, and the input that decides stays in its place.
FunctionKept == Table(heap, output) = goal

\* Before each key no gate of the circuit carries a twin or a count of
\* parents of an earlier one, also where links were moved meanwhile, and
\* between rounds no gate carries any flag.
NoMarkLeft ==
  LET reached == ReachableFrom(heap, {output})
  IN  /\ phase = "round" /\ (stack = <<>> \/ top.at # "negated")
           => reached \cap (DOMAIN heap.twin \cup DOMAIN heap.parents) = {}
      /\ phase # "round" => reached \cap (Flagged(heap) \cup DOMAIN heap.parents) = {}

\* The loop over the keys may erase any key of the map it runs through but
\* the one it is at, before and after the step for the opposite constant.
KeyKept ==
  [][Running("negated") =>
       top.key \in DOMAIN heap.links[this] \cap DOMAIN heap'.links[this]]_vars

\* Whatever a round separates and makes, the rounds come to an end.
SimplifyEnds == <>(phase = "done")
=============================================================================
