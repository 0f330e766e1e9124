------------------------------ MODULE GateHeap ------------------------------
(***************************************************************************)
(* Gates and the links between them (Gate, Link, BivariateGate, NotGate).  *)
(*                                                                         *)
(* A heap h is a record of functions on the live gates: kind, the gates at *)
(* the input slots (in), and the links to the parents in list order (out); *)
(* id numbers the inputs, next names the next gate.  A link is named by    *)
(* the gate at its output and the slot there, which never change.  Links   *)
(* own their inputs, so what no pinned gate reaches is destroyed: Sweep,   *)
(* used wherever the code drops an owner.  GateGraph has the destructors   *)
(* one by one.  Modules that annotate gates add fields to the record.      *)
(*                                                                         *)
(* Abstraction.  A freed address is not used again: names are fresh.       *)
(***************************************************************************)
EXTENDS Naturals, SequencesExt

CONSTANT NumOfInputs     \* inputs are the gates 1 .. NumOfInputs

ASSUME InputsAssumption == NumOfInputs \in Nat

InputGate == 1 .. NumOfInputs
Arity(kind) == CASE kind \in {"AND", "OR"} -> 2
                 [] kind = "NOT" -> 1
                 [] kind \in {"INPUT", "TRUE", "FALSE"} -> 0
Bivariate(h, g) == h.kind[g] \in {"AND", "OR"}
Dual(kind) == IF kind = "AND" THEN "OR" ELSE "AND"

Live(h) == DOMAIN h.kind
Children(h, g) == Range(h.in[g])
Links(h) == {link \in Live(h) \X {1, 2} : link[2] \in DOMAIN h.in[link[1]]}

-----------------------------------------------------------------------------
(* Construction and rewiring.                                              *)

Push(links, link) == Append(links, link)

Attach(out, g, ins) ==    \* a Link for each slot of the new gate g
  LET Enter(lists, s) == [lists EXCEPT ![ins[s]] = Push(@, <<g, s>>)]
  IN  FoldLeft(Enter, out, [s \in DOMAIN ins |-> s])

Extended(f, x, v) == [y \in DOMAIN f \cup {x} |-> IF y = x THEN v ELSE f[y]]

MakeGate(h, kind, ins) ==
  [h EXCEPT !.kind = Extended(@, h.next, kind), !.in = Extended(@, h.next, ins),
            !.out = Attach(Extended(@, h.next, <<>>), h.next, ins), !.next = @ + 1]

\* Link::setInput, before what it drops is destroyed.
SetInput(h, g, s, new) ==
  [h EXCEPT !.in[g][s] = new, !.out[h.in[g][s]] = Remove(@, <<g, s>>),
            !.out[new] = Push(@, <<g, s>>)]

\* What can be come to from start, next being what each member leads to.
Closure(next, start) ==
  LET reach[S \in SUBSET DOMAIN next] ==
        LET more == (UNION {next[x] : x \in S}) \ S
        IN  IF more = {} THEN S ELSE reach[S \cup more]
  IN  reach[start]

ReachableFrom(h, gates) == Closure([g \in Live(h) |-> Children(h, g)], gates)

\* Destroy every gate that is not kept.
KeepOnly(h, kept) ==
  LET OwnerKept(link) == link[1] \in kept
  IN  [h EXCEPT !.kind = [g \in kept |-> @[g]], !.in = [g \in kept |-> @[g]],
                !.out = [g \in kept |-> SelectSeq(@[g], OwnerKept)]]

\* Destroy every gate that neither a pin nor a surviving link owns.
Sweep(h, pins) == KeepOnly(h, ReachableFrom(h, pins))

-----------------------------------------------------------------------------
(* What a gate computes and what it costs.                                 *)

Valuation == SUBSET InputGate        \* the inputs that are true

Tables(h) ==             \* getValue: the assignments that make each gate true
  LET t[g \in Live(h)] ==
        CASE h.kind[g] = "INPUT" -> {a \in Valuation : h.id[g] \in a}
          [] h.kind[g] = "TRUE" -> Valuation
          [] h.kind[g] = "FALSE" -> {}
          [] h.kind[g] = "NOT" -> Valuation \ t[h.in[g][1]]
          [] h.kind[g] = "AND" -> t[h.in[g][1]] \cap t[h.in[g][2]]
          [] OTHER -> t[h.in[g][1]] \cup t[h.in[g][2]]
  IN  t

Table(h, g) == Tables(h)[g]

GateSize(h, g) == Cardinality(ReachableFrom(h, {g}))      \* getSize

-----------------------------------------------------------------------------
(* A circuit as built: the inputs, then one gate after the other.          *)

InputsOnly ==
  [kind |-> [g \in InputGate |-> "INPUT"], in |-> [g \in InputGate |-> <<>>],
   out |-> [g \in InputGate |-> <<>>], id |-> [g \in InputGate |-> g],
   next |-> NumOfInputs + 1]

AddGate(h, spec) == MakeGate(h, spec[1], Tail(spec))
AddGates(h, netlist) ==
  LET added[n \in 0 .. Len(netlist)] ==
        IF n = 0 THEN h ELSE AddGate(added[n - 1], netlist[n])
  IN  added[Len(netlist)]
Build(netlist) == AddGates(InputsOnly, netlist)

\* A gate of a netlist is built from older gates.  The last one is the output.
IsNetlist(netlist) ==
  /\ Len(netlist) \in Nat /\ NumOfInputs + Len(netlist) # 0
  /\ \A n \in 1 .. Len(netlist) :
       \/ netlist[n] \in {<<"TRUE">>, <<"FALSE">>}
       \/ \E x \in 1 .. NumOfInputs + n - 1 : netlist[n] = <<"NOT", x>>
       \/ \E kind \in {"AND", "OR"}, x, y \in 1 .. NumOfInputs + n - 1 :
            netlist[n] = <<kind, x, y>>

\* A gate's inputs are older than it is: no path of links is a circle.
Layered(h) ==
  /\ h.next \in Nat \ {0} /\ DOMAIN h.in = Live(h)
  /\ InputGate \subseteq Live(h) /\ Live(h) \subseteq 1 .. h.next - 1
  /\ \A g \in InputGate : h.kind[g] = "INPUT" /\ h.id[g] = g
  /\ \A g \in Live(h) :
       /\ h.kind[g] \in {"TRUE", "FALSE", "NOT", "AND", "OR"} \/ g \in InputGate
       /\ DOMAIN h.in[g] = 1 .. Arity(h.kind[g])
       /\ Children(h, g) \subseteq Live(h) \cap 1 .. g - 1
=============================================================================
