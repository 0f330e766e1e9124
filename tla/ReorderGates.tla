---------------------------- MODULE ReorderGates ----------------------------
(***************************************************************************)
(* Reordering from a two-input circuit to a two-input circuit              *)
(* (reorderGates, the end of optimizeIteratively): getMultiTwin collects   *)
(* trees of gates of one type into multi-gates, convertToSingleOptimized   *)
(* breaks these up again.                                                  *)
(*                                                                         *)
(* A multi-gate is named by its type and the gate it is the twin of.  Its  *)
(* inputs are in the order of the addresses of the old gates, which are    *)
(* the allocator's choice.                                                 *)
(***************************************************************************)
EXTENDS ConvertToSingle, GateHeap

CONSTANTS
  Circuits,       \* the netlists to reorder
  Addresses       \* the orders of the gates in memory: gate -> address

-----------------------------------------------------------------------------
TwinType(type) ==
  IF type = "AND" THEN "MULTI_AND" ELSE IF type = "OR" THEN "MULTI_OR" ELSE type
MultiTwin(h, g) == <<TwinType(h.kind[g]), g>>

\* getMultiInputs of each gate: what a tree of gates of one type combines.
MultiInputs(h) ==
  LET inputs[g \in Live(h)] ==
        UNION {IF h.kind[x] = h.kind[g] THEN inputs[x] ELSE {x} : x \in Children(h, g)}
  IN  inputs

\* The gates getMultiTwin is called on, a gate inside a tree only if
\* something else uses it too.
Visited(h, g) ==
  Closure([x \in Live(h) |-> IF Bivariate(h, x) THEN MultiInputs(h)[x] ELSE {}], {g})

\* getMultiTwin of the output.
MultiNetwork(h, out, address) ==
  LET visited == Visited(h, out)
      gates == {g \in visited : Bivariate(h, g)}
  IN  [inputIndex |-> [t \in {MultiTwin(h, g) : g \in gates} |->
                         [x \in {MultiTwin(h, y) : y \in MultiInputs(h)[t[2]]} |-> address[x[2]]]],
       table |-> [t \in {MultiTwin(h, g) : g \in visited} |-> Table(h, t[2])],
       output |-> MultiTwin(h, out)]

\* The newest gate of a circuit is its output.
OutputOf(h) == h.next - 1

\* The networks convertToSingleOptimized is called on.
MultiTwins ==
  UNION {LET h == Build(netlist)
         IN  {MultiNetwork(h, OutputOf(h), address) : address \in Addresses} :
         netlist \in Circuits}

-----------------------------------------------------------------------------
ASSUME CircuitsAssumption == \A netlist \in Circuits : IsNetlist(netlist)

\* The gates of the conversion are named as MultiTwin names them.
ASSUME NamesAssumption ==
  /\ Assignment = Valuation
  /\ \A t \in Gate : Kind[t] = t[1]
  /\ \A netlist \in Circuits : LET h == Build(netlist) IN
       \A g \in Live(h) : MultiTwin(h, g) \in Gate

\* No two gates are at one address.
ASSUME AddressesAssumption ==
  \A address \in Addresses, netlist \in Circuits : LET gates == Live(Build(netlist)) IN
    /\ \A g \in gates : address[g] \in 1 .. Cardinality(Gate)
    /\ \A g, x \in gates : address[g] = address[x] => g = x
=============================================================================
