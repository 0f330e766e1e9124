---------------------------- MODULE CheckedCircuit ----------------------------
(***************************************************************************)
(* What the driver does around an optimiser: a random circuit is made, and *)
(* in the end it is compared with another one (main.cpp, original==circ1). *)
(* The other circuit is here the random one with the inputs of its gates   *)
(* in the other order, or with its first two-input gate of the dual kind.  *)
(***************************************************************************)
EXTENDS RandomCircuit, CircuitComparison

-----------------------------------------------------------------------------
\* The gate that an element is: the inputs come first, constants next.
GateOf(e) ==
  IF IsConstant(e) THEN NumOfInputs + e
  ELSE IF elements[e].kind = "INPUT" THEN e - (leaves - NumOfInputs)
  ELSE e

\* A gate's first input is the one that was made earlier, or the later one.
GateSpec(e, earlierFirst) ==
  LET ins == {GateOf(x) : x \in elements[e].ins}
      first == IF earlierFirst THEN Min(ins) ELSE Max(ins)
      second == IF earlierFirst THEN Max(ins) ELSE Min(ins)
  IN  CASE IsConstant(e) -> <<elements[e].kind>>
        [] elements[e].kind = "NOT" -> <<"NOT", first>>
        [] OTHER -> <<elements[e].kind, first, second>>

Netlist(earlierFirst) ==
  LET constants == leaves - NumOfInputs
      Made(n) == IF n <= constants THEN n ELSE n + NumOfInputs
  IN  [n \in 1 .. Len(elements) - NumOfInputs |-> GateSpec(Made(n), earlierFirst)]

DualOfFirst(netlist) ==
  LET bivariate == {n \in DOMAIN netlist : netlist[n][1] \in {"AND", "OR"}}
  IN  {[netlist EXCEPT ![Min(bivariate)][1] = Dual(@)] : n \in bivariate}

-----------------------------------------------------------------------------
CheckedInit == Init /\ CompareInit

Output == GateOf((CHOOSE p \in ordered : TRUE)[2])     \* the one that is left

CompareWithOther ==
  /\ phase = "done"
  /\ \E other \in {Netlist(FALSE)} \cup DualOfFirst(Netlist(TRUE)) :
       Call(Build(Netlist(TRUE)), Build(other), Output, InputGate)

CheckedNext ==
  \/ Next /\ UNCHANGED compareVars
  \/ (CompareWithOther \/ Compare) /\ UNCHANGED vars

CheckedSpec == CheckedInit /\ [][CheckedNext]_<<vars, compareVars>>
=============================================================================
