--------------------------- MODULE MCCheckedCircuit ---------------------------
(***************************************************************************)
(* Circuits of three inputs for which three gates are asked for, with and  *)
(* without constants; two numbers, so that equal ones occur.               *)
(***************************************************************************)
EXTENDS CheckedCircuit
=============================================================================
