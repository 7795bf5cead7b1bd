-------------------------- MODULE MCPrintExecution --------------------------
(***************************************************************************)
(* Instances of PrintExecution for TLC.  Requests, tokens and jobs are     *)
(* model values; every job is prepared for the printer p1 with firmware    *)
(* f1, so that jobs compete for one machine.                               *)
(***************************************************************************)
EXTENDS PrintExecution, TLC

CONSTANTS p1, f1

OnePrinterOf == [j \in Jobs |-> p1]
OnePlanFirmware == [j \in Jobs |-> f1]

Symmetry == Permutations(Calls) \cup Permutations(Tokens) \cup Permutations(Jobs)
=============================================================================
