-------------------------- MODULE MCGuardedActions --------------------------
(***************************************************************************)
(* Instances of GuardedActions for TLC: every job is prepared for p1; p2   *)
(* is another registered printer, in Developer Mode as well.          *)
(***************************************************************************)
EXTENDS GuardedActions, TLC

CONSTANTS p1, lights, gcode, erase, raw, upgrade

OnePrinterOf == [j \in Jobs |-> p1]

SomeOperations ==
  [a \in Actions |->
     CASE a = lights -> "lights" [] a = gcode -> "raw_gcode"
       [] a = erase -> "file_delete" [] a = raw -> "raw_mqtt" [] a = upgrade -> "raw_mqtt"]

BothWritable == [p \in Printers |-> [developer_mode |-> TRUE, hardware_verified |-> FALSE]]

Symmetry == Permutations(Calls) \cup Permutations(Tokens) \cup Permutations(Jobs)
=============================================================================
