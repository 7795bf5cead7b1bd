-------------------------- MODULE MCPrintDelivery --------------------------
(***************************************************************************)
(* An instance of PrintDelivery for TLC: jobs j1, which needs the AMS, and *)
(* j2, whose outputs have the same size.  The tool stores j2's output      *)
(* under the name of j1's upload, or deletes that.                         *)
(***************************************************************************)
EXTENDS PrintDelivery, TLC

CONSTANTS j1, j2, a1, a2, n1, n2

Sizes == [a \in Artifacts |-> 1]
Outputs == [j \in Jobs |-> IF j = j1 THEN a1 ELSE a2]
RemoteNames == [j \in Jobs |-> IF j = j1 THEN n1 ELSE n2]
NameOfJ1 == {n1} \X {a2, NoArtifact}

(* A report without the tray in use, and one of that tray and the state.   *)
SparseReports == {Fields \ {"ams.tray_now"}, {"gcode_state", "ams.tray_now"}}

Symmetry == Permutations(Calls)
=============================================================================
