-------------------------- MODULE MCLanConnection --------------------------
(***************************************************************************)
(* Instances of LanConnection for TLC.                                     *)
(***************************************************************************)
EXTENDS LanConnection, TLC

Symmetry == Permutations(Requests)
=============================================================================
