--------------------------- MODULE MCMqttCommands ---------------------------
(***************************************************************************)
(* Instances of MqttCommands for TLC.                                      *)
(***************************************************************************)
EXTENDS MqttCommands

(* Another client of the printer was told of a success under our number 1. *)
MCForeignReports == {[number |-> 1, result |-> "success"]}
=============================================================================
