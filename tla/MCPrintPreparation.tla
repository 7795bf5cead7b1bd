------------------------- MODULE MCPrintPreparation -------------------------
(***************************************************************************)
(* Instances of PrintPreparation for TLC: every kind of artifact and route *)
(* that takes another path, and printer states that tell preflights apart. *)
(***************************************************************************)
EXTENDS PrintPreparation

Slot(f, nozzle, slot) ==
  [filament_index |-> f, nozzle |-> nozzle, ams_slot |-> slot, external_spool |-> FALSE,
   fts_channel |-> None]
Spool(f, nozzle, channel) ==
  [filament_index |-> f, nozzle |-> nozzle, ams_slot |-> None, external_spool |-> TRUE,
   fts_channel |-> channel]

(* Two nozzles, out of order; a track switch; no route; a missing route.   *)
ManyRequests ==
  {[kind |-> "stl", slice |-> [filaments |-> 2,
      material_routes |-> <<Slot(1, "left", 31), Spool(0, "right", None)>>]],
   [kind |-> "stl", slice |-> [filaments |-> 1, material_routes |-> <<Spool(0, "left", 0)>>]],
   [kind |-> "gcode-3mf", slice |-> [filaments |-> 1, material_routes |-> <<>>]],
   [kind |-> "3mf", slice |-> [filaments |-> 2, material_routes |-> <<Slot(0, "left", 3)>>]]}

ManySightings ==
  {[gcode |-> "IDLE", hms |-> FALSE, ams |-> TRUE],
   [gcode |-> "FINISH", hms |-> FALSE, ams |-> FALSE],
   [gcode |-> "IDLE", hms |-> TRUE, ams |-> TRUE],
   [gcode |-> "FAILED", hms |-> FALSE, ams |-> TRUE]}
=============================================================================
