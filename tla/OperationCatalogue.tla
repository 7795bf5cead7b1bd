------------------------- MODULE OperationCatalogue -------------------------
(***************************************************************************)
(* capabilities.py: which operations the service knows, what each risks,   *)
(* and the two gates in front of them.  A read-only operation needs no     *)
(* gate, a routine one a writable printer, a guarded or experimental one   *)
(* an approval too, an experimental one also its setting; a forbidden one  *)
(* is never run.                                                           *)
(***************************************************************************)

READ_ONLY == {"get_version", "pushall"}

ROUTINE ==
  {"pause", "resume", "speed", "lights", "camera_recording", "timelapse", "fan"}

GUARDED ==
  {"stop", "skip_objects", "project_file", "temperature", "home", "jog",
   "load_filament", "unload_filament", "ams_settings", "ams_rfid", "ams_drying",
   "calibration", "file_delete", "file_upload", "chamber", "airduct", "extruder"}

EXPERIMENTAL == {"print_options", "pressure_advance", "raw_gcode", "raw_mqtt"}

FORBIDDEN == {"firmware_upgrade", "get_access_code"}

OPERATIONS == READ_ONLY \cup ROUTINE \cup GUARDED \cup EXPERIMENTAL \cup FORBIDDEN

(* The operations with a function of their own in the workflow, and those  *)
(* for which the MCP tools call run_operation.  A print is only ever       *)
(* started, and a report only asked for, by the workflow itself.           *)
FileTools == {"file_upload", "file_delete", "raw_mqtt"}
RunTools == OPERATIONS \ (FORBIDDEN \cup FileTools \cup {"project_file", "pushall"})

(* operation_named returns the operation, and does not raise.              *)
operation_named(name, experimental_enabled) ==
  /\ name \in OPERATIONS \ FORBIDDEN
  /\ name \in EXPERIMENTAL => experimental_enabled

(* The risks for which run_operation wants an approval, and for which      *)
(* approve_guarded_action issues one.                                      *)
NeedsApproval(name) == name \in GUARDED \cup EXPERIMENTAL

(* A registered printer; register_printer admits no model but X2D and N6.  *)
Printer == [developer_mode : BOOLEAN, hardware_verified : BOOLEAN]

(* require_write_allowed returns, and does not raise.                      *)
require_write_allowed(printer, allow_unverified_x2d_writes) ==
  /\ printer.developer_mode
  /\ printer.hardware_verified \/ allow_unverified_x2d_writes
=============================================================================
