----------------------------- MODULE JobStates -----------------------------
(***************************************************************************)
(* The durable states of a print job and the moves the service allows      *)
(* between them: the JobState enumeration of models.py, the transition     *)
(* table of workflow.py and the set of states database.py treats as        *)
(* interrupted when the service starts.  Every module about jobs extends   *)
(* this one; it has no state of its own.                                   *)
(***************************************************************************)

PreparationStates ==
  {"CREATED", "INGESTED", "INSPECTED", "SLICED", "VALIDATED", "PREFLIGHTED"}

JobState ==
  PreparationStates \cup
  {"AWAITING_APPROVAL", "UPLOADING", "STARTING", "RUNNING", "PAUSED",
   "SUCCEEDED", "FAILED", "CANCELLED"}

TERMINAL_STATES == {"SUCCEEDED", "FAILED", "CANCELLED"}

(* Ended by a restart: a write to the printer may or may not have happened. *)
INTERRUPTED_STATES == {"UPLOADING", "STARTING"}

(* The path of a print for which nothing goes wrong.                       *)
Arrows ==
  {<<"CREATED", "INGESTED">>, <<"INGESTED", "INSPECTED">>, <<"INSPECTED", "SLICED">>,
   <<"SLICED", "VALIDATED">>, <<"VALIDATED", "PREFLIGHTED">>,
   <<"PREFLIGHTED", "AWAITING_APPROVAL">>, <<"AWAITING_APPROVAL", "UPLOADING">>,
   <<"UPLOADING", "STARTING">>, <<"STARTING", "RUNNING">>,
   <<"RUNNING", "PAUSED">>, <<"PAUSED", "RUNNING">>, <<"RUNNING", "SUCCEEDED">>}

Forward == [s \in JobState |-> {t \in JobState : <<s, t>> \in Arrows}]

ALLOWED_TRANSITIONS ==
  [s \in JobState |->
     IF s \in TERMINAL_STATES THEN {} ELSE Forward[s] \cup {"FAILED", "CANCELLED"}]

(* _transition: the state after asking for `target`; a target the table    *)
(* does not list raises ConflictError and leaves the row as it was.        *)
Transitioned(s, target) ==
  IF target \in ALLOWED_TRANSITIONS[s] THEN target ELSE s

(* A bug: a job that has ended fails once more.                            *)
FailedAgain(s) == "FAILED"

(* _fail_job: a job that has not ended becomes FAILED.                     *)
Failed(s) == IF s \in TERMINAL_STATES THEN s ELSE "FAILED"

(* Bugs: a restart forgets the jobs caught in STARTING, or lines           *)
(* interrupted jobs up for another execution.                              *)
RecoveredUploads(s) == IF s = "UPLOADING" THEN "FAILED" ELSE s
RecoveredForRetry(s) == IF s \in INTERRUPTED_STATES THEN "AWAITING_APPROVAL" ELSE s

(* recover_interrupted_jobs, for one row.                                  *)
Recovered(s) == IF s \in INTERRUPTED_STATES THEN "FAILED" ELSE s
=============================================================================
