-------------------------- MODULE PrintPreparation --------------------------
(***************************************************************************)
(* prepare_print_pipeline and the slicer sidecar it calls: a job's row is  *)
(* created, its artifact inspected and transformed, sliced (unless it came *)
(* sliced), validated, checked against the printer's live state, and its   *)
(* plan offered for approval.  Between its awaits (slicer readiness, slice *)
(* request, printer status) a preparation holds the event loop; each       *)
(* commit in between is a step of its own because the service may be       *)
(* restarted after it.  Meanwhile other preparations run, and monitor_job  *)
(* and cancel_job move the job.  The sidecar serves every request as soon  *)
(* as it arrives and goes on when its client stopped waiting.              *)
(***************************************************************************)
EXTENDS JobStates, MaterialMapping

CONSTANTS
  Jobs,       \* jobs that will be prepared, all for one printer
  Requests,   \* what they ask for: artifact kind and slice settings
  Sightings,  \* printer states that reports can show
  Restarts,   \* whether the service restarts
  Cancels,    \* whether clients cancel their requests
  NoJob, NoPlan

Mappings == {Mapping(r.slice) : r \in {q \in Requests : Mappable(q.slice)}}

(* What of a plan matters here.                                            *)
Plans == [output : Jobs, verified : BOOLEAN, sighting : Sightings, mapping : Mappings]

ASSUME ConstantsAssumption ==
  /\ Requests \subseteq [kind : {"stl", "3mf", "gcode-3mf"}, slice : SliceSettings]
  /\ Sightings \subseteq [gcode : {"IDLE", "FINISH", "RUNNING", "FAILED"}, hms : BOOLEAN, ams : BOOLEAN]
  /\ {Restarts, Cancels} \subseteq BOOLEAN
  /\ NoJob \notin Jobs
  /\ NoPlan \notin Plans

VARIABLES
  job,        \* Job.state; "absent" before the row exists
  request,    \* the PreparePrintRequest of each job
  output,     \* Job.output_artifact_id: the job whose effective artifact it is a slice of
  plan,       \* Job.plan
  pc,         \* where each preparation is
  process,    \* the Bambu Studio process the sidecar ran for each job
  workspace,  \* output.gcode.3mf in each work directory: whose slice it is
  verified,   \* Printer.hardware_verified
  withdrawn,  \* hardware_verified has been taken back
  reported    \* MQTTCommandClient.state of the printer

rows    == <<job, request, output, plan>>
sidecar == <<process, workspace>>
printer == <<verified, withdrawn, reported>>
vars    == <<rows, pc, sidecar, printer>>

Busy == {"created", "ingested", "inspected", "sliced"}
Suspended == {"ready", "slicing", "status"}
Ended == {"planned", "failed", "abandoned", "lost"}

TypeOK ==
  /\ job \in [Jobs -> JobState \cup {"absent"}]
  /\ request \in [Jobs -> Requests]
  /\ output \in [Jobs -> Jobs \cup {NoJob}]
  /\ plan \in [Jobs -> Plans \cup {NoPlan}]
  /\ pc \in [Jobs -> {"idle"} \cup Busy \cup Suspended \cup Ended]
  /\ process \in [Jobs -> {"none", "running", "written", "failed"}]
  /\ workspace \in [Jobs -> Jobs \cup {NoJob}]
  /\ verified \in BOOLEAN /\ withdrawn \in BOOLEAN
  /\ reported \in Sightings

Init ==
  /\ job = [j \in Jobs |-> "absent"]
  /\ request \in [Jobs -> Requests]
  /\ output = [j \in Jobs |-> NoJob]
  /\ plan = [j \in Jobs |-> NoPlan]
  /\ pc = [j \in Jobs |-> "idle"]
  /\ process = [j \in Jobs |-> "none"]
  /\ workspace = [j \in Jobs |-> NoJob]
  /\ verified \in BOOLEAN /\ withdrawn = FALSE
  /\ reported \in Sightings

-----------------------------------------------------------------------------
(* The event loop: nothing else happens in the service while a preparation *)
(* is between two awaits.                                                  *)
Quiet == \A j \in Jobs : pc[j] \notin Busy
Turn(j) == Quiet \/ pc[j] \in Busy

PreSliced(j) == request[j].kind = "gcode-3mf"

(* A bug: the pipeline does not reach _fail_job.                           *)
FailSilently(j) ==
  /\ pc' = [pc EXCEPT ![j] = "failed"]
  /\ UNCHANGED <<rows, sidecar, printer>>

(* An exception: _fail_job, and the caller gets the error.                 *)
Fail(j) ==
  /\ pc' = [pc EXCEPT ![j] = "failed"]
  /\ job' = [job EXCEPT ![j] = Failed(@)]
  /\ UNCHANGED <<request, output, plan, sidecar, printer>>

(* A transaction that moves the job; others may have ended it meanwhile,   *)
(* and then the transaction is rolled back and the preparation fails.      *)
Commit(j, target, next) ==
  /\ target \in ALLOWED_TRANSITIONS[job[j]]
  /\ job' = [job EXCEPT ![j] = target]
  /\ pc' = [pc EXCEPT ![j] = next]

-----------------------------------------------------------------------------
(* Up to the slicer.                                                       *)

Create(j) ==
  /\ Quiet /\ pc[j] = "idle"
  /\ job' = [job EXCEPT ![j] = "CREATED"]
  /\ pc' = [pc EXCEPT ![j] = "created"]
  /\ UNCHANGED <<request, output, plan, sidecar, printer>>

Ingest(j) ==
  /\ pc[j] = "created"
  /\ Commit(j, "INGESTED", "ingested")
  /\ UNCHANGED <<request, output, plan, sidecar, printer>>

(* The artifact is transformed if asked for; a model then waits for the    *)
(* slicer, a sliced artifact does not.                                     *)
Inspect(j) ==
  /\ pc[j] = "ingested"
  /\ Commit(j, "INSPECTED", IF PreSliced(j) THEN "inspected" ELSE "ready")
  /\ UNCHANGED <<request, output, plan, sidecar, printer>>

AcceptPreSliced(j) ==
  /\ pc[j] = "inspected"
  /\ Commit(j, "SLICED", "sliced")
  /\ output' = [output EXCEPT ![j] = j]
  /\ UNCHANGED <<request, plan, sidecar, printer>>

-----------------------------------------------------------------------------
(* The sidecar.                                                            *)

(* A bug: the sidecar has one work directory.                              *)
SharedWorkDir(j) == CHOOSE k \in Jobs : TRUE

(* The work directory of a job.                                            *)
WorkDir(j) == j

(* The slicer is ready and the slice request reaches the sidecar, which    *)
(* clears the work directory and starts a process.                         *)
SliceBegin(j) ==
  /\ Quiet /\ pc[j] = "ready"
  /\ pc' = [pc EXCEPT ![j] = "slicing"]
  /\ process' = [process EXCEPT ![j] = "running"]
  /\ workspace' = [workspace EXCEPT ![WorkDir(j)] = NoJob]
  /\ UNCHANGED <<rows, printer>>

(* The process exits with code 0 and its output passes the archive policy. *)
ProcessWrites(j) ==
  /\ process[j] = "running"
  /\ process' = [process EXCEPT ![j] = "written"]
  /\ workspace' = [workspace EXCEPT ![WorkDir(j)] = j]
  /\ UNCHANGED <<rows, pc, printer>>

(* It fails, is killed after 900 seconds, or dies with the sidecar.        *)
ProcessFails(j) ==
  /\ process[j] = "running"
  /\ process' = [process EXCEPT ![j] = "failed"]
  /\ UNCHANGED <<rows, pc, workspace, printer>>

(* The response arrives; the output moves from the work directory to the   *)
(* artifact store.                                                         *)
SliceReturns(j) ==
  /\ Quiet /\ pc[j] = "slicing"
  /\ process[j] = "written" /\ workspace[WorkDir(j)] # NoJob
  /\ Commit(j, "SLICED", "sliced")
  /\ output' = [output EXCEPT ![j] = workspace[WorkDir(j)]]
  /\ workspace' = [workspace EXCEPT ![WorkDir(j)] = NoJob]
  /\ UNCHANGED <<request, plan, process, printer>>

(* The same, for a job that ended meanwhile: the transaction is rolled     *)
(* back, but the file has left the work directory.                         *)
SliceReturnsLate(j) ==
  /\ Quiet /\ pc[j] = "slicing"
  /\ process[j] = "written" /\ workspace[WorkDir(j)] # NoJob
  /\ job[j] \in TERMINAL_STATES
  /\ workspace' = [workspace EXCEPT ![WorkDir(j)] = NoJob]
  /\ pc' = [pc EXCEPT ![j] = "failed"]
  /\ UNCHANGED <<rows, process, printer>>

-----------------------------------------------------------------------------
(* Validation, preflight and plan.                                         *)

(* material_mapping rejects bad routes; FTS routes need verified hardware. *)
Routable(j) ==
  /\ Mappable(request[j].slice)
  /\ UsesFts(request[j].slice) => verified

Validate(j) ==
  /\ pc[j] = "sliced"
  /\ Routable(j)
  /\ Commit(j, "VALIDATED", "status")
  /\ UNCHANGED <<request, output, plan, sidecar, printer>>

(* _preflight, on the state the printer reported last.                     *)
Idle(j, sighting) ==
  /\ sighting.gcode \in {"IDLE", "FINISH"}
  /\ ~sighting.hms
  /\ Mapping(request[j].slice).use_ams => sighting.ams

(* PREFLIGHTED, the plan and AWAITING_APPROVAL are one transaction.        *)
Preflight(j) ==
  /\ Quiet /\ pc[j] = "status"
  /\ Idle(j, reported)
  /\ "PREFLIGHTED" \in ALLOWED_TRANSITIONS[job[j]]
  /\ job' = [job EXCEPT ![j] = "AWAITING_APPROVAL"]
  /\ plan' = [plan EXCEPT ![j] =
       [output |-> output[j], verified |-> verified, sighting |-> reported,
        mapping |-> Mapping(request[j].slice)]]
  /\ pc' = [pc EXCEPT ![j] = "planned"]
  /\ UNCHANGED <<request, output, sidecar, printer>>

(* Any step may raise: a transform, the archive policy, the slicer and its *)
(* timeout, the gateway, the preflight, a transition that is no longer     *)
(* allowed.                                                                *)
Raise(j) == pc[j] \in Busy \cup Suspended /\ Turn(j) /\ Fail(j)

(* CancelledError is no Exception: the job stays where it is.              *)
Abandon(j) ==
  /\ Cancels /\ Quiet /\ pc[j] \in Suspended
  /\ pc' = [pc EXCEPT ![j] = "abandoned"]
  /\ UNCHANGED <<rows, sidecar, printer>>

-----------------------------------------------------------------------------
(* The rest of the service, the printer and its operators.                 *)

(* monitor_job on a job being prepared: of the states the printer can      *)
(* report, only a failure is a transition of the job.                      *)
Monitor(j) ==
  /\ Quiet /\ job[j] # "absent" /\ reported.gcode = "FAILED"
  /\ "FAILED" \in ALLOWED_TRANSITIONS[job[j]]
  /\ job' = [job EXCEPT ![j] = "FAILED"]
  /\ UNCHANGED <<request, output, plan, pc, sidecar, printer>>

(* cancel_job, once its approved stop was acknowledged.                    *)
Cancel(j) ==
  /\ Quiet /\ job[j] # "absent"
  /\ "CANCELLED" \in ALLOWED_TRANSITIONS[job[j]]
  /\ job' = [job EXCEPT ![j] = "CANCELLED"]
  /\ UNCHANGED <<request, output, plan, pc, sidecar, printer>>

Report(sighting) ==
  /\ Quiet /\ reported # sighting
  /\ reported' = sighting
  /\ UNCHANGED <<rows, pc, sidecar, verified, withdrawn>>

(* hardware_verified is only ever changed by hand: it is set once the      *)
(* hardware was seen to work, and may be taken back; once is the bound.    *)
Verify ==
  /\ Quiet /\ ~withdrawn
  /\ verified' = ~verified
  /\ withdrawn' = verified
  /\ UNCHANGED <<rows, pc, sidecar, reported>>

(* The service stops and starts; recovery leaves preparations alone.       *)
Restart ==
  /\ Restarts
  /\ \E j \in Jobs : pc[j] \in Busy \cup Suspended
  /\ pc' = [j \in Jobs |-> IF pc[j] \in Busy \cup Suspended THEN "lost" ELSE pc[j]]
  /\ job' = [j \in Jobs |-> IF job[j] = "absent" THEN "absent" ELSE Recovered(job[j])]
  /\ UNCHANGED <<request, output, plan, sidecar, printer>>

Progress(j) ==
  \/ Ingest(j) \/ Inspect(j) \/ AcceptPreSliced(j) \/ SliceBegin(j)
  \/ SliceReturns(j) \/ SliceReturnsLate(j) \/ Validate(j) \/ Preflight(j) \/ Raise(j)

Next ==
  \/ \E j \in Jobs :
       \/ Create(j) \/ Progress(j) \/ Abandon(j)
       \/ ProcessWrites(j) \/ ProcessFails(j)
       \/ Monitor(j) \/ Cancel(j)
  \/ \E s \in Sightings : Report(s)
  \/ Verify \/ Restart

Spec == Init /\ [][Next]_vars

(* Every await is bounded by a timeout, so that a preparation that can do  *)
(* nothing else raises.                                                    *)
FairSpec == Spec /\ \A j \in Jobs : WF_vars(Progress(j))

-----------------------------------------------------------------------------
(* Properties.                                                             *)

(* What can be approved is complete: a plan that names the job's own       *)
(* sliced artifact, seen on an idle, healthy printer that had what the     *)
(* routes need, and no FTS route without verified hardware.  The flag is   *)
(* looked at before the await of the printer's status and copied into the  *)
(* plan after it, so all this says of a plan is that the hardware was      *)
(* verified unless somebody took the flag back.                            *)
ApprovableIsComplete ==
  \A j \in Jobs :
    job[j] = "AWAITING_APPROVAL" =>
      /\ plan[j] # NoPlan
      /\ plan[j].output = j /\ output[j] = j
      /\ Idle(j, plan[j].sighting)
      /\ UsesFts(request[j].slice) => plan[j].verified \/ withdrawn

(* The mapping that is offered for approval, and later sent to the printer *)
(* as it stands in the plan, routes every filament as the request asked.   *)
PlanRoutesAsAsked ==
  \A j \in Jobs :
    job[j] = "AWAITING_APPROVAL" => SaysWhatWasAsked(plan[j].mapping, request[j].slice)

(* A caller that got an error has no job left behind in a state that       *)
(* somebody could still approve or wait for.                               *)
ErrorMeansEnded == \A j \in Jobs : pc[j] = "failed" => job[j] \in TERMINAL_STATES

(* A job that was cancelled or failed while it was being prepared is never *)
(* taken up again by its preparation, and a plan never changes.            *)
EndedIsFinal ==
  [][\A j \in Jobs :
       /\ job[j] \in TERMINAL_STATES => job'[j] = job[j]
       /\ plan[j] # NoPlan => plan'[j] = plan[j]]_vars

(* A preparation is the beginning of a job's life as JobLifecycle has it,  *)
(* whoever ends the job meanwhile: nothing is uploaded or started.         *)
Row == [j \in Jobs |-> IF job[j] = "absent" THEN "CREATED" ELSE job[j]]
Lifecycle == INSTANCE JobLifecycle WITH job <- Row, spent <- {}, sent <- {}
ImplementsLifecycle == Lifecycle!Spec

(* No preparation takes for ever; its job then waits for approval or has   *)
(* ended, unless its client or the service went away.                      *)
PreparationEnds ==
  \A j \in Jobs :
    job[j] \in PreparationStates ~>
      job[j] \in TERMINAL_STATES \cup {"AWAITING_APPROVAL"} \/ pc[j] \in {"abandoned", "lost"}

-----------------------------------------------------------------------------
(* The inductive invariant of the proofs.                                  *)

(* The state a job is in when its preparation is at a place, unless        *)
(* somebody ended it.                                                      *)
Stage ==
  [idle |-> "absent", created |-> "CREATED", ingested |-> "INGESTED",
   inspected |-> "INSPECTED", ready |-> "INSPECTED", slicing |-> "INSPECTED",
   sliced |-> "SLICED", status |-> "VALIDATED", planned |-> "AWAITING_APPROVAL"]

(* What each place of a preparation says about the job, its output, its    *)
(* routes and its plan.                                                    *)
StageOf(j) ==
  /\ pc[j] \in DOMAIN Stage =>
       \/ job[j] = Stage[pc[j]]
       \/ pc[j] # "idle" /\ job[j] \in TERMINAL_STATES
  /\ pc[j] \in {"sliced", "status", "planned"} => output[j] = j
  /\ pc[j] \in {"status", "planned"} =>
       Mappable(request[j].slice) /\ (UsesFts(request[j].slice) => verified \/ withdrawn)
  /\ job[j] \notin {"UPLOADING", "STARTING", "RUNNING", "PAUSED", "PREFLIGHTED"}
  /\ pc[j] \in {"abandoned", "lost"} => job[j] \notin {"absent", "AWAITING_APPROVAL"}
  /\ plan[j] # NoPlan => pc[j] = "planned"
  /\ pc[j] = "planned" => /\ plan[j] # NoPlan
                          /\ plan[j].output = j
                          /\ Idle(j, plan[j].sighting)
                          /\ plan[j].mapping = Mapping(request[j].slice)
                          /\ UsesFts(request[j].slice) => plan[j].verified \/ withdrawn

StageInv == \A j \in Jobs : StageOf(j)

(* Nobody writes into another job's work directory.                        *)
WorkspaceInv == \A j \in Jobs : workspace[j] \in {NoJob, j}

IndInv == TypeOK /\ StageInv /\ WorkspaceInv /\ ErrorMeansEnded
=============================================================================
