--------------------------- MODULE PrintExecution ---------------------------
(***************************************************************************)
(* The print workflow from an approved plan to the end of the print:       *)
(* approvals, execute_print_pipeline, cancel_job, pause_and_diagnose,      *)
(* resume_job, the guarded stop of run_operation, monitor_job and the      *)
(* recovery of a restarted service, interleaved at every `await`, over a   *)
(* printer that executes the published commands in any order.             *)
(*                                                                         *)
(* One asyncio loop runs all requests, so what a coroutine does between    *)
(* two awaits is one action here.  pc[c] names the await request c is      *)
(* suspended in.  The database (job, firmware, approval) survives a crash; *)
(* requests and the cached printer report do not; commands already on the  *)
(* wire and the printer live outside the service.                          *)
(***************************************************************************)
EXTENDS JobStates

CONSTANTS
  Jobs, Printers, Tokens,
  Calls,         \* the requests a behaviour may contain, each made once
  Kinds,         \* the kinds of request they may be
  Cancellable,   \* the requests whose task may be cancelled by their client
  PrinterOf,     \* the printer a job was prepared for
  Firmwares, PlanFirmware,  \* versions, and the one bound into each plan
  Writable,      \* printers on which require_write_allowed lets mutations pass
  NoJob, NoToken

CallKinds == {"execute", "cancel", "stop_printer", "pause", "resume"}
GuardedKinds == {"cancel", "stop_printer"}

ASSUME ConstantsAssumption ==
  /\ Kinds \subseteq CallKinds
  /\ Cancellable \subseteq Calls
  /\ PrinterOf \in [Jobs -> Printers]
  /\ PlanFirmware \in [Jobs -> Firmwares]
  /\ Writable \subseteq Printers
  /\ NoJob \notin Jobs
  /\ NoToken \notin Tokens

VARIABLES
  up,        \* the service process is running
  job,       \* Job.state
  firmware,  \* Printer.firmware, as last discovered
  approval,  \* the approvals table, by token
  pc,        \* where each request is suspended
  req,       \* what each request asks for
  token,     \* the approval each request has consumed
  wire,      \* the printer command of each request
  printer,   \* what each printer is doing, and for which job
  reported   \* gcode_state in the state cached by each printer's gateway

durable == <<job, firmware, approval>>
requests == <<pc, req, token>>
world == <<wire, printer>>
vars == <<up, durable, requests, world, reported>>

PCs == {"idle", "status", "gateway", "upload", "publish", "ack", "done", "abandoned"}
Suspended == {"status", "gateway", "upload", "publish", "ack"}
GcodeStates == {"IDLE", "RUNNING", "PAUSE", "FINISH", "FAILED"}

NoApproval == [status |-> "none", job |-> NoJob, op |-> "none", state |-> "none"]
NoRequest == [kind |-> "none", job |-> NoJob]

Approvals ==
  [status : {"none", "live", "expired", "used"}, job : Jobs \cup {NoJob},
   op : CallKinds \cup {"none"}, state : JobState \cup {"none"}]
Requests == [kind : CallKinds \cup {"none"}, job : Jobs \cup {NoJob}]

TypeOK ==
  /\ up \in BOOLEAN
  /\ job \in [Jobs -> JobState]
  /\ firmware \in [Printers -> Firmwares]
  /\ approval \in [Tokens -> Approvals]
  /\ pc \in [Calls -> PCs]
  /\ req \in [Calls -> Requests]
  /\ token \in [Calls -> Tokens \cup {NoToken}]
  /\ wire \in [Calls -> {"unsent", "sent", "accepted", "rejected"}]
  /\ printer \in [Printers -> [gcode : GcodeStates, job : Jobs \cup {NoJob}]]
  /\ reported \in [Printers -> GcodeStates \cup {"UNKNOWN"}]

(* Prepared jobs await approval; nothing has been asked of the service yet. *)
Init ==
  /\ up = TRUE
  /\ job = [j \in Jobs |-> "AWAITING_APPROVAL"]
  /\ firmware \in [Printers -> Firmwares]
  /\ approval = [t \in Tokens |-> NoApproval]
  /\ pc = [c \in Calls |-> "idle"]
  /\ req = [c \in Calls |-> NoRequest]
  /\ token = [c \in Calls |-> NoToken]
  /\ wire = [c \in Calls |-> "unsent"]
  /\ printer = [p \in Printers |-> [gcode |-> "IDLE", job |-> NoJob]]
  /\ reported = [p \in Printers |-> "UNKNOWN"]

-----------------------------------------------------------------------------
(* Approvals.  A digest is the operation it authorises and the job state   *)
(* hashed with it; the plan's digest stands for operation "execute", which *)
(* is only ever compared while the job awaits approval.                    *)

IssueApproval(t, j, op) ==
  /\ up /\ approval[t] = NoApproval
  /\ approval' = [approval EXCEPT ![t] =
       [status |-> "live", job |-> j, op |-> op, state |-> job[j]]]
  /\ UNCHANGED <<up, job, firmware, requests, world, reported>>

ApprovePlan(t, j) ==
  /\ job[j] = "AWAITING_APPROVAL"
  /\ IssueApproval(t, j, "execute")

ApproveGuarded(t, j, op) ==
  /\ job[j] \notin TERMINAL_STATES
  /\ IssueApproval(t, j, op)

Expire(t) ==
  /\ approval[t].status = "live"
  /\ approval' = [approval EXCEPT ![t].status = "expired"]
  /\ UNCHANGED <<up, job, firmware, requests, world, reported>>

(* A bug: the query for the token's row forgets the job.                   *)
ConsumableForAnyJob(t, j, op) ==
  approval[t].status = "live" /\ approval[t].op = op /\ approval[t].state = job[j]

(* _consume_approval's tests: the token's row belongs to the job, is       *)
(* unused, unexpired and bound to the digest computed from the job now.    *)
Consumable(t, j, op) ==
  /\ approval[t].job = j
  /\ approval[t].status = "live"
  /\ approval[t].op = op
  /\ approval[t].state = job[j]

(* A bug: used_at is never written.                                        *)
ConsumeUnmarked(c, t) ==
  token' = [token EXCEPT ![c] = t] /\ UNCHANGED approval

Consume(c, t) ==
  /\ approval' = [approval EXCEPT ![t].status = "used"]
  /\ token' = [token EXCEPT ![c] = t]

-----------------------------------------------------------------------------
(* Requests.                                                               *)

Begin(c, kind, j, at) ==
  /\ up /\ pc[c] = "idle" /\ kind \in Kinds
  /\ req' = [req EXCEPT ![c] = [kind |-> kind, job |-> j]]
  /\ pc' = [pc EXCEPT ![c] = at]

FailJob(j) == job' = [job EXCEPT ![j] = Failed(@)]

(* The state check, the consumption and the gates before the first await.  *)
(* A gate that does not hold raises inside the try block: the token is     *)
(* spent and the job FAILED.                                               *)
ExecuteBegin(c, j, t) ==
  LET gate == /\ PrinterOf[j] \in Writable
              /\ firmware[PrinterOf[j]] = PlanFirmware[j]
  IN  /\ job[j] = "AWAITING_APPROVAL"
      /\ Consumable(t, j, "execute")
      /\ Consume(c, t)
      /\ Begin(c, "execute", j, IF gate THEN "status" ELSE "done")
      /\ IF gate THEN UNCHANGED job ELSE FailJob(j)
      /\ UNCHANGED <<up, firmware, world, reported>>

At(c, kind, at) == up /\ pc[c] = at /\ req[c].kind = kind

(* A bug: the transition is written without reading the state it leaves.   *)
AdvanceBlindlyTo(c, target, at) ==
  /\ job' = [job EXCEPT ![req[c].job] = target]
  /\ pc' = [pc EXCEPT ![c] = at]

(* _advance: commit `target` and go on to the next await, or, when the job *)
(* has moved meanwhile, let ConflictError fail what is left of it.         *)
AdvanceTo(c, target, at) ==
  LET j == req[c].job IN
  IF target \in ALLOWED_TRANSITIONS[job[j]]
    THEN /\ job' = [job EXCEPT ![j] = target]
         /\ pc' = [pc EXCEPT ![c] = at]
    ELSE /\ FailJob(j)
         /\ pc' = [pc EXCEPT ![c] = "done"]

(* The gateway's status call answers and _preflight accepts it.            *)
ExecutePreflight(c) ==
  /\ At(c, "execute", "status")
  /\ reported[PrinterOf[req[c].job]] \in {"IDLE", "FINISH"}
  /\ AdvanceTo(c, "UPLOADING", "upload")
  /\ UNCHANGED <<up, firmware, approval, req, token, world, reported>>

ExecuteUploaded(c) ==
  /\ At(c, "execute", "upload")
  /\ AdvanceTo(c, "STARTING", "publish")
  /\ UNCHANGED <<up, firmware, approval, req, token, world, reported>>

(* pause_and_diagnose and resume_job test the state they leave; cancel_job *)
(* and run_operation test none.  run_operation requires a writable printer. *)
OperationBegin(c, kind, j) ==
  /\ kind \in CallKinds \ {"execute"}
  /\ kind = "pause" => job[j] = "RUNNING"
  /\ kind = "resume" => job[j] = "PAUSED"
  /\ PrinterOf[j] \in Writable
  /\ Begin(c, kind, j, IF kind \in GuardedKinds THEN "gateway" ELSE "publish")
  /\ UNCHANGED <<up, durable, token, world, reported>>

(* A guarded operation has its gateway: the digest is computed from the    *)
(* job as it is now and the approval consumed before anything is sent.     *)
OperationAuthorise(c, t) ==
  LET j == req[c].job IN
  /\ up /\ pc[c] = "gateway"
  /\ Consumable(t, j, req[c].kind)
  /\ Consume(c, t)
  /\ pc' = [pc EXCEPT ![c] = "publish"]
  /\ UNCHANGED <<up, job, firmware, req, world, reported>>

(* The gateway is connected (again) and hands the command to MQTT.         *)
Publish(c) ==
  /\ up /\ pc[c] = "publish"
  /\ wire' = [wire EXCEPT ![c] = "sent"]
  /\ pc' = [pc EXCEPT ![c] = "ack"]
  /\ UNCHANGED <<up, durable, req, token, printer, reported>>

(* The job state after a successful acknowledgement.                       *)
Acknowledged(kind, s) ==
  CASE kind = "execute" -> IF "RUNNING" \in ALLOWED_TRANSITIONS[s]
                             THEN "RUNNING" ELSE Failed(s)
    [] kind = "cancel"  -> Transitioned(s, "CANCELLED")
    [] kind = "pause"   -> Transitioned(s, "PAUSED")
    [] kind = "resume"  -> Transitioned(s, "RUNNING")
    [] OTHER            -> s

(* A bug: an acknowledgement counts as success whatever its result says.   *)
AckAnyResult(c) ==
  /\ up /\ pc[c] = "ack" /\ wire[c] \in {"accepted", "rejected"}
  /\ pc' = [pc EXCEPT ![c] = "done"]
  /\ job' = [job EXCEPT ![req[c].job] = Acknowledged(req[c].kind, @)]
  /\ UNCHANGED <<up, firmware, approval, req, token, world, reported>>

AckSuccess(c) ==
  /\ up /\ pc[c] = "ack" /\ wire[c] = "accepted"
  /\ pc' = [pc EXCEPT ![c] = "done"]
  /\ job' = [job EXCEPT ![req[c].job] = Acknowledged(req[c].kind, @)]
  /\ UNCHANGED <<up, firmware, approval, req, token, world, reported>>

(* Bugs: an exception of any request fails the job; none does; the wait    *)
(* for an acknowledgement has no timeout.                                  *)
AnyCallFailsTheJob(c) ==
  /\ up /\ pc[c] \in Suspended
  /\ pc' = [pc EXCEPT ![c] = "done"]
  /\ FailJob(req[c].job)
  /\ UNCHANGED <<up, firmware, approval, req, token, world, reported>>

NoCallFailsTheJob(c) ==
  /\ up /\ pc[c] \in Suspended
  /\ pc' = [pc EXCEPT ![c] = "done"]
  /\ UNCHANGED <<up, durable, req, token, world, reported>>

CallFailsUnlessAwaitingAck(c) ==
  /\ up /\ pc[c] \in Suspended \ {"ack"}
  /\ pc' = [pc EXCEPT ![c] = "done"]
  /\ IF req[c].kind = "execute" THEN FailJob(req[c].job) ELSE UNCHANGED job
  /\ UNCHANGED <<up, firmware, approval, req, token, world, reported>>

(* An await raises: preflight refused, upload failed, connection lost, no  *)
(* acknowledgement in time, a rejected command, an unusable approval.      *)
(* Only execute_print_pipeline turns that into a FAILED job.               *)
CallFails(c) ==
  /\ up /\ pc[c] \in Suspended
  /\ pc' = [pc EXCEPT ![c] = "done"]
  /\ IF req[c].kind = "execute" THEN FailJob(req[c].job) ELSE UNCHANGED job
  /\ UNCHANGED <<up, firmware, approval, req, token, world, reported>>

(* The client cancels its request: CancelledError is no Exception, so the  *)
(* handler does not run and the job stays where it is.                     *)
Abandon(c) ==
  /\ up /\ c \in Cancellable /\ pc[c] \in Suspended
  /\ pc' = [pc EXCEPT ![c] = "abandoned"]
  /\ UNCHANGED <<up, durable, req, token, world, reported>>

-----------------------------------------------------------------------------
(* Observation, discovery, crash and restart.                              *)

(* A bug: the table of reported states lacks FAILED.                       *)
MonitorTargetWithoutFailed(gcode) ==
  CASE gcode = "RUNNING" -> {"RUNNING"}
    [] gcode = "PAUSE"   -> {"PAUSED"}
    [] gcode = "FINISH"  -> {"SUCCEEDED"}
    [] OTHER             -> {}

MonitorTarget(gcode) ==
  CASE gcode = "RUNNING" -> {"RUNNING"}
    [] gcode = "PAUSE"   -> {"PAUSED"}
    [] gcode = "FINISH"  -> {"SUCCEEDED"}
    [] gcode = "FAILED"  -> {"FAILED"}
    [] OTHER             -> {}

(* A bug: the printer's report is committed without consulting the table.  *)
MonitorBlindly(j) ==
  /\ up
  /\ \E target \in MonitorTarget(reported[PrinterOf[j]]) : job' = [job EXCEPT ![j] = target]
  /\ UNCHANGED <<up, firmware, approval, requests, world, reported>>

(* monitor_job: the job is read again after the await, with the reported   *)
(* state of its printer, whichever print that printer is busy with.        *)
Monitor(j) ==
  /\ up
  /\ \E target \in MonitorTarget(reported[PrinterOf[j]]) \ {job[j]} :
       /\ target \in ALLOWED_TRANSITIONS[job[j]]
       /\ job' = [job EXCEPT ![j] = target]
  /\ UNCHANGED <<up, firmware, approval, requests, world, reported>>

Discover(p, f) ==
  /\ up /\ firmware[p] # f
  /\ firmware' = [firmware EXCEPT ![p] = f]
  /\ UNCHANGED <<up, job, approval, requests, world, reported>>

Report(p) ==
  /\ up /\ reported[p] # printer[p].gcode
  /\ reported' = [reported EXCEPT ![p] = printer[p].gcode]
  /\ UNCHANGED <<up, durable, requests, world>>

Crash ==
  /\ up
  /\ up' = FALSE
  /\ pc' = [c \in Calls |-> IF pc[c] \in Suspended THEN "done" ELSE pc[c]]
  /\ reported' = [p \in Printers |-> "UNKNOWN"]
  /\ UNCHANGED <<durable, req, token, world>>

(* build_container: recovery commits before the first request is served.   *)
Boot ==
  /\ ~up
  /\ up' = TRUE
  /\ job' = [j \in Jobs |-> Recovered(job[j])]
  /\ UNCHANGED <<firmware, approval, requests, world, reported>>

-----------------------------------------------------------------------------
(* The printer.  It executes commands that reached it, in any order and    *)
(* even after their sender stopped waiting, as the contract gateway of     *)
(* gateway.py does; people use it too.                                     *)

Executed(c, state) ==
  CASE req[c].kind = "execute"     -> [gcode |-> "RUNNING", job |-> req[c].job]
    [] req[c].kind \in GuardedKinds -> [gcode |-> "IDLE", job |-> NoJob]
    [] req[c].kind = "pause"       -> [state EXCEPT !.gcode = "PAUSE"]
    [] OTHER                       -> [state EXCEPT !.gcode = "RUNNING"]

PrinterAccepts(c) ==
  /\ wire[c] = "sent"
  /\ wire' = [wire EXCEPT ![c] = "accepted"]
  /\ printer' = [printer EXCEPT ![PrinterOf[req[c].job]] = Executed(c, @)]
  /\ UNCHANGED <<up, durable, requests, reported>>

PrinterRejects(c) ==
  /\ wire[c] = "sent"
  /\ wire' = [wire EXCEPT ![c] = "rejected"]
  /\ UNCHANGED <<up, durable, requests, printer, reported>>

(* What a print or a person at the printer may do next.                    *)
PrinterMoves(gcode) ==
  CASE gcode = "RUNNING" -> {"FINISH", "FAILED", "PAUSE", "IDLE"}
    [] gcode = "PAUSE"   -> {"RUNNING", "IDLE"}
    [] OTHER             -> {"RUNNING", "IDLE"}

PrinterLocal(p) ==
  /\ \E g \in PrinterMoves(printer[p].gcode) :
       LET ours == g \in {"FINISH", "FAILED", "PAUSE"} \/ printer[p].gcode = "PAUSE"
       IN printer' = [printer EXCEPT ![p] =
            [gcode |-> g, job |-> IF ours /\ g # "IDLE" THEN printer[p].job ELSE NoJob]]
  /\ UNCHANGED <<up, durable, requests, wire, reported>>

-----------------------------------------------------------------------------
RequestStep(c) ==
  \/ ExecutePreflight(c) \/ ExecuteUploaded(c)
  \/ \E t \in Tokens : OperationAuthorise(c, t)
  \/ Publish(c) \/ AckSuccess(c) \/ CallFails(c)

Next ==
  \/ \E t \in Tokens, j \in Jobs :
       \/ ApprovePlan(t, j)
       \/ \E op \in GuardedKinds : ApproveGuarded(t, j, op)
       \/ \E c \in Calls : ExecuteBegin(c, j, t)
  \/ \E t \in Tokens : Expire(t)
  \/ \E c \in Calls, j \in Jobs, kind \in Kinds : OperationBegin(c, kind, j)
  \/ \E c \in Calls : RequestStep(c) \/ Abandon(c) \/ PrinterAccepts(c) \/ PrinterRejects(c)
  \/ \E j \in Jobs : Monitor(j)
  \/ \E p \in Printers : Report(p) \/ PrinterLocal(p) \/ \E f \in Firmwares : Discover(p, f)
  \/ Crash \/ Boot

Spec == Init /\ [][Next]_vars

(* Every await of a request is bounded by a timeout, and the container is  *)
(* restarted when it exits.  Nothing is assumed of clients or printers.    *)
Fairness == WF_vars(Boot) /\ \A c \in Calls : WF_vars(RequestStep(c))

FairSpec == Spec /\ Fairness

-----------------------------------------------------------------------------
(* Properties.                                                             *)

IsExecute(c, j) == req[c].kind = "execute" /\ req[c].job = j

(* The start of a plan is sent by at most one execution: however many      *)
(* approvals were issued for it and however its executions interleave with *)
(* each other, with crashes and with recovery, one of them at most ever    *)
(* publishes project_file.  What the printer does with copies of that one  *)
(* publication is MqttCommands' concern.                                   *)
StartedAtMostOnce ==
  \A c, d \in Calls : \A j \in Jobs :
    /\ IsExecute(c, j) /\ IsExecute(d, j)
    /\ wire[c] # "unsent" /\ wire[d] # "unsent"
    => c = d

(* Tokens are consumed before the side effect and never replayed: every    *)
(* guarded command on the wire has an approval of its own, used up, issued *)
(* for that job and that operation.                                        *)
EffectsAreApproved ==
  \A c \in Calls :
    wire[c] # "unsent" /\ req[c].kind \in GuardedKinds \cup {"execute"} =>
      /\ token[c] \in Tokens
      /\ approval[token[c]].status = "used"
      /\ approval[token[c]].job = req[c].job
      /\ approval[token[c]].op = req[c].kind
      /\ \A d \in Calls \ {c} : token[d] # token[c]

(* A job is in an interrupted state, while the service runs, only if the   *)
(* request that put it there is still at work on it or was cancelled by    *)
(* its client: a crash leaves none behind once the service is up again.    *)
InFlightJobIsOwned ==
  \A j \in Jobs :
    up /\ job[j] \in INTERRUPTED_STATES =>
      \E c \in Calls :
        /\ IsExecute(c, j)
        /\ pc[c] \in (IF job[j] = "UPLOADING" THEN {"upload"} ELSE {"publish", "ack"})
                       \cup {"abandoned"}

(* No job gets past AWAITING_APPROVAL, or is considered printed, unless an *)
(* approval of its plan was consumed by an execution.                      *)
NoJobAheadOfItsApproval ==
  \A j \in Jobs :
    job[j] \notin {"AWAITING_APPROVAL", "FAILED", "CANCELLED"} =>
      \E c \in Calls : IsExecute(c, j) /\ token[c] \in Tokens

(* A job is CANCELLED only when the printer acknowledged a stop that was   *)
(* approved for this job as a cancellation.                                *)
CancelledWasStopped ==
  \A j \in Jobs :
    job[j] = "CANCELLED" =>
      \E c \in Calls :
        /\ req[c] = [kind |-> "cancel", job |-> j]
        /\ wire[c] = "accepted"
        /\ token[c] \in Tokens

(* A RUNNING job turns FAILED only on a report of its printer or because   *)
(* another execution of its own plan fails: never by a restart, and never  *)
(* by a failing pause, resume or stop.                                     *)
RunningFailureExplained ==
  [][\A j \in Jobs :
       job[j] = "RUNNING" /\ job'[j] = "FAILED" =>
         \/ reported[PrinterOf[j]] = "FAILED"
         \/ \E c \in Calls : IsExecute(c, j) /\ pc[c] \in Suspended /\ pc'[c] = "done"]_vars

(* Every request comes to an end.                                          *)
RequestsEnd == \A c \in Calls : pc[c] \in Suspended ~> pc[c] \in {"done", "abandoned"}

(* A job does not stay in UPLOADING or STARTING for ever, as long as no    *)
(* client cancels a request.                                               *)
InterruptedStatesAreLeft ==
  \A j \in Jobs : job[j] \in INTERRUPTED_STATES ~> job[j] \notin INTERRUPTED_STATES

(* The end of a print does not go unnoticed: while clients keep monitoring *)
(* a job, it does not stay open for ever under a report that its printer   *)
(* finished or failed.  The one exception is a job that was PAUSED when    *)
(* its printer reports FINISH, for which the table has no arrow.           *)
EndIsNoticed ==
  \A j \in Jobs :
    LET ended == \/ reported[PrinterOf[j]] = "FAILED"
                 \/ reported[PrinterOf[j]] = "FINISH" /\ job[j] # "PAUSED"
    IN  WF_vars(Monitor(j)) =>
          []<>~(ended /\ job[j] \in {"UPLOADING", "STARTING", "RUNNING", "PAUSED"})

(* The specification implements JobLifecycle.                              *)
Spent == {j \in Jobs : \E c \in Calls : IsExecute(c, j) /\ token[c] \in Tokens}
Sent == {j \in Jobs : \E c \in Calls : IsExecute(c, j) /\ wire[c] # "unsent"}

Lifecycle == INSTANCE JobLifecycle WITH job <- job, spent <- Spent, sent <- Sent

ImplementsLifecycle == Lifecycle!Spec

-----------------------------------------------------------------------------
(* The inductive invariant the proofs rest on.                             *)

(* What a request's place says about its kind, its token and its command.  *)
RequestInv ==
  \A c \in Calls :
    /\ pc[c] = "idle" => req[c] = NoRequest /\ token[c] = NoToken /\ wire[c] = "unsent"
    /\ pc[c] # "idle" => req[c].kind \in CallKinds /\ req[c].job \in Jobs
    /\ wire[c] # "unsent" => pc[c] \in {"ack", "done", "abandoned"}
    /\ pc[c] \in {"status", "upload"} => req[c].kind = "execute"
    /\ pc[c] = "gateway" => req[c].kind \in GuardedKinds /\ token[c] = NoToken
    /\ req[c].kind = "execute" => token[c] \in Tokens
    /\ req[c].kind \in GuardedKinds /\ (pc[c] = "publish" \/ wire[c] # "unsent") =>
         token[c] \in Tokens

(* A consumed token belongs to one request, for its job and operation.     *)
TokenInv ==
  /\ \A c \in Calls :
       token[c] \in Tokens =>
         /\ approval[token[c]].status = "used"
         /\ approval[token[c]].job = req[c].job
         /\ approval[token[c]].op = req[c].kind
  /\ \A c, d \in Calls : c # d /\ token[c] \in Tokens => token[d] # token[c]

(* An execution claims its job from the commit of UPLOADING until its      *)
(* command is sent, and for ever once it is; a job has at most one claim.  *)
Claims(c) ==
  req[c].kind = "execute" /\ (pc[c] \in {"upload", "publish"} \/ wire[c] # "unsent")

ClaimInv ==
  /\ \A c \in Calls : Claims(c) => job[req[c].job] # "AWAITING_APPROVAL"
  /\ \A c, d \in Calls : Claims(c) /\ Claims(d) /\ req[c].job = req[d].job => c = d

(* Between the commit of STARTING and the publication the job may have     *)
(* been moved on by others, but never back.                                *)
PublishInv ==
  \A c \in Calls :
    req[c].kind = "execute" /\ pc[c] = "publish" => job[req[c].job] \in Lifecycle!PastStarting

PreparedInv == \A j \in Jobs : job[j] \notin PreparationStates

IndInv == TypeOK /\ RequestInv /\ TokenInv /\ ClaimInv /\ PublishInv /\ PreparedInv

-----------------------------------------------------------------------------
(* Statements of the documentation that the code does not meet.            *)

(* docs/architecture.md, STARTING --> RUNNING: MQTT acknowledgement.       *)
AcknowledgementMeansRunning ==
  [][\A c \in Calls :
       AckSuccess(c) /\ req[c].kind = "execute" /\ job[req[c].job] \in {"STARTING", "RUNNING"}
         => job'[req[c].job] = "RUNNING"]_vars

(* mcp_server.py, cancel_print_job: Safely stop and cancel a job.          *)
CancelledIsNotPrinting ==
  \A j \in Jobs, p \in Printers :
    ~(job[j] = "CANCELLED" /\ printer[p] = [gcode |-> "RUNNING", job |-> j])
=============================================================================
