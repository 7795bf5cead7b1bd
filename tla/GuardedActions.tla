--------------------------- MODULE GuardedActions ---------------------------
(***************************************************************************)
(* Printer actions, the gates in front of them and their one-use           *)
(* approvals: run_operation, and the file upload, file deletion and raw    *)
(* MQTT tools that do not go through it.  Both kinds await the printer's   *)
(* gateway before they consume the approval; run_operation computes the    *)
(* digest it presents after that await, the others before it.  Meanwhile   *)
(* any other request may move the job along the transition table, and the  *)
(* service may be restarted with other settings; approvals outlive it.     *)
(***************************************************************************)
EXTENDS JobStates, OperationCatalogue

CONSTANTS
  Jobs, Printers, Tokens, Calls,
  Actions,      \* operations with parameters
  Operation,    \* the operation of an action
  NeverExposed, \* raw commands of the families run_raw_mqtt refuses
  PrinterOf,    \* the printer a job was prepared for
  Registered,   \* the rows of the printers
  NoJob

ASSUME ConstantsAssumption ==
  /\ Operation \in [Actions -> OPERATIONS]
  /\ NeverExposed \subseteq {a \in Actions : Operation[a] = "raw_mqtt"}
  /\ PrinterOf \in [Jobs -> Printers]
  /\ Registered \in [Printers -> Printer]
  /\ NoJob \notin Jobs

Guarded(a) == NeedsApproval(Operation[a])

(* Performed by run_operation, or by one of the other tools.               *)
ByRun(a) == Operation[a] \in RunTools
ByTool(a) == Operation[a] \in FileTools

VARIABLES
  settings,  \* the flags of Settings that gate actions
  job,       \* Job.state
  approval,  \* the approvals table, by token
  pc,        \* where each request is suspended
  req,       \* what each request asks for
  digest,    \* the job state in the digest a request presents
  performed  \* the requests whose action was handed to the printer

vars == <<settings, job, approval, pc, req, digest, performed>>

NoApproval == [status |-> "none"]
Approvals ==
  {NoApproval} \cup
  [status : {"live", "expired", "used"}, job : Jobs, action : Actions, state : JobState]

NoRequest == [job |-> NoJob]

(* A request names a job and a token if its action needs an approval;      *)
(* run_operation does not look at them otherwise.                          *)
GuardedRequests ==
  [printer : Printers, action : {a \in Actions : Guarded(a)}, job : Jobs, token : Tokens]
Requests ==
  {NoRequest} \cup GuardedRequests \cup
  [printer : Printers, action : {a \in Actions : ~Guarded(a)}]

Settings == [experimental : BOOLEAN, unverified_writes : BOOLEAN]

TypeOK ==
  /\ settings \in Settings
  /\ job \in [Jobs -> JobState]
  /\ approval \in [Tokens -> Approvals]
  /\ pc \in [Calls -> {"idle", "gateway", "cleared", "done"}]
  /\ req \in [Calls -> Requests]
  /\ digest \in [Calls -> JobState \cup {"none"}]
  /\ performed \subseteq Calls

Init ==
  /\ settings \in Settings
  /\ job \in [Jobs -> {"AWAITING_APPROVAL", "RUNNING"}]
  /\ approval = [t \in Tokens |-> NoApproval]
  /\ pc = [c \in Calls |-> "idle"]
  /\ req = [c \in Calls |-> NoRequest]
  /\ digest = [c \in Calls |-> "none"]
  /\ performed = {}

-----------------------------------------------------------------------------
(* The gates.                                                              *)

Writable(p) == require_write_allowed(Registered[p], settings.unverified_writes)

(* A bug: the setting was looked at when the approval was issued.          *)
RunExposesApproved(r) ==
  /\ operation_named(Operation[r.action], TRUE)
  /\ Operation[r.action] \notin READ_ONLY => Writable(r.printer)

(* What run_operation checks before its first await.                       *)
RunExposes(r) ==
  /\ operation_named(Operation[r.action], settings.experimental)
  /\ Operation[r.action] \notin READ_ONLY => Writable(r.printer)

(* What the upload, deletion and raw MQTT tools check.                     *)
FileExposes(r) ==
  /\ Writable(r.printer)
  /\ r.action \notin NeverExposed
  /\ Operation[r.action] = "raw_mqtt" => operation_named("raw_mqtt", settings.experimental)

-----------------------------------------------------------------------------
(* Approvals bind a job, its state when they were issued and the action.   *)

ApproveGuarded(t, j, a) ==
  /\ job[j] \notin TERMINAL_STATES
  /\ operation_named(Operation[a], settings.experimental) /\ Guarded(a)
  /\ approval[t] = NoApproval
  /\ approval' = [approval EXCEPT ![t] =
       [status |-> "live", job |-> j, action |-> a, state |-> job[j]]]
  /\ UNCHANGED <<settings, job, pc, req, digest, performed>>

Expire(t) ==
  /\ approval[t].status = "live"
  /\ approval' = [approval EXCEPT ![t].status = "expired"]
  /\ UNCHANGED <<settings, job, pc, req, digest, performed>>

(* A bug: the digest leaves out the job's state.                           *)
MatchesInAnyState(t, j, a, state) ==
  approval[t].status = "live" /\ approval[t].job = j /\ approval[t].action = a

(* A bug: the query for the token's row forgets the job.                   *)
MatchesForAnyJob(t, j, a, state) ==
  approval[t].status = "live" /\ approval[t].action = a /\ approval[t].state = state

(* What _consume_approval demands of the token and the digest presented.   *)
Matches(t, j, a, state) ==
  /\ approval[t].status = "live"
  /\ approval[t].job = j
  /\ approval[t].action = a
  /\ approval[t].state = state

(* A bug: used_at is never written.                                        *)
ConsumeUnmarked(t) == UNCHANGED approval

Consume(t) == approval' = [approval EXCEPT ![t].status = "used"]

-----------------------------------------------------------------------------
(* Requests.                                                               *)

Begin(c, r, state) ==
  /\ pc[c] = "idle"
  /\ pc' = [pc EXCEPT ![c] = "gateway"]
  /\ req' = [req EXCEPT ![c] = r]
  /\ digest' = [digest EXCEPT ![c] = state]
  /\ UNCHANGED <<settings, job, approval, performed>>

(* run_operation looks at nothing but the gates before the await.          *)
RunBegin(c, r) == ByRun(r.action) /\ RunExposes(r) /\ Begin(c, r, "none")

(* The other tools read the job and compute the digest first.              *)
FileBegin(c, r) == ByTool(r.action) /\ FileExposes(r) /\ Begin(c, r, job[r.job])

(* run_operation has its gateway, and the action needs no approval.        *)
RunPlain(c) ==
  /\ pc[c] = "gateway" /\ ~Guarded(req[c].action)
  /\ pc' = [pc EXCEPT ![c] = "cleared"]
  /\ UNCHANGED <<settings, job, approval, req, digest, performed>>

(* The action needs one: run_operation reads the job, refuses one of       *)
(* another printer, and consumes the approval before the next await.       *)
RunAuthorise(c) ==
  LET r == req[c] IN
  /\ pc[c] = "gateway" /\ Guarded(r.action) /\ ByRun(r.action)
  /\ PrinterOf[r.job] = r.printer
  /\ Matches(r.token, r.job, r.action, job[r.job])
  /\ Consume(r.token)
  /\ digest' = [digest EXCEPT ![c] = job[r.job]]
  /\ pc' = [pc EXCEPT ![c] = "cleared"]
  /\ UNCHANGED <<settings, job, req, performed>>

(* The other tools present the digest computed before the await.           *)
FileAuthorise(c) ==
  LET r == req[c] IN
  /\ pc[c] = "gateway" /\ ByTool(r.action)
  /\ Matches(r.token, r.job, r.action, digest[c])
  /\ Consume(r.token)
  /\ pc' = [pc EXCEPT ![c] = "cleared"]
  /\ UNCHANGED <<settings, job, req, digest, performed>>

(* The command is published or the transfer begins.                        *)
Perform(c) ==
  /\ pc[c] = "cleared"
  /\ performed' = performed \cup {c}
  /\ pc' = [pc EXCEPT ![c] = "done"]
  /\ digest' = [digest EXCEPT ![c] = "none"]
  /\ UNCHANGED <<settings, job, approval, req>>

(* An await raises, the approval is refused, or the client goes away.  A   *)
(* consumed approval stays consumed.                                       *)
Stop(c) ==
  /\ pc[c] \in {"gateway", "cleared"}
  /\ pc' = [pc EXCEPT ![c] = "done"]
  /\ req' = [req EXCEPT ![c] = NoRequest]
  /\ digest' = [digest EXCEPT ![c] = "none"]
  /\ UNCHANGED <<settings, job, approval, performed>>

(* Some other request moves the job.                                       *)
Move(j) ==
  /\ \E s \in ALLOWED_TRANSITIONS[job[j]] : job' = [job EXCEPT ![j] = s]
  /\ UNCHANGED <<settings, approval, pc, req, digest, performed>>

(* The service stops, and starts again with these settings: what was under *)
(* way is gone, rows and approvals are still there, interrupted jobs fail. *)
Restart(flags) ==
  /\ settings' = flags
  /\ job' = [j \in Jobs |-> Recovered(job[j])]
  /\ pc' = [c \in Calls |-> IF pc[c] = "idle" THEN "idle" ELSE "done"]
  /\ req' = [c \in Calls |-> IF c \in performed THEN req[c] ELSE NoRequest]
  /\ digest' = [c \in Calls |-> "none"]
  /\ UNCHANGED <<approval, performed>>

Next ==
  \/ \E t \in Tokens : Expire(t) \/ \E j \in Jobs, a \in Actions : ApproveGuarded(t, j, a)
  \/ \E c \in Calls, r \in Requests \ {NoRequest} : RunBegin(c, r) \/ FileBegin(c, r)
  \/ \E c \in Calls :
       RunPlain(c) \/ RunAuthorise(c) \/ FileAuthorise(c) \/ Perform(c) \/ Stop(c)
  \/ \E j \in Jobs : Move(j)
  \/ \E flags \in Settings : Restart(flags)

Spec == Init /\ [][Next]_vars

-----------------------------------------------------------------------------
(* Properties.                                                             *)

NeededApproval(c) == c \in performed /\ Guarded(req[c].action)

(* An approval lets one action through, however many requests present it   *)
(* at the same time, after each other, or before and after a restart.      *)
OneActionPerApproval ==
  \A c, d \in Calls :
    NeededApproval(c) /\ NeededApproval(d) /\ req[c].token = req[d].token => c = d

(* What needed an approval and reached a printer is the approved action    *)
(* for the approved job; for run_operation the printer is the job's own.   *)
PerformedAsApproved ==
  \A c \in Calls : NeededApproval(c) =>
    LET r == req[c] IN
    /\ approval[r.token].status = "used"
    /\ approval[r.token].job = r.job
    /\ approval[r.token].action = r.action
    /\ ByRun(r.action) => PrinterOf[r.job] = r.printer

(* run_operation consumes an approval only while its job is in the state   *)
(* the approval was issued in: never for a job that moved, or ended, while *)
(* the request waited for its gateway.                                     *)
RunInTheApprovedState ==
  [][\A c \in Calls :
       pc[c] = "gateway" /\ pc'[c] = "cleared" /\ Guarded(req[c].action)
         /\ ByRun(req[c].action) =>
         /\ approval[req[c].token].state = job[req[c].job]
         /\ job[req[c].job] \notin TERMINAL_STATES]_vars

(* The settings of this moment let the request through.                    *)
GatesOpen(r) ==
  LET op == Operation[r.action] IN
  /\ op \notin FORBIDDEN
  /\ op \in EXPERIMENTAL => settings.experimental
  /\ op \notin READ_ONLY => Writable(r.printer)
  /\ r.action \notin NeverExposed

(* What reaches a printer passes the gates under the settings of that      *)
(* moment: an approval that was issued under other settings, before a      *)
(* restart, opens none of them.                                            *)
ExposedWhenPerformed ==
  [][\A c \in performed' \ performed : GatesOpen(req[c])]_vars

-----------------------------------------------------------------------------
(* The inductive invariant of the proofs.                                  *)

(* A request that was cleared, if it needed an approval, holds a used one, *)
(* for its job and its action, that no other cleared request holds.        *)
Cleared(c) == (pc[c] = "cleared" \/ c \in performed) /\ Guarded(req[c].action)

ClearedInv ==
  /\ \A c \in Calls :
       /\ pc[c] \in {"gateway", "cleared"} \/ c \in performed => req[c] # NoRequest
       /\ c \in performed => pc[c] = "done"
       /\ Cleared(c) =>
            /\ approval[req[c].token] # NoApproval
            /\ approval[req[c].token].status = "used"
            /\ approval[req[c].token].job = req[c].job
            /\ approval[req[c].token].action = req[c].action
            /\ ByRun(req[c].action) => PrinterOf[req[c].job] = req[c].printer
  /\ \A c, d \in Calls : Cleared(c) /\ Cleared(d) /\ req[c].token = req[d].token => c = d

(* A request under way has passed the gates of this process's settings.    *)
ExposedInv == \A c \in Calls : pc[c] \in {"gateway", "cleared"} => GatesOpen(req[c])

(* Approvals are only ever issued to jobs that have not ended.             *)
IssuedInv ==
  \A t \in Tokens : approval[t] # NoApproval => approval[t].state \notin TERMINAL_STATES

IndInv == TypeOK /\ ClearedInv /\ ExposedInv /\ IssuedInv

-----------------------------------------------------------------------------
(* A statement of the documentation that the code does not meet.           *)

(* docs/architecture.md: guarded actions use a digest over job, printer,   *)
(* current state, operation and parameters.                                *)
PerformedOnTheJobsPrinter ==
  \A c \in Calls : NeededApproval(c) => PrinterOf[req[c].job] = req[c].printer
=============================================================================
