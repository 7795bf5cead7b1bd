------------------------ MODULE PrintExecution_proofs ------------------------
(***************************************************************************)
(* Proofs about PrintExecution, for every number of jobs, requests, tokens *)
(* and printers.                                                           *)
(***************************************************************************)
EXTENDS PrintExecution, TLAPS

(* What the transition table says: it stays inside JobState, its moves out *)
(* of AWAITING_APPROVAL and into each later state are the listed ones, and *)
(* nothing leaves a terminal state.                                        *)
LEMMA TransitionTable ==
  ASSUME NEW s \in JobState
  PROVE  /\ ALLOWED_TRANSITIONS[s] \subseteq JobState
         /\ s \in TERMINAL_STATES => ALLOWED_TRANSITIONS[s] = {}
         /\ s \notin TERMINAL_STATES => "FAILED" \in ALLOWED_TRANSITIONS[s]
         /\ "UPLOADING" \in ALLOWED_TRANSITIONS[s] <=> s = "AWAITING_APPROVAL"
         /\ "STARTING" \in ALLOWED_TRANSITIONS[s] <=> s = "UPLOADING"
         /\ "RUNNING" \in ALLOWED_TRANSITIONS[s] <=> s \in {"STARTING", "PAUSED"}
         /\ "PAUSED" \in ALLOWED_TRANSITIONS[s] <=> s = "RUNNING"
         /\ "SUCCEEDED" \in ALLOWED_TRANSITIONS[s] <=> s = "RUNNING"
         /\ s \notin PreparationStates =>
              ALLOWED_TRANSITIONS[s] \cap (PreparationStates \cup {"AWAITING_APPROVAL"}) = {}
<1>1. ALLOWED_TRANSITIONS[s] =
        IF s \in TERMINAL_STATES THEN {} ELSE Forward[s] \cup {"FAILED", "CANCELLED"}
  BY DEF ALLOWED_TRANSITIONS
<1>2. \A t : t \in Forward[s] <=> t \in JobState /\ <<s, t>> \in Arrows
  BY DEF Forward
<1>3. /\ "UPLOADING" \in Forward[s] <=> s = "AWAITING_APPROVAL"
      /\ "STARTING" \in Forward[s] <=> s = "UPLOADING"
      /\ "RUNNING" \in Forward[s] <=> s \in {"STARTING", "PAUSED"}
      /\ "PAUSED" \in Forward[s] <=> s = "RUNNING"
      /\ "SUCCEEDED" \in Forward[s] <=> s = "RUNNING"
      /\ s \notin PreparationStates =>
           Forward[s] \cap (PreparationStates \cup {"AWAITING_APPROVAL"}) = {}
  BY <1>2 DEF Arrows, JobState, PreparationStates
<1>4. CASE s \in TERMINAL_STATES
  <2>1. ALLOWED_TRANSITIONS[s] = {}
    BY <1>1, <1>4
  <2>2. s \notin {"AWAITING_APPROVAL", "UPLOADING", "STARTING", "PAUSED", "RUNNING"}
    BY <1>4 DEF TERMINAL_STATES
  <2> QED BY <1>4, <2>1, <2>2
<1>5. CASE s \notin TERMINAL_STATES
  <2>1. ALLOWED_TRANSITIONS[s] = Forward[s] \cup {"FAILED", "CANCELLED"}
    BY <1>1, <1>5
  <2>2. {"FAILED", "CANCELLED"} \subseteq JobState
    BY DEF JobState
  <2> QED BY <1>2, <1>3, <1>5, <2>1, <2>2 DEF PreparationStates
<1> QED
  BY <1>4, <1>5

(* The state of one job after the helpers that move it.                    *)
LEMMA Moves ==
  ASSUME NEW s \in JobState
  PROVE  /\ Failed(s) \in {s, "FAILED"} \cap ({s} \cup ALLOWED_TRANSITIONS[s])
         /\ Recovered(s) \in {s, "FAILED"} \cap ({s} \cup ALLOWED_TRANSITIONS[s])
         /\ Recovered(s) \notin INTERRUPTED_STATES
         /\ Failed(s) \notin INTERRUPTED_STATES
         /\ \A kind : Acknowledged(kind, s) \in {s} \cup ALLOWED_TRANSITIONS[s]
         /\ \A kind : Acknowledged(kind, s) \in {s, "RUNNING", "FAILED", "CANCELLED", "PAUSED"}
         /\ \A kind : Acknowledged(kind, s) = "CANCELLED" => s = "CANCELLED" \/ kind = "cancel"
         /\ \A kind : kind = "execute" => Acknowledged(kind, s) \notin INTERRUPTED_STATES
         /\ \A kind : Acknowledged(kind, s) \in {"RUNNING", "PAUSED"} =>
                        s \in {"STARTING", "RUNNING", "PAUSED"}
BY TransitionTable, SMTT(60)
   DEF Failed, Recovered, Acknowledged, Transitioned, INTERRUPTED_STATES, TERMINAL_STATES

LEMMA MoveTypes ==
  /\ {"UPLOADING", "STARTING", "FAILED"} \subseteq JobState
  /\ \A s \in JobState : Failed(s) \in JobState /\ Recovered(s) \in JobState
  /\ \A s \in JobState : \A kind : Acknowledged(kind, s) \in JobState
<1>1. {"UPLOADING", "STARTING", "FAILED"} \subseteq JobState
  BY DEF JobState
<1>2. ASSUME NEW s \in JobState
      PROVE  /\ Failed(s) \in JobState /\ Recovered(s) \in JobState
             /\ \A kind : Acknowledged(kind, s) \in JobState
  BY <1>1, Moves, TransitionTable
<1> QED BY <1>1, <1>2

(* Only the status of an approval row ever changes.                        *)
LEMMA StatusUpdate ==
  ASSUME NEW a \in [Tokens -> Approvals], NEW t \in Tokens,
         NEW s \in {"none", "live", "expired", "used"}
  PROVE  [a EXCEPT ![t].status = s] \in [Tokens -> Approvals]
<1>1. a[t] \in Approvals
  OBVIOUS
<1>2. [a[t] EXCEPT !.status = s] \in Approvals
  BY <1>1 DEF Approvals
<1> QED BY <1>2

-----------------------------------------------------------------------------
LEMMA TypeStep == TypeOK /\ [Next]_vars => TypeOK'
<1> SUFFICES ASSUME TypeOK, [Next]_vars PROVE TypeOK'
  OBVIOUS
<1> USE ConstantsAssumption
<1>1. ASSUME NEW t \in Tokens, NEW j \in Jobs, ApprovePlan(t, j) PROVE TypeOK'
  BY <1>1 DEF TypeOK, ApprovePlan, IssueApproval, requests, world, Approvals, CallKinds
<1>2. ASSUME NEW t \in Tokens, NEW j \in Jobs, NEW op \in GuardedKinds, ApproveGuarded(t, j, op)
      PROVE  TypeOK'
  BY <1>2
     DEF TypeOK, ApproveGuarded, IssueApproval, requests, world, Approvals, CallKinds,
     GuardedKinds
<1>3. ASSUME NEW t \in Tokens, NEW j \in Jobs, NEW c \in Calls, ExecuteBegin(c, j, t)
      PROVE  TypeOK'
  <2>1. job' \in [Jobs -> JobState]
    BY <1>3, Moves DEF TypeOK, ExecuteBegin, FailJob, JobState
  <2>2. approval' \in [Tokens -> Approvals]
    BY <1>3, StatusUpdate DEF TypeOK, ExecuteBegin, Consume
  <2>3. pc' \in [Calls -> PCs] /\ req' \in [Calls -> Requests]
    BY <1>3 DEF TypeOK, ExecuteBegin, Begin, PCs, Requests, CallKinds
  <2> QED BY <1>3, <2>1, <2>2, <2>3 DEF TypeOK, ExecuteBegin, Consume, Begin, world
<1>4. ASSUME NEW t \in Tokens, Expire(t) PROVE TypeOK'
  BY <1>4, StatusUpdate DEF TypeOK, Expire, requests, world
<1>5. ASSUME NEW c \in Calls, NEW j \in Jobs, NEW kind \in Kinds, OperationBegin(c, kind, j)
      PROVE  TypeOK'
  BY <1>5 DEF TypeOK, OperationBegin, Begin, durable, world, PCs, Requests
<1>6. ASSUME NEW c \in Calls, ExecutePreflight(c) \/ ExecuteUploaded(c) PROVE TypeOK'
  <2>1. job' \in [Jobs -> JobState]
    BY <1>6, MoveTypes DEF TypeOK, ExecutePreflight, ExecuteUploaded, AdvanceTo, FailJob
  <2> QED
    BY <1>6, <2>1 DEF TypeOK, ExecutePreflight, ExecuteUploaded, AdvanceTo, PCs, world
<1>7. ASSUME NEW c \in Calls, NEW t \in Tokens, OperationAuthorise(c, t) PROVE TypeOK'
  BY <1>7, StatusUpdate DEF TypeOK, OperationAuthorise, Consume, PCs, world
<1>8. ASSUME NEW c \in Calls, Publish(c) PROVE TypeOK'
  BY <1>8 DEF TypeOK, Publish, durable, PCs
<1>9. ASSUME NEW c \in Calls, AckSuccess(c) PROVE TypeOK'
  <2>1. CASE req[c].job \in Jobs
    BY <1>9, <2>1, MoveTypes DEF TypeOK, AckSuccess, PCs, world
  <2>2. CASE req[c].job \notin Jobs
    BY <1>9, <2>2 DEF TypeOK, AckSuccess, PCs, world
  <2> QED BY <2>1, <2>2
<1>10. ASSUME NEW c \in Calls, CallFails(c) \/ Abandon(c) PROVE TypeOK'
  <2>1. job' \in [Jobs -> JobState]
    BY <1>10, MoveTypes DEF TypeOK, CallFails, Abandon, FailJob, durable
  <2> QED BY <1>10, <2>1 DEF TypeOK, CallFails, Abandon, PCs, durable, world
<1>11. ASSUME NEW c \in Calls, PrinterAccepts(c) PROVE TypeOK'
  <2> DEFINE State == [gcode : GcodeStates, job : Jobs \cup {NoJob}]
  <2>1. \A state \in State : Executed(c, state) \in State
    BY DEF TypeOK, Executed, Requests, GcodeStates
  <2>2. printer' \in [Printers -> State]
    BY <1>11, <2>1 DEF TypeOK, PrinterAccepts
  <2> QED BY <1>11, <2>2 DEF TypeOK, PrinterAccepts, durable, requests
<1>12. ASSUME NEW c \in Calls, PrinterRejects(c) PROVE TypeOK'
  BY <1>12 DEF TypeOK, PrinterRejects, durable, requests
<1>13. ASSUME NEW j \in Jobs, Monitor(j) PROVE TypeOK'
  BY <1>13, TransitionTable DEF TypeOK, Monitor, requests, world
<1>14. ASSUME NEW p \in Printers, Report(p) PROVE TypeOK'
  BY <1>14 DEF TypeOK, Report, durable, requests, world
<1>15. ASSUME NEW p \in Printers, PrinterLocal(p) PROVE TypeOK'
  BY <1>15 DEF TypeOK, PrinterLocal, PrinterMoves, GcodeStates, durable, requests
<1>16. ASSUME NEW p \in Printers, NEW f \in Firmwares, Discover(p, f) PROVE TypeOK'
  BY <1>16 DEF TypeOK, Discover, requests, world
<1>17. CASE Crash
  BY <1>17 DEF TypeOK, Crash, durable, world, PCs
<1>18. CASE Boot
  <2>1. job' \in [Jobs -> JobState]
    BY <1>18, Moves DEF TypeOK, Boot, JobState
  <2> QED BY <1>18, <2>1 DEF TypeOK, Boot, requests, world
<1>19. CASE UNCHANGED vars
  BY <1>19 DEF TypeOK, vars, durable, requests, world
<1> QED
  BY <1>1, <1>2, <1>3, <1>4, <1>5, <1>6, <1>7, <1>8, <1>9, <1>10, <1>11, <1>12, <1>13, <1>14,
     <1>15, <1>16, <1>17, <1>18, <1>19 DEF Next, RequestStep

LEMMA TypeInit == Init => TypeOK
BY ConstantsAssumption
   DEF Init, TypeOK, JobState, Approvals, Requests, NoApproval, NoRequest, PCs, GcodeStates

(* Type correctness.                                                       *)
THEOREM TypeCorrect == Spec => []TypeOK
BY TypeInit, TypeStep, PTL DEF Spec
-----------------------------------------------------------------------------
(* The inductive invariant                                                 *)

(* A transaction moves a job along the table or not at all.                *)
LEMMA JobMoves ==
  ASSUME TypeOK, RequestInv, [Next]_vars, NEW k \in Jobs
  PROVE  job'[k] \in {job[k]} \cup ALLOWED_TRANSITIONS[job[k]]
<1> DEFINE Goal == job'[k] \in {job[k]} \cup ALLOWED_TRANSITIONS[job[k]]
<1>a. job[k] \in JobState
  BY DEF TypeOK
<1>b. /\ Failed(job[k]) \in {job[k]} \cup ALLOWED_TRANSITIONS[job[k]]
      /\ Recovered(job[k]) \in {job[k]} \cup ALLOWED_TRANSITIONS[job[k]]
      /\ \A kind : Acknowledged(kind, job[k]) \in {job[k]} \cup ALLOWED_TRANSITIONS[job[k]]
  BY <1>a, Moves
<1>c. job \in [Jobs -> JobState]
  BY DEF TypeOK
<1>1. ASSUME NEW t \in Tokens, NEW j \in Jobs, ApprovePlan(t, j)
      PROVE  Goal
  BY <1>1, <1>b, <1>c DEF ApprovePlan, IssueApproval, durable, requests, world
<1>2. ASSUME NEW t \in Tokens, NEW j \in Jobs, NEW op \in GuardedKinds, ApproveGuarded(t, j, op)
      PROVE  Goal
  BY <1>2, <1>b, <1>c DEF ApproveGuarded, IssueApproval, durable, requests, world
<1>3. ASSUME NEW t \in Tokens, NEW j \in Jobs, NEW c \in Calls, ExecuteBegin(c, j, t)
      PROVE  Goal
  BY <1>3, <1>b, <1>c
     DEF ExecuteBegin, Begin, Consume, Consumable, FailJob, durable, requests, world
<1>4. ASSUME NEW t \in Tokens, Expire(t)
      PROVE  Goal
  BY <1>4, <1>b, <1>c DEF Expire, durable, requests, world
<1>5. ASSUME NEW c \in Calls, NEW j \in Jobs, NEW kind \in Kinds, OperationBegin(c, kind, j)
      PROVE  Goal
  BY <1>5, <1>b, <1>c DEF OperationBegin, Begin, durable, requests, world
<1>6. ASSUME NEW c \in Calls, ExecutePreflight(c)
      PROVE  Goal
  BY <1>6, <1>b, <1>c
     DEF ExecutePreflight, At, AdvanceTo, FailJob, durable, requests, world
<1>7. ASSUME NEW c \in Calls, ExecuteUploaded(c)
      PROVE  Goal
  BY <1>7, <1>b, <1>c
     DEF ExecuteUploaded, At, AdvanceTo, FailJob, durable, requests, world
<1>8. ASSUME NEW c \in Calls, NEW t \in Tokens, OperationAuthorise(c, t)
      PROVE  Goal
  BY <1>8, <1>b, <1>c
     DEF OperationAuthorise, Consume, Consumable, durable, requests, world
<1>9. ASSUME NEW c \in Calls, Publish(c)
      PROVE  Goal
  BY <1>9, <1>b, <1>c DEF Publish, durable, requests, world
<1>10. ASSUME NEW c \in Calls, AckSuccess(c)
      PROVE  Goal
  BY <1>10, <1>b, <1>c DEF AckSuccess, durable, requests, world
<1>11. ASSUME NEW c \in Calls, CallFails(c)
      PROVE  Goal
  BY <1>11, <1>b, <1>c DEF CallFails, FailJob, durable, requests, world
<1>12. ASSUME NEW c \in Calls, Abandon(c)
      PROVE  Goal
  BY <1>12, <1>b, <1>c DEF Abandon, durable, requests, world
<1>13. ASSUME NEW c \in Calls, PrinterAccepts(c)
      PROVE  Goal
  BY <1>13, <1>b, <1>c DEF PrinterAccepts, durable, requests, world
<1>14. ASSUME NEW c \in Calls, PrinterRejects(c)
      PROVE  Goal
  BY <1>14, <1>b, <1>c DEF PrinterRejects, durable, requests, world
<1>15. ASSUME NEW j \in Jobs, Monitor(j)
      PROVE  Goal
  BY <1>15, <1>b, <1>c DEF Monitor, durable, requests, world
<1>16. ASSUME NEW p \in Printers, Report(p)
      PROVE  Goal
  BY <1>16, <1>b, <1>c DEF Report, durable, requests, world
<1>17. ASSUME NEW p \in Printers, PrinterLocal(p)
      PROVE  Goal
  BY <1>17, <1>b, <1>c DEF PrinterLocal, durable, requests, world
<1>18. ASSUME NEW p \in Printers, NEW f \in Firmwares, Discover(p, f)
      PROVE  Goal
  BY <1>18, <1>b, <1>c DEF Discover, durable, requests, world
<1>19. CASE Crash
  BY <1>19, <1>b, <1>c DEF Crash, durable, requests, world
<1>20. CASE Boot
  BY <1>20, <1>b, <1>c DEF Boot, durable, requests, world
<1>21. CASE UNCHANGED vars
  BY <1>21, <1>b, <1>c DEF vars, durable, requests, world
<1> QED
  BY <1>1, <1>2, <1>3, <1>4, <1>5, <1>6, <1>7, <1>8, <1>9, <1>10, <1>11, <1>12,
     <1>13, <1>14, <1>15, <1>16, <1>17, <1>18, <1>19, <1>20, <1>21
     DEF Next, RequestStep

LEMMA RequestStepInv == TypeOK /\ RequestInv /\ [Next]_vars => RequestInv'
<1> SUFFICES ASSUME TypeOK, RequestInv, [Next]_vars, NEW x \in Calls
    PROVE  /\ pc'[x] = "idle" => req'[x] = NoRequest /\ token'[x] = NoToken /\ wire'[x] = "unsent"
           /\ pc'[x] # "idle" => req'[x].kind \in CallKinds /\ req'[x].job \in Jobs
           /\ wire'[x] # "unsent" => pc'[x] \in {"ack", "done", "abandoned"}
           /\ pc'[x] \in {"status", "upload"} => req'[x].kind = "execute"
           /\ pc'[x] = "gateway" => req'[x].kind \in GuardedKinds /\ token'[x] = NoToken
           /\ req'[x].kind = "execute" => token'[x] \in Tokens
           /\ req'[x].kind \in GuardedKinds /\ (pc'[x] = "publish" \/ wire'[x] # "unsent") =>
                token'[x] \in Tokens
  BY DEF RequestInv
<1> DEFINE Goal ==
      /\ pc'[x] = "idle" => req'[x] = NoRequest /\ token'[x] = NoToken /\ wire'[x] = "unsent"
      /\ pc'[x] # "idle" => req'[x].kind \in CallKinds /\ req'[x].job \in Jobs
      /\ wire'[x] # "unsent" => pc'[x] \in {"ack", "done", "abandoned"}
      /\ pc'[x] \in {"status", "upload"} => req'[x].kind = "execute"
      /\ pc'[x] = "gateway" => req'[x].kind \in GuardedKinds /\ token'[x] = NoToken
      /\ req'[x].kind = "execute" => token'[x] \in Tokens
      /\ req'[x].kind \in GuardedKinds /\ (pc'[x] = "publish" \/ wire'[x] # "unsent") =>
           token'[x] \in Tokens
<1>1. ASSUME NEW t \in Tokens, NEW j \in Jobs, ApprovePlan(t, j)
      PROVE  Goal
  BY <1>1
     DEF ApprovePlan, IssueApproval, durable, requests, world, TypeOK, RequestInv,
         Suspended, CallKinds, GuardedKinds, NoRequest
<1>2. ASSUME NEW t \in Tokens, NEW j \in Jobs, NEW op \in GuardedKinds, ApproveGuarded(t, j, op)
      PROVE  Goal
  BY <1>2
     DEF ApproveGuarded, IssueApproval, durable, requests, world, TypeOK, RequestInv,
         Suspended, CallKinds, GuardedKinds, NoRequest
<1>3. ASSUME NEW t \in Tokens, NEW j \in Jobs, NEW c \in Calls, ExecuteBegin(c, j, t)
      PROVE  Goal
  BY <1>3
     DEF ExecuteBegin, Begin, Consume, Consumable, FailJob, durable, requests, world,
         TypeOK, RequestInv, Suspended, CallKinds, GuardedKinds, NoRequest
<1>4. ASSUME NEW t \in Tokens, Expire(t)
      PROVE  Goal
  BY <1>4
     DEF Expire, durable, requests, world, TypeOK, RequestInv, Suspended, CallKinds,
         GuardedKinds, NoRequest
<1>5. ASSUME NEW c \in Calls, NEW j \in Jobs, NEW kind \in Kinds, OperationBegin(c, kind, j)
      PROVE  Goal
  BY <1>5
     DEF OperationBegin, Begin, durable, requests, world, TypeOK, RequestInv, Suspended,
         CallKinds, GuardedKinds, NoRequest
<1>6. ASSUME NEW c \in Calls, ExecutePreflight(c)
      PROVE  Goal
  BY <1>6
     DEF ExecutePreflight, At, AdvanceTo, FailJob, durable, requests, world, TypeOK,
         RequestInv, Suspended, CallKinds, GuardedKinds, NoRequest
<1>7. ASSUME NEW c \in Calls, ExecuteUploaded(c)
      PROVE  Goal
  BY <1>7
     DEF ExecuteUploaded, At, AdvanceTo, FailJob, durable, requests, world, TypeOK,
         RequestInv, Suspended, CallKinds, GuardedKinds, NoRequest
<1>8. ASSUME NEW c \in Calls, NEW t \in Tokens, OperationAuthorise(c, t)
      PROVE  Goal
  BY <1>8
     DEF OperationAuthorise, Consume, Consumable, durable, requests, world, TypeOK,
         RequestInv, Suspended, CallKinds, GuardedKinds, NoRequest
<1>9. ASSUME NEW c \in Calls, Publish(c)
      PROVE  Goal
  BY <1>9
     DEF Publish, durable, requests, world, TypeOK, RequestInv, Suspended, CallKinds,
         GuardedKinds, NoRequest
<1>10. ASSUME NEW c \in Calls, AckSuccess(c)
      PROVE  Goal
  BY <1>10
     DEF AckSuccess, durable, requests, world, TypeOK, RequestInv, Suspended, CallKinds,
         GuardedKinds, NoRequest
<1>11. ASSUME NEW c \in Calls, CallFails(c)
      PROVE  Goal
  BY <1>11
     DEF CallFails, FailJob, durable, requests, world, TypeOK, RequestInv, Suspended,
         CallKinds, GuardedKinds, NoRequest
<1>12. ASSUME NEW c \in Calls, Abandon(c)
      PROVE  Goal
  BY <1>12
     DEF Abandon, durable, requests, world, TypeOK, RequestInv, Suspended, CallKinds,
         GuardedKinds, NoRequest
<1>13. ASSUME NEW c \in Calls, PrinterAccepts(c)
      PROVE  Goal
  BY <1>13
     DEF PrinterAccepts, durable, requests, world, TypeOK, RequestInv, Suspended,
         CallKinds, GuardedKinds, NoRequest
<1>14. ASSUME NEW c \in Calls, PrinterRejects(c)
      PROVE  Goal
  BY <1>14
     DEF PrinterRejects, durable, requests, world, TypeOK, RequestInv, Suspended,
         CallKinds, GuardedKinds, NoRequest
<1>15. ASSUME NEW j \in Jobs, Monitor(j)
      PROVE  Goal
  BY <1>15
     DEF Monitor, durable, requests, world, TypeOK, RequestInv, Suspended, CallKinds,
         GuardedKinds, NoRequest
<1>16. ASSUME NEW p \in Printers, Report(p)
      PROVE  Goal
  BY <1>16
     DEF Report, durable, requests, world, TypeOK, RequestInv, Suspended, CallKinds,
         GuardedKinds, NoRequest
<1>17. ASSUME NEW p \in Printers, PrinterLocal(p)
      PROVE  Goal
  BY <1>17
     DEF PrinterLocal, durable, requests, world, TypeOK, RequestInv, Suspended,
         CallKinds, GuardedKinds, NoRequest
<1>18. ASSUME NEW p \in Printers, NEW f \in Firmwares, Discover(p, f)
      PROVE  Goal
  BY <1>18
     DEF Discover, durable, requests, world, TypeOK, RequestInv, Suspended, CallKinds,
         GuardedKinds, NoRequest
<1>19. CASE Crash
  BY <1>19
     DEF Crash, durable, requests, world, TypeOK, RequestInv, Suspended, CallKinds,
         GuardedKinds, NoRequest
<1>20. CASE Boot
  BY <1>20
     DEF Boot, durable, requests, world, TypeOK, RequestInv, Suspended, CallKinds,
         GuardedKinds, NoRequest
<1>21. CASE UNCHANGED vars
  BY <1>21
     DEF vars, durable, requests, world, TypeOK, RequestInv, Suspended, CallKinds,
         GuardedKinds, NoRequest
<1> QED
  BY <1>1, <1>2, <1>3, <1>4, <1>5, <1>6, <1>7, <1>8, <1>9, <1>10, <1>11, <1>12,
     <1>13, <1>14, <1>15, <1>16, <1>17, <1>18, <1>19, <1>20, <1>21
     DEF Next, RequestStep

LEMMA TokenStepInv == TypeOK /\ RequestInv /\ TokenInv /\ [Next]_vars => TokenInv'
<1> SUFFICES ASSUME TypeOK, RequestInv, TokenInv, [Next]_vars PROVE TokenInv'
  OBVIOUS
<1>1. ASSUME NEW t \in Tokens, NEW j \in Jobs, ApprovePlan(t, j)
      PROVE  TokenInv'
  BY <1>1
     DEF ApprovePlan, IssueApproval, durable, requests, world, TypeOK, RequestInv,
         TokenInv, NoApproval, GuardedKinds, NoRequest
<1>2. ASSUME NEW t \in Tokens, NEW j \in Jobs, NEW op \in GuardedKinds, ApproveGuarded(t, j, op)
      PROVE  TokenInv'
  BY <1>2
     DEF ApproveGuarded, IssueApproval, durable, requests, world, TypeOK, RequestInv,
         TokenInv, NoApproval, GuardedKinds, NoRequest
<1>3. ASSUME NEW t \in Tokens, NEW j \in Jobs, NEW c \in Calls, ExecuteBegin(c, j, t)
      PROVE  TokenInv'
  BY <1>3
     DEF ExecuteBegin, Begin, Consume, Consumable, FailJob, durable, requests, world,
         TypeOK, RequestInv, TokenInv, NoApproval, GuardedKinds, NoRequest
<1>4. ASSUME NEW t \in Tokens, Expire(t)
      PROVE  TokenInv'
  BY <1>4
     DEF Expire, durable, requests, world, TypeOK, RequestInv, TokenInv, NoApproval,
         GuardedKinds, NoRequest
<1>5. ASSUME NEW c \in Calls, NEW j \in Jobs, NEW kind \in Kinds, OperationBegin(c, kind, j)
      PROVE  TokenInv'
  BY <1>5, ConstantsAssumption
     DEF OperationBegin, Begin, durable, world, TypeOK, RequestInv, TokenInv
<1>6. ASSUME NEW c \in Calls, ExecutePreflight(c)
      PROVE  TokenInv'
  BY <1>6
     DEF ExecutePreflight, At, AdvanceTo, FailJob, durable, requests, world, TypeOK,
         RequestInv, TokenInv, NoApproval, GuardedKinds, NoRequest
<1>7. ASSUME NEW c \in Calls, ExecuteUploaded(c)
      PROVE  TokenInv'
  BY <1>7
     DEF ExecuteUploaded, At, AdvanceTo, FailJob, durable, requests, world, TypeOK,
         RequestInv, TokenInv, NoApproval, GuardedKinds, NoRequest
<1>8. ASSUME NEW c \in Calls, NEW t \in Tokens, OperationAuthorise(c, t)
      PROVE  TokenInv'
  BY <1>8
     DEF OperationAuthorise, Consume, Consumable, durable, requests, world, TypeOK,
         RequestInv, TokenInv, NoApproval, GuardedKinds, NoRequest
<1>9. ASSUME NEW c \in Calls, Publish(c)
      PROVE  TokenInv'
  BY <1>9
     DEF Publish, durable, requests, world, TypeOK, RequestInv, TokenInv, NoApproval,
         GuardedKinds, NoRequest
<1>10. ASSUME NEW c \in Calls, AckSuccess(c)
      PROVE  TokenInv'
  BY <1>10
     DEF AckSuccess, durable, requests, world, TypeOK, RequestInv, TokenInv, NoApproval,
         GuardedKinds, NoRequest
<1>11. ASSUME NEW c \in Calls, CallFails(c)
      PROVE  TokenInv'
  BY <1>11
     DEF CallFails, FailJob, durable, requests, world, TypeOK, RequestInv, TokenInv,
         NoApproval, GuardedKinds, NoRequest
<1>12. ASSUME NEW c \in Calls, Abandon(c)
      PROVE  TokenInv'
  BY <1>12
     DEF Abandon, durable, requests, world, TypeOK, RequestInv, TokenInv, NoApproval,
         GuardedKinds, NoRequest
<1>13. ASSUME NEW c \in Calls, PrinterAccepts(c)
      PROVE  TokenInv'
  BY <1>13
     DEF PrinterAccepts, durable, requests, world, TypeOK, RequestInv, TokenInv,
         NoApproval, GuardedKinds, NoRequest
<1>14. ASSUME NEW c \in Calls, PrinterRejects(c)
      PROVE  TokenInv'
  BY <1>14
     DEF PrinterRejects, durable, requests, world, TypeOK, RequestInv, TokenInv,
         NoApproval, GuardedKinds, NoRequest
<1>15. ASSUME NEW j \in Jobs, Monitor(j)
      PROVE  TokenInv'
  BY <1>15
     DEF Monitor, durable, requests, world, TypeOK, RequestInv, TokenInv, NoApproval,
         GuardedKinds, NoRequest
<1>16. ASSUME NEW p \in Printers, Report(p)
      PROVE  TokenInv'
  BY <1>16
     DEF Report, durable, requests, world, TypeOK, RequestInv, TokenInv, NoApproval,
         GuardedKinds, NoRequest
<1>17. ASSUME NEW p \in Printers, PrinterLocal(p)
      PROVE  TokenInv'
  BY <1>17
     DEF PrinterLocal, durable, requests, world, TypeOK, RequestInv, TokenInv,
         NoApproval, GuardedKinds, NoRequest
<1>18. ASSUME NEW p \in Printers, NEW f \in Firmwares, Discover(p, f)
      PROVE  TokenInv'
  BY <1>18
     DEF Discover, durable, requests, world, TypeOK, RequestInv, TokenInv, NoApproval,
         GuardedKinds, NoRequest
<1>19. CASE Crash
  BY <1>19
     DEF Crash, durable, requests, world, TypeOK, RequestInv, TokenInv, NoApproval,
         GuardedKinds, NoRequest
<1>20. CASE Boot
  BY <1>20
     DEF Boot, durable, requests, world, TypeOK, RequestInv, TokenInv, NoApproval,
         GuardedKinds, NoRequest
<1>21. CASE UNCHANGED vars
  BY <1>21
     DEF vars, durable, requests, world, TypeOK, RequestInv, TokenInv, NoApproval,
         GuardedKinds, NoRequest
<1> QED
  BY <1>1, <1>2, <1>3, <1>4, <1>5, <1>6, <1>7, <1>8, <1>9, <1>10, <1>11, <1>12,
     <1>13, <1>14, <1>15, <1>16, <1>17, <1>18, <1>19, <1>20, <1>21
     DEF Next, RequestStep

(* A new claim is made only by committing UPLOADING on a waiting job, one  *)
(* request at a time; a request that is under way never changes its job.   *)
LEMMA ClaimStep ==
  ASSUME TypeOK, RequestInv, [Next]_vars, NEW x \in Calls, Claims(x)', ~Claims(x)
  PROVE  /\ req'[x] = req[x] /\ req[x].job \in Jobs
         /\ job[req[x].job] = "AWAITING_APPROVAL" /\ job'[req[x].job] = "UPLOADING"
         /\ \A y \in Calls \ {x} : Claims(y)' => Claims(y)
<1> DEFINE Goal ==
      /\ req'[x] = req[x] /\ req[x].job \in Jobs
      /\ job[req[x].job] = "AWAITING_APPROVAL" /\ job'[req[x].job] = "UPLOADING"
      /\ \A y \in Calls \ {x} : Claims(y)' => Claims(y)
<1>1. ASSUME NEW t \in Tokens, NEW j \in Jobs, ApprovePlan(t, j)
      PROVE  Goal
  BY <1>1
     DEF ApprovePlan, IssueApproval, durable, requests, world, TypeOK, RequestInv,
         Claims, Suspended, NoRequest
<1>2. ASSUME NEW t \in Tokens, NEW j \in Jobs, NEW op \in GuardedKinds, ApproveGuarded(t, j, op)
      PROVE  Goal
  BY <1>2
     DEF ApproveGuarded, IssueApproval, durable, requests, world, TypeOK, RequestInv,
         Claims, Suspended, NoRequest
<1>3. ASSUME NEW t \in Tokens, NEW j \in Jobs, NEW c \in Calls, ExecuteBegin(c, j, t)
      PROVE  Goal
  BY <1>3
     DEF ExecuteBegin, Begin, Consume, Consumable, FailJob, durable, requests, world,
         TypeOK, RequestInv, Claims, Suspended, NoRequest
<1>4. ASSUME NEW t \in Tokens, Expire(t)
      PROVE  Goal
  BY <1>4
     DEF Expire, durable, requests, world, TypeOK, RequestInv, Claims, Suspended,
         NoRequest
<1>5. ASSUME NEW c \in Calls, NEW j \in Jobs, NEW kind \in Kinds, OperationBegin(c, kind, j)
      PROVE  Goal
  BY <1>5
     DEF OperationBegin, Begin, durable, world, TypeOK, RequestInv, Claims, CallKinds
<1>6. ASSUME NEW c \in Calls, ExecutePreflight(c)
      PROVE  Goal
  BY <1>6, TransitionTable
     DEF ExecutePreflight, At, AdvanceTo, FailJob, world, TypeOK, RequestInv, Claims
<1>7. ASSUME NEW c \in Calls, ExecuteUploaded(c)
      PROVE  Goal
  BY <1>7
     DEF ExecuteUploaded, At, AdvanceTo, FailJob, durable, requests, world, TypeOK,
         RequestInv, Claims, Suspended, NoRequest
<1>8. ASSUME NEW c \in Calls, NEW t \in Tokens, OperationAuthorise(c, t)
      PROVE  Goal
  BY <1>8
     DEF OperationAuthorise, Consume, Consumable, world, TypeOK, RequestInv, Claims,
         GuardedKinds
<1>9. ASSUME NEW c \in Calls, Publish(c)
      PROVE  Goal
  BY <1>9
     DEF Publish, durable, requests, world, TypeOK, RequestInv, Claims, Suspended,
         NoRequest
<1>10. ASSUME NEW c \in Calls, AckSuccess(c)
      PROVE  Goal
  BY <1>10
     DEF AckSuccess, durable, requests, world, TypeOK, RequestInv, Claims, Suspended,
         NoRequest
<1>11. ASSUME NEW c \in Calls, CallFails(c)
      PROVE  Goal
  BY <1>11
     DEF CallFails, FailJob, durable, requests, world, TypeOK, RequestInv, Claims,
         Suspended, NoRequest
<1>12. ASSUME NEW c \in Calls, Abandon(c)
      PROVE  Goal
  BY <1>12
     DEF Abandon, durable, requests, world, TypeOK, RequestInv, Claims, Suspended,
         NoRequest
<1>13. ASSUME NEW c \in Calls, PrinterAccepts(c)
      PROVE  Goal
  BY <1>13
     DEF PrinterAccepts, durable, requests, world, TypeOK, RequestInv, Claims,
         Suspended, NoRequest
<1>14. ASSUME NEW c \in Calls, PrinterRejects(c)
      PROVE  Goal
  BY <1>14
     DEF PrinterRejects, durable, requests, world, TypeOK, RequestInv, Claims,
         Suspended, NoRequest
<1>15. ASSUME NEW j \in Jobs, Monitor(j)
      PROVE  Goal
  BY <1>15
     DEF Monitor, durable, requests, world, TypeOK, RequestInv, Claims, Suspended,
         NoRequest
<1>16. ASSUME NEW p \in Printers, Report(p)
      PROVE  Goal
  BY <1>16
     DEF Report, durable, requests, world, TypeOK, RequestInv, Claims, Suspended,
         NoRequest
<1>17. ASSUME NEW p \in Printers, PrinterLocal(p)
      PROVE  Goal
  BY <1>17
     DEF PrinterLocal, durable, requests, world, TypeOK, RequestInv, Claims, Suspended,
         NoRequest
<1>18. ASSUME NEW p \in Printers, NEW f \in Firmwares, Discover(p, f)
      PROVE  Goal
  BY <1>18
     DEF Discover, durable, requests, world, TypeOK, RequestInv, Claims, Suspended,
         NoRequest
<1>19. CASE Crash
  BY <1>19
     DEF Crash, durable, requests, world, TypeOK, RequestInv, Claims, Suspended,
         NoRequest
<1>20. CASE Boot
  BY <1>20
     DEF Boot, durable, requests, world, TypeOK, RequestInv, Claims, Suspended,
         NoRequest
<1>21. CASE UNCHANGED vars
  BY <1>21
     DEF vars, durable, requests, world, TypeOK, RequestInv, Claims, Suspended,
         NoRequest
<1> QED
  BY <1>1, <1>2, <1>3, <1>4, <1>5, <1>6, <1>7, <1>8, <1>9, <1>10, <1>11, <1>12,
     <1>13, <1>14, <1>15, <1>16, <1>17, <1>18, <1>19, <1>20, <1>21
     DEF Next, RequestStep

LEMMA RequestKept ==
  ASSUME TypeOK, RequestInv, [Next]_vars, NEW x \in Calls, pc[x] # "idle"
  PROVE  req'[x] = req[x] /\ req[x].job \in Jobs
<1> DEFINE Goal == req'[x] = req[x] /\ req[x].job \in Jobs
<1>1. ASSUME NEW t \in Tokens, NEW j \in Jobs, ApprovePlan(t, j)
      PROVE  Goal
  BY <1>1 DEF ApprovePlan, IssueApproval, durable, requests, world, TypeOK, RequestInv
<1>2. ASSUME NEW t \in Tokens, NEW j \in Jobs, NEW op \in GuardedKinds, ApproveGuarded(t, j, op)
      PROVE  Goal
  BY <1>2
     DEF ApproveGuarded, IssueApproval, durable, requests, world, TypeOK, RequestInv
<1>3. ASSUME NEW t \in Tokens, NEW j \in Jobs, NEW c \in Calls, ExecuteBegin(c, j, t)
      PROVE  Goal
  BY <1>3
     DEF ExecuteBegin, Begin, Consume, Consumable, FailJob, durable, requests, world,
         TypeOK, RequestInv
<1>4. ASSUME NEW t \in Tokens, Expire(t)
      PROVE  Goal
  BY <1>4 DEF Expire, durable, requests, world, TypeOK, RequestInv
<1>5. ASSUME NEW c \in Calls, NEW j \in Jobs, NEW kind \in Kinds, OperationBegin(c, kind, j)
      PROVE  Goal
  BY <1>5 DEF OperationBegin, Begin, durable, requests, world, TypeOK, RequestInv
<1>6. ASSUME NEW c \in Calls, ExecutePreflight(c)
      PROVE  Goal
  BY <1>6
     DEF ExecutePreflight, At, AdvanceTo, FailJob, durable, requests, world, TypeOK,
         RequestInv
<1>7. ASSUME NEW c \in Calls, ExecuteUploaded(c)
      PROVE  Goal
  BY <1>7
     DEF ExecuteUploaded, At, AdvanceTo, FailJob, durable, requests, world, TypeOK,
         RequestInv
<1>8. ASSUME NEW c \in Calls, NEW t \in Tokens, OperationAuthorise(c, t)
      PROVE  Goal
  BY <1>8
     DEF OperationAuthorise, Consume, Consumable, durable, requests, world, TypeOK,
         RequestInv
<1>9. ASSUME NEW c \in Calls, Publish(c)
      PROVE  Goal
  BY <1>9 DEF Publish, durable, requests, world, TypeOK, RequestInv
<1>10. ASSUME NEW c \in Calls, AckSuccess(c)
      PROVE  Goal
  BY <1>10 DEF AckSuccess, durable, requests, world, TypeOK, RequestInv
<1>11. ASSUME NEW c \in Calls, CallFails(c)
      PROVE  Goal
  BY <1>11 DEF CallFails, FailJob, durable, requests, world, TypeOK, RequestInv
<1>12. ASSUME NEW c \in Calls, Abandon(c)
      PROVE  Goal
  BY <1>12 DEF Abandon, durable, requests, world, TypeOK, RequestInv
<1>13. ASSUME NEW c \in Calls, PrinterAccepts(c)
      PROVE  Goal
  BY <1>13 DEF PrinterAccepts, durable, requests, world, TypeOK, RequestInv
<1>14. ASSUME NEW c \in Calls, PrinterRejects(c)
      PROVE  Goal
  BY <1>14 DEF PrinterRejects, durable, requests, world, TypeOK, RequestInv
<1>15. ASSUME NEW j \in Jobs, Monitor(j)
      PROVE  Goal
  BY <1>15 DEF Monitor, durable, requests, world, TypeOK, RequestInv
<1>16. ASSUME NEW p \in Printers, Report(p)
      PROVE  Goal
  BY <1>16 DEF Report, durable, requests, world, TypeOK, RequestInv
<1>17. ASSUME NEW p \in Printers, PrinterLocal(p)
      PROVE  Goal
  BY <1>17 DEF PrinterLocal, durable, requests, world, TypeOK, RequestInv
<1>18. ASSUME NEW p \in Printers, NEW f \in Firmwares, Discover(p, f)
      PROVE  Goal
  BY <1>18 DEF Discover, durable, requests, world, TypeOK, RequestInv
<1>19. CASE Crash
  BY <1>19 DEF Crash, durable, requests, world, TypeOK, RequestInv
<1>20. CASE Boot
  BY <1>20 DEF Boot, durable, requests, world, TypeOK, RequestInv
<1>21. CASE UNCHANGED vars
  BY <1>21 DEF vars, durable, requests, world, TypeOK, RequestInv
<1> QED
  BY <1>1, <1>2, <1>3, <1>4, <1>5, <1>6, <1>7, <1>8, <1>9, <1>10, <1>11, <1>12,
     <1>13, <1>14, <1>15, <1>16, <1>17, <1>18, <1>19, <1>20, <1>21
     DEF Next, RequestStep

LEMMA ClaimStepInv == TypeOK /\ RequestInv /\ ClaimInv /\ PreparedInv /\ [Next]_vars => ClaimInv'
<1> SUFFICES ASSUME TypeOK, RequestInv, ClaimInv, PreparedInv, [Next]_vars PROVE ClaimInv'
  OBVIOUS
<1>1. ASSUME NEW x \in Calls, Claims(x)'
      PROVE  req'[x] = req[x] /\ req[x].job \in Jobs
  <2>1. CASE Claims(x)
    <3>1. pc[x] # "idle"
      BY <2>1 DEF Claims, RequestInv, NoRequest
    <3> QED BY <3>1, RequestKept
  <2>2. CASE ~Claims(x)
    BY <1>1, <2>2, ClaimStep
  <2> QED BY <2>1, <2>2
<1>2. ASSUME NEW x \in Calls, Claims(x)'
      PROVE  job'[req'[x].job] # "AWAITING_APPROVAL"
  <2> DEFINE k == req[x].job
  <2>1. k \in Jobs /\ job[k] \in JobState
    BY <1>1, <1>2 DEF TypeOK
  <2>2. CASE Claims(x)
    <3>1. job[k] # "AWAITING_APPROVAL" /\ job[k] \notin PreparationStates
      BY <2>1, <2>2 DEF ClaimInv, PreparedInv
    <3>2. job'[k] \in {job[k]} \cup ALLOWED_TRANSITIONS[job[k]]
      BY <2>1, JobMoves
    <3>3. job'[k] # "AWAITING_APPROVAL"
      BY <2>1, <3>1, <3>2, TransitionTable
    <3> QED BY <1>1, <1>2, <3>3
  <2>3. CASE ~Claims(x)
    BY <1>2, <2>3, ClaimStep
  <2> QED BY <2>2, <2>3
<1>3. ASSUME NEW x \in Calls, NEW y \in Calls, Claims(x)', Claims(y)', req'[x].job = req'[y].job
      PROVE  x = y
  <2>1. req[x].job = req[y].job
    BY <1>1, <1>3
  <2>2. CASE Claims(x) /\ Claims(y)
    BY <2>1, <2>2 DEF ClaimInv
  <2>3. CASE ~Claims(x)
    <3>1. job[req[x].job] = "AWAITING_APPROVAL" /\ (x # y => Claims(y))
      BY <1>3, <2>3, ClaimStep
    <3> QED BY <2>1, <3>1 DEF ClaimInv
  <2>4. CASE ~Claims(y)
    <3>1. job[req[y].job] = "AWAITING_APPROVAL" /\ (x # y => Claims(x))
      BY <1>3, <2>4, ClaimStep
    <3> QED BY <2>1, <3>1 DEF ClaimInv
  <2> QED BY <2>2, <2>3, <2>4
<1> QED BY <1>2, <1>3 DEF ClaimInv

LEMMA PreparedStepInv == TypeOK /\ RequestInv /\ PreparedInv /\ [Next]_vars => PreparedInv'
<1> SUFFICES ASSUME TypeOK, RequestInv, PreparedInv, [Next]_vars, NEW k \in Jobs
             PROVE  job'[k] \notin PreparationStates
  BY DEF PreparedInv
<1>1. job[k] \in JobState /\ job[k] \notin PreparationStates
  BY DEF TypeOK, PreparedInv
<1>2. job'[k] \in {job[k]} \cup ALLOWED_TRANSITIONS[job[k]]
  BY JobMoves
<1> QED BY <1>1, <1>2, TransitionTable

(* PastStarting is never left again.                                       *)
LEMMA PastStartingKept ==
  ASSUME NEW s \in Lifecycle!PastStarting
  PROVE  {s} \cup ALLOWED_TRANSITIONS[s] \subseteq Lifecycle!PastStarting
<1>1. s \in JobState /\ s \notin PreparationStates \cup {"AWAITING_APPROVAL", "UPLOADING"}
  BY
     DEF Lifecycle!PastStarting, Lifecycle!PreparationStates, Lifecycle!JobState,
         JobState, PreparationStates
<1>2. ALLOWED_TRANSITIONS[s] \subseteq
        JobState \ (PreparationStates \cup {"AWAITING_APPROVAL", "UPLOADING"})
  BY <1>1, TransitionTable
<1> QED
  BY <1>1, <1>2
     DEF Lifecycle!PastStarting, Lifecycle!PreparationStates, Lifecycle!JobState, JobState, PreparationStates

LEMMA PublishStepInv == TypeOK /\ RequestInv /\ PublishInv /\ [Next]_vars => PublishInv'
<1> SUFFICES ASSUME TypeOK, RequestInv, PublishInv, [Next]_vars, NEW x \in Calls,
                    req'[x].kind = "execute", pc'[x] = "publish"
             PROVE  job'[req'[x].job] \in Lifecycle!PastStarting
  BY DEF PublishInv
<1>1. CASE pc[x] = "publish"
  <2>1. req'[x] = req[x] /\ req[x].job \in Jobs
    BY <1>1, RequestKept
  <2>2. job[req[x].job] \in Lifecycle!PastStarting
    BY <1>1, <2>1 DEF PublishInv
  <2>3. job'[req[x].job] \in {job[req[x].job]} \cup ALLOWED_TRANSITIONS[job[req[x].job]]
    BY <2>1, JobMoves
  <2> QED BY <2>1, <2>2, <2>3, PastStartingKept
<1>2. CASE pc[x] # "publish"
  <2>1. ExecuteUploaded(x)
    <3> DEFINE Goal == ExecuteUploaded(x)
    <3>1. ASSUME NEW t \in Tokens, NEW j \in Jobs, ApprovePlan(t, j)
          PROVE  Goal
      BY <3>1, <1>2
         DEF ApprovePlan, IssueApproval, durable, requests, world, TypeOK, RequestInv,
             Suspended, GuardedKinds, CallKinds
    <3>2. ASSUME NEW t \in Tokens, NEW j \in Jobs, NEW op \in GuardedKinds, ApproveGuarded(t, j, op)
          PROVE  Goal
      BY <3>2, <1>2
         DEF ApproveGuarded, IssueApproval, durable, requests, world, TypeOK,
             RequestInv, Suspended, GuardedKinds, CallKinds
    <3>3. ASSUME NEW t \in Tokens, NEW j \in Jobs, NEW c \in Calls, ExecuteBegin(c, j, t)
          PROVE  Goal
      BY <3>3, <1>2
         DEF ExecuteBegin, Begin, Consume, Consumable, FailJob, durable, requests,
             world, TypeOK, RequestInv, Suspended, GuardedKinds, CallKinds
    <3>4. ASSUME NEW t \in Tokens, Expire(t)
          PROVE  Goal
      BY <3>4, <1>2
         DEF Expire, durable, requests, world, TypeOK, RequestInv, Suspended,
             GuardedKinds, CallKinds
    <3>5. ASSUME NEW c \in Calls, NEW j \in Jobs, NEW kind \in Kinds, OperationBegin(c, kind, j)
          PROVE  Goal
      BY <3>5, <1>2
         DEF OperationBegin, Begin, durable, requests, world, TypeOK, RequestInv,
             Suspended, GuardedKinds, CallKinds
    <3>6. ASSUME NEW c \in Calls, ExecutePreflight(c)
          PROVE  Goal
      BY <3>6, <1>2
         DEF ExecutePreflight, At, AdvanceTo, FailJob, durable, requests, world, TypeOK,
             RequestInv, Suspended, GuardedKinds, CallKinds
    <3>7. ASSUME NEW c \in Calls, ExecuteUploaded(c)
          PROVE  Goal
      BY <3>7, <1>2 DEF ExecuteUploaded, At, AdvanceTo, TypeOK
    <3>8. ASSUME NEW c \in Calls, NEW t \in Tokens, OperationAuthorise(c, t)
          PROVE  Goal
      BY <3>8, <1>2
         DEF OperationAuthorise, Consume, Consumable, durable, requests, world, TypeOK,
             RequestInv, Suspended, GuardedKinds, CallKinds
    <3>9. ASSUME NEW c \in Calls, Publish(c)
          PROVE  Goal
      BY <3>9, <1>2
         DEF Publish, durable, requests, world, TypeOK, RequestInv, Suspended,
             GuardedKinds, CallKinds
    <3>10. ASSUME NEW c \in Calls, AckSuccess(c)
          PROVE  Goal
      BY <3>10, <1>2
         DEF AckSuccess, durable, requests, world, TypeOK, RequestInv, Suspended,
             GuardedKinds, CallKinds
    <3>11. ASSUME NEW c \in Calls, CallFails(c)
          PROVE  Goal
      BY <3>11, <1>2
         DEF CallFails, FailJob, durable, requests, world, TypeOK, RequestInv,
             Suspended, GuardedKinds, CallKinds
    <3>12. ASSUME NEW c \in Calls, Abandon(c)
          PROVE  Goal
      BY <3>12, <1>2
         DEF Abandon, durable, requests, world, TypeOK, RequestInv, Suspended,
             GuardedKinds, CallKinds
    <3>13. ASSUME NEW c \in Calls, PrinterAccepts(c)
          PROVE  Goal
      BY <3>13, <1>2
         DEF PrinterAccepts, durable, requests, world, TypeOK, RequestInv, Suspended,
             GuardedKinds, CallKinds
    <3>14. ASSUME NEW c \in Calls, PrinterRejects(c)
          PROVE  Goal
      BY <3>14, <1>2
         DEF PrinterRejects, durable, requests, world, TypeOK, RequestInv, Suspended,
             GuardedKinds, CallKinds
    <3>15. ASSUME NEW j \in Jobs, Monitor(j)
          PROVE  Goal
      BY <3>15, <1>2
         DEF Monitor, durable, requests, world, TypeOK, RequestInv, Suspended,
             GuardedKinds, CallKinds
    <3>16. ASSUME NEW p \in Printers, Report(p)
          PROVE  Goal
      BY <3>16, <1>2
         DEF Report, durable, requests, world, TypeOK, RequestInv, Suspended,
             GuardedKinds, CallKinds
    <3>17. ASSUME NEW p \in Printers, PrinterLocal(p)
          PROVE  Goal
      BY <3>17, <1>2
         DEF PrinterLocal, durable, requests, world, TypeOK, RequestInv, Suspended,
             GuardedKinds, CallKinds
    <3>18. ASSUME NEW p \in Printers, NEW f \in Firmwares, Discover(p, f)
          PROVE  Goal
      BY <3>18, <1>2
         DEF Discover, durable, requests, world, TypeOK, RequestInv, Suspended,
             GuardedKinds, CallKinds
    <3>19. CASE Crash
      BY <3>19, <1>2
         DEF Crash, durable, requests, world, TypeOK, RequestInv, Suspended,
             GuardedKinds, CallKinds
    <3>20. CASE Boot
      BY <3>20, <1>2
         DEF Boot, durable, requests, world, TypeOK, RequestInv, Suspended,
             GuardedKinds, CallKinds
    <3>21. CASE UNCHANGED vars
      BY <3>21, <1>2
         DEF vars, durable, requests, world, TypeOK, RequestInv, Suspended,
             GuardedKinds, CallKinds
    <3> QED
      BY <3>1, <3>2, <3>3, <3>4, <3>5, <3>6, <3>7, <3>8, <3>9, <3>10, <3>11, <3>12,
         <3>13, <3>14, <3>15, <3>16, <3>17, <3>18, <3>19, <3>20, <3>21
         DEF Next, RequestStep
  <2>2. req'[x] = req[x] /\ req[x].job \in Jobs
    BY <2>1, RequestKept DEF ExecuteUploaded, At
  <2>3. job'[req[x].job] = "STARTING"
    BY <1>2, <2>1, <2>2 DEF ExecuteUploaded, At, AdvanceTo, TypeOK
  <2> QED
    BY <2>2, <2>3
       DEF Lifecycle!PastStarting, Lifecycle!PreparationStates, Lifecycle!JobState
<1> QED BY <1>1, <1>2
-----------------------------------------------------------------------------
(* The theorems.                                                            *)

(* IndInv holds in every reachable state.                                  *)
THEOREM Inductive == Spec => []IndInv
<1>1. Init => IndInv
  <2> SUFFICES ASSUME Init PROVE IndInv
    OBVIOUS
  <2>1. TypeOK
    BY TypeInit
  <2>2. RequestInv
    BY DEF Init, RequestInv, NoRequest, CallKinds, GuardedKinds
  <2>3. TokenInv
    BY ConstantsAssumption DEF Init, TokenInv
  <2>4. ClaimInv /\ PublishInv
    BY DEF Init, ClaimInv, Claims, PublishInv
  <2>5. PreparedInv
    BY DEF Init, PreparedInv, PreparationStates
  <2> QED BY <2>1, <2>2, <2>3, <2>4, <2>5 DEF IndInv
<1>2. IndInv /\ [Next]_vars => IndInv'
  BY TypeStep, RequestStepInv, TokenStepInv, ClaimStepInv, PublishStepInv, PreparedStepInv
     DEF IndInv
<1> QED BY <1>1, <1>2, PTL DEF Spec

(* However many approvals, executions, crashes and restarts: at most one   *)
(* request ever sends the start command of a job.                          *)
THEOREM AtMostOneStart == Spec => []StartedAtMostOnce
<1>1. IndInv => StartedAtMostOnce
  BY DEF IndInv, ClaimInv, Claims, StartedAtMostOnce, IsExecute
<1> QED BY <1>1, Inductive, PTL

(* Every guarded command on the wire consumed an approval of its own for   *)
(* exactly its job and operation.                                          *)
THEOREM ApprovedEffects == Spec => []EffectsAreApproved
<1>1. IndInv => EffectsAreApproved
  <2> SUFFICES ASSUME IndInv, NEW c \in Calls,
                      wire[c] # "unsent", req[c].kind \in GuardedKinds \cup {"execute"}
               PROVE  /\ token[c] \in Tokens
                      /\ approval[token[c]].status = "used"
                      /\ approval[token[c]].job = req[c].job
                      /\ approval[token[c]].op = req[c].kind
                      /\ \A d \in Calls \ {c} : token[d] # token[c]
    BY DEF EffectsAreApproved
  <2>1. token[c] \in Tokens
    BY DEF IndInv, RequestInv
  <2> QED BY <2>1 DEF IndInv, TokenInv
<1> QED BY <1>1, Inductive, PTL

-----------------------------------------------------------------------------
(* Invariants about a job and the requests that moved it.                  *)

(* A request once authorised stays so, and a command that was executed or  *)
(* sent stays so.                                                          *)
LEMMA Kept ==
  ASSUME TypeOK, RequestInv, [Next]_vars, NEW x \in Calls, pc[x] # "idle"
  PROVE  /\ req'[x] = req[x]
         /\ token[x] \in Tokens => token'[x] = token[x]
         /\ wire[x] = "accepted" => wire'[x] = "accepted"
         /\ wire[x] # "unsent" => wire'[x] # "unsent"
<1> DEFINE Goal == /\ req'[x] = req[x]
                   /\ token[x] \in Tokens => token'[x] = token[x]
                   /\ wire[x] = "accepted" => wire'[x] = "accepted"
                   /\ wire[x] # "unsent" => wire'[x] # "unsent"
<1>1. ASSUME NEW t \in Tokens, NEW j \in Jobs, ApprovePlan(t, j)
      PROVE  Goal
  BY <1>1 DEF ApprovePlan, IssueApproval, durable, requests, world, TypeOK, RequestInv
<1>2. ASSUME NEW t \in Tokens, NEW j \in Jobs, NEW op \in GuardedKinds, ApproveGuarded(t, j, op)
      PROVE  Goal
  BY <1>2
     DEF ApproveGuarded, IssueApproval, durable, requests, world, TypeOK, RequestInv
<1>3. ASSUME NEW t \in Tokens, NEW j \in Jobs, NEW c \in Calls, ExecuteBegin(c, j, t)
      PROVE  Goal
  BY <1>3
     DEF ExecuteBegin, Begin, Consume, Consumable, FailJob, durable, requests, world,
         TypeOK, RequestInv
<1>4. ASSUME NEW t \in Tokens, Expire(t)
      PROVE  Goal
  BY <1>4 DEF Expire, durable, requests, world, TypeOK, RequestInv
<1>5. ASSUME NEW c \in Calls, NEW j \in Jobs, NEW kind \in Kinds, OperationBegin(c, kind, j)
      PROVE  Goal
  BY <1>5 DEF OperationBegin, Begin, durable, requests, world, TypeOK, RequestInv
<1>6. ASSUME NEW c \in Calls, ExecutePreflight(c)
      PROVE  Goal
  BY <1>6
     DEF ExecutePreflight, At, AdvanceTo, FailJob, durable, requests, world, TypeOK,
         RequestInv
<1>7. ASSUME NEW c \in Calls, ExecuteUploaded(c)
      PROVE  Goal
  BY <1>7
     DEF ExecuteUploaded, At, AdvanceTo, FailJob, durable, requests, world, TypeOK,
         RequestInv
<1>8. ASSUME NEW c \in Calls, NEW t \in Tokens, OperationAuthorise(c, t)
      PROVE  Goal
  BY <1>8, ConstantsAssumption
     DEF OperationAuthorise, Consume, world, TypeOK, RequestInv
<1>9. ASSUME NEW c \in Calls, Publish(c)
      PROVE  Goal
  BY <1>9 DEF Publish, durable, requests, world, TypeOK, RequestInv
<1>10. ASSUME NEW c \in Calls, AckSuccess(c)
      PROVE  Goal
  BY <1>10 DEF AckSuccess, durable, requests, world, TypeOK, RequestInv
<1>11. ASSUME NEW c \in Calls, CallFails(c)
      PROVE  Goal
  BY <1>11 DEF CallFails, FailJob, durable, requests, world, TypeOK, RequestInv
<1>12. ASSUME NEW c \in Calls, Abandon(c)
      PROVE  Goal
  BY <1>12 DEF Abandon, durable, requests, world, TypeOK, RequestInv
<1>13. ASSUME NEW c \in Calls, PrinterAccepts(c)
      PROVE  Goal
  BY <1>13 DEF PrinterAccepts, durable, requests, world, TypeOK, RequestInv
<1>14. ASSUME NEW c \in Calls, PrinterRejects(c)
      PROVE  Goal
  BY <1>14 DEF PrinterRejects, durable, requests, world, TypeOK, RequestInv
<1>15. ASSUME NEW j \in Jobs, Monitor(j)
      PROVE  Goal
  BY <1>15 DEF Monitor, durable, requests, world, TypeOK, RequestInv
<1>16. ASSUME NEW p \in Printers, Report(p)
      PROVE  Goal
  BY <1>16 DEF Report, durable, requests, world, TypeOK, RequestInv
<1>17. ASSUME NEW p \in Printers, PrinterLocal(p)
      PROVE  Goal
  BY <1>17 DEF PrinterLocal, durable, requests, world, TypeOK, RequestInv
<1>18. ASSUME NEW p \in Printers, NEW f \in Firmwares, Discover(p, f)
      PROVE  Goal
  BY <1>18 DEF Discover, durable, requests, world, TypeOK, RequestInv
<1>19. CASE Crash
  BY <1>19 DEF Crash, durable, requests, world, TypeOK, RequestInv
<1>20. CASE Boot
  BY <1>20 DEF Boot, durable, requests, world, TypeOK, RequestInv
<1>21. CASE UNCHANGED vars
  BY <1>21 DEF vars, durable, requests, world, TypeOK, RequestInv
<1> QED
  BY <1>1, <1>2, <1>3, <1>4, <1>5, <1>6, <1>7, <1>8, <1>9, <1>10, <1>11, <1>12,
     <1>13, <1>14, <1>15, <1>16, <1>17, <1>18, <1>19, <1>20, <1>21
     DEF Next, RequestStep

(* The step that makes a job UPLOADING, STARTING, or CANCELLED.            *)
LEMMA JobCauses ==
  ASSUME TypeOK, RequestInv, [Next]_vars, NEW k \in Jobs, job'[k] # job[k]
  PROVE  /\ job'[k] = "UPLOADING" => \E x \in Calls : ExecutePreflight(x) /\ IsExecute(x, k)
         /\ job'[k] = "STARTING" => \E x \in Calls : ExecuteUploaded(x) /\ IsExecute(x, k)
         /\ job'[k] = "CANCELLED" =>
              \E x \in Calls : AckSuccess(x) /\ req[x] = [kind |-> "cancel", job |-> k]
<1> DEFINE Goal ==
      /\ job'[k] = "UPLOADING" => \E x \in Calls : ExecutePreflight(x) /\ IsExecute(x, k)
      /\ job'[k] = "STARTING" => \E x \in Calls : ExecuteUploaded(x) /\ IsExecute(x, k)
      /\ job'[k] = "CANCELLED" =>
           \E x \in Calls : AckSuccess(x) /\ req[x] = [kind |-> "cancel", job |-> k]
<1>a. job[k] \in JobState /\ job \in [Jobs -> JobState]
  BY DEF TypeOK
<1>b. /\ Failed(job[k]) \in {job[k], "FAILED"}
      /\ Recovered(job[k]) \in {job[k], "FAILED"}
      /\ \A kind : Acknowledged(kind, job[k]) \in {job[k], "RUNNING", "FAILED", "CANCELLED", "PAUSED"}
      /\ \A kind : Acknowledged(kind, job[k]) = "CANCELLED" => job[k] = "CANCELLED" \/ kind = "cancel"
  BY <1>a, Moves
<1>1. ASSUME NEW t \in Tokens, NEW j \in Jobs, ApprovePlan(t, j)
      PROVE  Goal
  BY <1>1, <1>a, <1>b DEF ApprovePlan, IssueApproval, durable, requests, world
<1>2. ASSUME NEW t \in Tokens, NEW j \in Jobs, NEW op \in GuardedKinds, ApproveGuarded(t, j, op)
      PROVE  Goal
  BY <1>2, <1>a, <1>b DEF ApproveGuarded, IssueApproval, durable, requests, world
<1>3. ASSUME NEW t \in Tokens, NEW j \in Jobs, NEW c \in Calls, ExecuteBegin(c, j, t)
      PROVE  Goal
  BY <1>3, <1>a, <1>b
     DEF ExecuteBegin, Begin, Consume, Consumable, FailJob, durable, requests, world
<1>4. ASSUME NEW t \in Tokens, Expire(t)
      PROVE  Goal
  BY <1>4, <1>a, <1>b DEF Expire, durable, requests, world
<1>5. ASSUME NEW c \in Calls, NEW j \in Jobs, NEW kind \in Kinds, OperationBegin(c, kind, j)
      PROVE  Goal
  BY <1>5, <1>a, <1>b DEF OperationBegin, Begin, durable, requests, world
<1>6. ASSUME NEW c \in Calls, ExecutePreflight(c)
      PROVE  Goal
  BY <1>6, <1>a, <1>b DEF ExecutePreflight, At, AdvanceTo, FailJob, IsExecute
<1>7. ASSUME NEW c \in Calls, ExecuteUploaded(c)
      PROVE  Goal
  BY <1>7, <1>a, <1>b DEF ExecuteUploaded, At, AdvanceTo, FailJob, IsExecute
<1>8. ASSUME NEW c \in Calls, NEW t \in Tokens, OperationAuthorise(c, t)
      PROVE  Goal
  BY <1>8, <1>a, <1>b
     DEF OperationAuthorise, Consume, Consumable, durable, requests, world
<1>9. ASSUME NEW c \in Calls, Publish(c)
      PROVE  Goal
  BY <1>9, <1>a, <1>b DEF Publish, durable, requests, world
<1>10. ASSUME NEW c \in Calls, AckSuccess(c)
      PROVE  Goal
  <2>1. k = req[c].job /\ job'[k] = Acknowledged(req[c].kind, job[k])
    BY <1>10, <1>a DEF AckSuccess
  <2>2. req[c] \in Requests
    BY DEF TypeOK
  <2> QED BY <1>10, <2>1, <2>2, <1>b DEF Requests
<1>11. ASSUME NEW c \in Calls, CallFails(c)
      PROVE  Goal
  BY <1>11, <1>a, <1>b DEF CallFails, FailJob, durable, requests, world
<1>12. ASSUME NEW c \in Calls, Abandon(c)
      PROVE  Goal
  BY <1>12, <1>a, <1>b DEF Abandon, durable, requests, world
<1>13. ASSUME NEW c \in Calls, PrinterAccepts(c)
      PROVE  Goal
  BY <1>13, <1>a, <1>b DEF PrinterAccepts, durable, requests, world
<1>14. ASSUME NEW c \in Calls, PrinterRejects(c)
      PROVE  Goal
  BY <1>14, <1>a, <1>b DEF PrinterRejects, durable, requests, world
<1>15. ASSUME NEW j \in Jobs, Monitor(j)
      PROVE  Goal
  BY <1>15, <1>a DEF Monitor, MonitorTarget
<1>16. ASSUME NEW p \in Printers, Report(p)
      PROVE  Goal
  BY <1>16, <1>a, <1>b DEF Report, durable, requests, world
<1>17. ASSUME NEW p \in Printers, PrinterLocal(p)
      PROVE  Goal
  BY <1>17, <1>a, <1>b DEF PrinterLocal, durable, requests, world
<1>18. ASSUME NEW p \in Printers, NEW f \in Firmwares, Discover(p, f)
      PROVE  Goal
  BY <1>18, <1>a, <1>b DEF Discover, durable, requests, world
<1>19. CASE Crash
  BY <1>19, <1>a, <1>b DEF Crash, durable, requests, world
<1>20. CASE Boot
  BY <1>20, <1>a, <1>b DEF Boot
<1>21. CASE UNCHANGED vars
  BY <1>21, <1>a, <1>b DEF vars, durable, requests, world
<1> QED
  BY <1>1, <1>2, <1>3, <1>4, <1>5, <1>6, <1>7, <1>8, <1>9, <1>10, <1>11, <1>12,
     <1>13, <1>14, <1>15, <1>16, <1>17, <1>18, <1>19, <1>20, <1>21
     DEF Next, RequestStep

LEMMA ExecuteNotIdle ==
  ASSUME RequestInv, NEW x \in Calls, NEW k, IsExecute(x, k)
  PROVE  pc[x] # "idle" /\ token[x] \in Tokens
BY DEF RequestInv, IsExecute, NoRequest

(* Nothing gets past AWAITING_APPROVAL without a consumed plan approval.   *)
LEMMA AheadStep ==
  TypeOK /\ RequestInv /\ PreparedInv /\ NoJobAheadOfItsApproval /\ [Next]_vars
    => NoJobAheadOfItsApproval'
<1> SUFFICES ASSUME TypeOK, RequestInv, PreparedInv, NoJobAheadOfItsApproval, [Next]_vars, NEW k \in Jobs,
                    job'[k] \notin {"AWAITING_APPROVAL", "FAILED", "CANCELLED"}
             PROVE  \E x \in Calls : IsExecute(x, k)' /\ token'[x] \in Tokens
  BY DEF NoJobAheadOfItsApproval
<1>1. ASSUME NEW x \in Calls, IsExecute(x, k)
      PROVE  \E y \in Calls : IsExecute(y, k)' /\ token'[y] \in Tokens
  BY <1>1, ExecuteNotIdle, Kept DEF IsExecute
<1>2. CASE job[k] \notin {"AWAITING_APPROVAL", "FAILED", "CANCELLED"}
  BY <1>1, <1>2 DEF NoJobAheadOfItsApproval
<1>3. CASE job[k] \in {"AWAITING_APPROVAL", "FAILED", "CANCELLED"}
  <2>1. job'[k] \in ALLOWED_TRANSITIONS[job[k]] /\ job[k] \in JobState
    BY <1>3, JobMoves DEF TypeOK
  <2>2. job[k] = "AWAITING_APPROVAL" /\ job'[k] = "UPLOADING"
    <3>1. job[k] = "AWAITING_APPROVAL"
      BY <1>3, <2>1, TransitionTable DEF TERMINAL_STATES
    <3>2. job'[k] \in Forward[job[k]]
      BY <2>1, <3>1 DEF ALLOWED_TRANSITIONS, TERMINAL_STATES
    <3> QED BY <2>1, <3>1, <3>2 DEF Forward, Arrows
  <2>3. PICK x \in Calls : IsExecute(x, k)
    BY <2>2, JobCauses
  <2> QED BY <1>1, <2>3
<1> QED BY <1>2, <1>3

(* No job is past AWAITING_APPROVAL without a request that spent an        *)
(* approval of the job on it.                                              *)
THEOREM NoneAhead == Spec => []NoJobAheadOfItsApproval
<1>1. Init => NoJobAheadOfItsApproval
  BY DEF Init, NoJobAheadOfItsApproval
<1>2. IndInv /\ NoJobAheadOfItsApproval /\ [Next]_vars => NoJobAheadOfItsApproval'
  BY AheadStep DEF IndInv
<1> QED BY <1>1, <1>2, Inductive, PTL DEF Spec

(* CANCELLED only after an acknowledged, approved stop of this job.        *)
LEMMA CancelledStep ==
  TypeOK /\ RequestInv /\ CancelledWasStopped /\ [Next]_vars => CancelledWasStopped'
<1> SUFFICES ASSUME TypeOK, RequestInv, CancelledWasStopped, [Next]_vars, NEW k \in Jobs,
                    job'[k] = "CANCELLED"
             PROVE  \E x \in Calls : /\ req'[x] = [kind |-> "cancel", job |-> k]
                                     /\ wire'[x] = "accepted"
                                     /\ token'[x] \in Tokens
  BY DEF CancelledWasStopped
<1> DEFINE Stopped(x) == /\ req[x] = [kind |-> "cancel", job |-> k]
                         /\ wire[x] = "accepted"
                         /\ token[x] \in Tokens
<1>1. PICK x \in Calls : Stopped(x)
  <2>1. CASE job[k] = "CANCELLED"
    BY <2>1 DEF CancelledWasStopped
  <2>2. CASE job[k] # "CANCELLED"
    <3>1. PICK x \in Calls : AckSuccess(x) /\ req[x] = [kind |-> "cancel", job |-> k]
      BY <2>2, JobCauses
    <3>2. wire[x] = "accepted" /\ req[x].kind = "cancel"
      BY <3>1 DEF AckSuccess
    <3>3. token[x] \in Tokens
      BY <3>2 DEF RequestInv, GuardedKinds
    <3> QED BY <3>1, <3>2, <3>3
  <2> QED BY <2>1, <2>2
<1>2. pc[x] # "idle"
  BY <1>1 DEF RequestInv
<1> QED BY <1>1, <1>2, Kept

(* A job is CANCELLED only after the printer acknowledged an approved stop *)
(* of this job.                                                            *)
THEOREM CancelledStopped == Spec => []CancelledWasStopped
<1>1. Init => CancelledWasStopped
  BY DEF Init, CancelledWasStopped
<1>2. IndInv /\ CancelledWasStopped /\ [Next]_vars => CancelledWasStopped'
  BY CancelledStep DEF IndInv
<1> QED BY <1>1, <1>2, Inductive, PTL DEF Spec

-----------------------------------------------------------------------------
(* Interrupted jobs and the requests that own them.                        *)

Holds(c, s) ==
  pc[c] \in (IF s = "UPLOADING" THEN {"upload"} ELSE {"publish", "ack"}) \cup {"abandoned"}

(* The service comes up by a boot only, and no row moves while it is down. *)
LEMMA Down ==
  ASSUME [Next]_vars, ~up
  PROVE  (up' => Boot) /\ (~up' => job' = job)
<1> DEFINE Goal == (up' => Boot) /\ (~up' => job' = job)
<1>1. ASSUME NEW t \in Tokens, NEW j \in Jobs, ApprovePlan(t, j)
      PROVE  Goal
  BY <1>1, ~up
     DEF ApprovePlan, IssueApproval, durable, requests, world
<1>2. ASSUME NEW t \in Tokens, NEW j \in Jobs, NEW op \in GuardedKinds, ApproveGuarded(t,
   j, op)
      PROVE  Goal
  BY <1>2, ~up
     DEF ApproveGuarded, IssueApproval, durable, requests, world
<1>3. ASSUME NEW t \in Tokens, NEW j \in Jobs, NEW c \in Calls, ExecuteBegin(c, j, t)
      PROVE  Goal
  BY <1>3, ~up
     DEF ExecuteBegin, Begin, Consume, FailJob, durable, requests, world
<1>4. ASSUME NEW t \in Tokens, Expire(t)
      PROVE  Goal
  BY <1>4, ~up
     DEF Expire, durable, requests, world
<1>5. ASSUME NEW c \in Calls, NEW j \in Jobs, NEW kind \in Kinds, OperationBegin(c, kind, j)
      PROVE  Goal
  BY <1>5, ~up
     DEF OperationBegin, Begin, durable, requests, world
<1>6. ASSUME NEW c \in Calls, ExecutePreflight(c)
      PROVE  Goal
  BY <1>6, ~up
     DEF ExecutePreflight, At, AdvanceTo, FailJob, durable, requests, world
<1>7. ASSUME NEW c \in Calls, ExecuteUploaded(c)
      PROVE  Goal
  BY <1>7, ~up
     DEF ExecuteUploaded, At, AdvanceTo, FailJob, durable, requests, world
<1>8. ASSUME NEW c \in Calls, NEW t \in Tokens, OperationAuthorise(c, t)
      PROVE  Goal
  BY <1>8, ~up
     DEF OperationAuthorise, Consume, durable, requests, world
<1>9. ASSUME NEW c \in Calls, Publish(c)
      PROVE  Goal
  BY <1>9, ~up
     DEF Publish, durable, requests, world
<1>10. ASSUME NEW c \in Calls, AckSuccess(c)
      PROVE  Goal
  BY <1>10, ~up
     DEF AckSuccess, durable, requests, world
<1>11. ASSUME NEW c \in Calls, CallFails(c)
      PROVE  Goal
  BY <1>11, ~up
     DEF CallFails, FailJob, durable, requests, world
<1>12. ASSUME NEW c \in Calls, Abandon(c)
      PROVE  Goal
  BY <1>12, ~up
     DEF Abandon, durable, requests, world
<1>13. ASSUME NEW c \in Calls, PrinterAccepts(c)
      PROVE  Goal
  BY <1>13, ~up
     DEF PrinterAccepts, durable, requests, world
<1>14. ASSUME NEW c \in Calls, PrinterRejects(c)
      PROVE  Goal
  BY <1>14, ~up
     DEF PrinterRejects, durable, requests, world
<1>15. ASSUME NEW j \in Jobs, Monitor(j)
      PROVE  Goal
  BY <1>15, ~up
     DEF Monitor, durable, requests, world
<1>16. ASSUME NEW p \in Printers, Report(p)
      PROVE  Goal
  BY <1>16, ~up
     DEF Report, durable, requests, world
<1>17. ASSUME NEW p \in Printers, PrinterLocal(p)
      PROVE  Goal
  BY <1>17, ~up
     DEF PrinterLocal, durable, requests, world
<1>18. ASSUME NEW p \in Printers, NEW f \in Firmwares, Discover(p, f)
      PROVE  Goal
  BY <1>18, ~up
     DEF Discover, durable, requests, world
<1>19. CASE Crash
  BY <1>19, ~up
     DEF Crash, durable, requests, world
<1>20. CASE Boot
  BY <1>20, ~up
     DEF Boot, durable, requests, world
<1>21. CASE UNCHANGED vars
  BY <1>21, ~up
     DEF vars, durable, requests, world
<1> QED
  BY <1>1, <1>2, <1>3, <1>4, <1>5, <1>6, <1>7, <1>8, <1>9, <1>10, <1>11, <1>12, <1>13,
     <1>14, <1>15, <1>16, <1>17, <1>18, <1>19, <1>20, <1>21
     DEF Next, RequestStep

(* The owner of an interrupted job gives it up by moving it on, or is      *)
(* cancelled and holds it for good.                                        *)
LEMMA HoldsStep ==
  ASSUME TypeOK, RequestInv, [Next]_vars, NEW x \in Calls, NEW k \in Jobs, up, up',
         IsExecute(x, k), Holds(x, job[k]), job[k] \in INTERRUPTED_STATES, job'[k] = job[k]
  PROVE  Holds(x, job[k])'
<1> DEFINE Goal == Holds(x, job[k])'
<1>a. job \in [Jobs -> JobState] /\ job[k] \in JobState /\ pc \in [Calls -> PCs]
  BY DEF TypeOK
<1>b. /\ req[x].kind = "execute" /\ req[x].job = k
      /\ pc[x] \in {"upload", "publish", "ack", "abandoned"}
  BY DEF IsExecute, Holds
<1>c. /\ job[k] \in {"UPLOADING", "STARTING"}
      /\ pc[x] = "upload" => job[k] = "UPLOADING"
      /\ pc[x] \in {"publish", "ack"} => job[k] = "STARTING"
  BY <1>b DEF Holds, INTERRUPTED_STATES
<1>d. Failed(job[k]) # job[k] /\ Acknowledged("execute", job[k]) # job[k]
  BY <1>a, <1>c, Moves DEF INTERRUPTED_STATES
<1>1. ASSUME NEW t \in Tokens, NEW j \in Jobs, ApprovePlan(t, j)
      PROVE  Goal
  BY <1>1, <1>a, <1>b, <1>c, <1>d
     DEF ApprovePlan, IssueApproval, durable, requests, world, Holds
<1>2. ASSUME NEW t \in Tokens, NEW j \in Jobs, NEW op \in GuardedKinds, ApproveGuarded(t,
   j, op)
      PROVE  Goal
  BY <1>2, <1>a, <1>b, <1>c, <1>d
     DEF ApproveGuarded, IssueApproval, durable, requests, world, Holds
<1>3. ASSUME NEW t \in Tokens, NEW j \in Jobs, NEW c \in Calls, ExecuteBegin(c, j, t)
      PROVE  Goal
  BY <1>3, <1>a, <1>b, <1>c, <1>d
     DEF ExecuteBegin, Begin, Consume, FailJob, durable, requests, world, Holds
<1>4. ASSUME NEW t \in Tokens, Expire(t)
      PROVE  Goal
  BY <1>4, <1>a, <1>b, <1>c, <1>d
     DEF Expire, durable, requests, world, Holds
<1>5. ASSUME NEW c \in Calls, NEW j \in Jobs, NEW kind \in Kinds, OperationBegin(c, kind, j)
      PROVE  Goal
  BY <1>5, <1>a, <1>b, <1>c, <1>d
     DEF OperationBegin, Begin, durable, requests, world, Holds
<1>6. ASSUME NEW c \in Calls, ExecutePreflight(c)
      PROVE  Goal
  BY <1>6, <1>a, <1>b, <1>c, <1>d
     DEF ExecutePreflight, At, AdvanceTo, FailJob, durable, requests, world, Holds
<1>7. ASSUME NEW c \in Calls, ExecuteUploaded(c)
      PROVE  Goal
  BY <1>7, <1>a, <1>b, <1>c, <1>d
     DEF ExecuteUploaded, At, AdvanceTo, FailJob, durable, requests, world, Holds
<1>8. ASSUME NEW c \in Calls, NEW t \in Tokens, OperationAuthorise(c, t)
      PROVE  Goal
  BY <1>8, <1>a, <1>b, <1>c, <1>d
     DEF OperationAuthorise, Consume, durable, requests, world, Holds
<1>9. ASSUME NEW c \in Calls, Publish(c)
      PROVE  Goal
  BY <1>9, <1>a, <1>b, <1>c, <1>d
     DEF Publish, durable, requests, world, Holds
<1>10. ASSUME NEW c \in Calls, AckSuccess(c)
      PROVE  Goal
  BY <1>10, <1>a, <1>b, <1>c, <1>d
     DEF AckSuccess, durable, requests, world, Holds
<1>11. ASSUME NEW c \in Calls, CallFails(c)
      PROVE  Goal
  BY <1>11, <1>a, <1>b, <1>c, <1>d
     DEF CallFails, FailJob, durable, requests, world, Holds
<1>12. ASSUME NEW c \in Calls, Abandon(c)
      PROVE  Goal
  BY <1>12, <1>a, <1>b, <1>c, <1>d
     DEF Abandon, durable, requests, world, Holds
<1>13. ASSUME NEW c \in Calls, PrinterAccepts(c)
      PROVE  Goal
  BY <1>13, <1>a, <1>b, <1>c, <1>d
     DEF PrinterAccepts, durable, requests, world, Holds
<1>14. ASSUME NEW c \in Calls, PrinterRejects(c)
      PROVE  Goal
  BY <1>14, <1>a, <1>b, <1>c, <1>d
     DEF PrinterRejects, durable, requests, world, Holds
<1>15. ASSUME NEW j \in Jobs, Monitor(j)
      PROVE  Goal
  BY <1>15, <1>a, <1>b, <1>c, <1>d
     DEF Monitor, durable, requests, world, Holds
<1>16. ASSUME NEW p \in Printers, Report(p)
      PROVE  Goal
  BY <1>16, <1>a, <1>b, <1>c, <1>d
     DEF Report, durable, requests, world, Holds
<1>17. ASSUME NEW p \in Printers, PrinterLocal(p)
      PROVE  Goal
  BY <1>17, <1>a, <1>b, <1>c, <1>d
     DEF PrinterLocal, durable, requests, world, Holds
<1>18. ASSUME NEW p \in Printers, NEW f \in Firmwares, Discover(p, f)
      PROVE  Goal
  BY <1>18, <1>a, <1>b, <1>c, <1>d
     DEF Discover, durable, requests, world, Holds
<1>19. CASE Crash
  BY <1>19, <1>a, <1>b, <1>c, <1>d
     DEF Crash, durable, requests, world, Holds
<1>20. CASE Boot
  BY <1>20, <1>a, <1>b, <1>c, <1>d
     DEF Boot, durable, requests, world, Holds
<1>21. CASE UNCHANGED vars
  BY <1>21, <1>a, <1>b, <1>c, <1>d
     DEF vars, durable, requests, world, Holds
<1> QED
  BY <1>1, <1>2, <1>3, <1>4, <1>5, <1>6, <1>7, <1>8, <1>9, <1>10, <1>11, <1>12, <1>13,
     <1>14, <1>15, <1>16, <1>17, <1>18, <1>19, <1>20, <1>21
     DEF Next, RequestStep

(* An execution that commits UPLOADING or STARTING goes on to the await    *)
(* that goes with it.                                                      *)
LEMMA Takes ==
  ASSUME TypeOK, NEW x \in Calls, NEW k \in Jobs, IsExecute(x, k), job'[k] # job[k],
         \/ ExecutePreflight(x) /\ job'[k] = "UPLOADING"
         \/ ExecuteUploaded(x) /\ job'[k] = "STARTING"
  PROVE  IsExecute(x, k)' /\ Holds(x, job[k])'
<1>1. job \in [Jobs -> JobState] /\ pc \in [Calls -> PCs] /\ req[x].job = k
  BY DEF TypeOK, IsExecute
<1>2. Failed(job[k]) \in {job[k], "FAILED"}
  BY <1>1, Moves
<1>3. CASE ExecutePreflight(x) /\ job'[k] = "UPLOADING"
  BY <1>1, <1>2, <1>3 DEF ExecutePreflight, AdvanceTo, FailJob, Holds, IsExecute
<1>4. CASE ExecuteUploaded(x) /\ job'[k] = "STARTING"
  BY <1>1, <1>2, <1>4 DEF ExecuteUploaded, AdvanceTo, FailJob, Holds, IsExecute
<1> QED BY <1>3, <1>4

LEMMA OwnedStep ==
  TypeOK /\ RequestInv /\ InFlightJobIsOwned /\ [Next]_vars => InFlightJobIsOwned'
<1> SUFFICES ASSUME TypeOK, RequestInv, InFlightJobIsOwned, [Next]_vars, NEW k \in Jobs,
                    up', job'[k] \in INTERRUPTED_STATES
             PROVE  \E x \in Calls : IsExecute(x, k)' /\ Holds(x, job[k])'
  BY DEF InFlightJobIsOwned, Holds
<1>1. job[k] \in JobState /\ job \in [Jobs -> JobState]
  BY DEF TypeOK
<1>2. up
  <2>1. CASE ~up
    <3>1. job'[k] = Recovered(job[k])
      BY <2>1, Down DEF Boot
    <3> QED BY <1>1, <3>1, Moves
  <2> QED BY <2>1
<1>3. CASE job'[k] = job[k]
  <2>1. PICK x \in Calls : IsExecute(x, k) /\ Holds(x, job[k])
    BY <1>2, <1>3 DEF InFlightJobIsOwned, Holds
  <2>2. Holds(x, job[k])'
    BY <1>2, <1>3, <2>1, HoldsStep
  <2>3. IsExecute(x, k)'
    BY <2>1, ExecuteNotIdle, Kept DEF IsExecute
  <2> QED BY <2>2, <2>3
<1>4. CASE job'[k] # job[k]
  BY <1>4, JobCauses, Takes DEF INTERRUPTED_STATES
<1> QED BY <1>3, <1>4

(* While the service runs, an interrupted job belongs to a request that is *)
(* at work on it, or was cancelled by its client; crashes leave none.      *)
THEOREM Owned == Spec => []InFlightJobIsOwned
<1>1. Init => InFlightJobIsOwned
  BY DEF Init, InFlightJobIsOwned, INTERRUPTED_STATES
<1>2. IndInv /\ InFlightJobIsOwned /\ [Next]_vars => InFlightJobIsOwned'
  BY OwnedStep DEF IndInv
<1> QED BY <1>1, <1>2, Inductive, PTL DEF Spec

(* Why a RUNNING job fails: its printer says so, or an execution of its    *)
(* own ends.                                                               *)
LEMMA FailureCauses ==
  ASSUME TypeOK, [Next]_vars, NEW k \in Jobs, job[k] = "RUNNING", job'[k] = "FAILED"
  PROVE  \/ reported[PrinterOf[k]] = "FAILED"
         \/ \E x \in Calls : IsExecute(x, k) /\ pc[x] \in Suspended /\ pc'[x] = "done"
<1> DEFINE Goal ==
      \/ reported[PrinterOf[k]] = "FAILED"
      \/ \E x \in Calls : IsExecute(x, k) /\ pc[x] \in Suspended /\ pc'[x] = "done"
<1>a. job \in [Jobs -> JobState] /\ pc \in [Calls -> PCs]
  BY DEF TypeOK
<1>b. \A kind : kind # "execute" => Acknowledged(kind, "RUNNING") # "FAILED"
  BY DEF Acknowledged, Transitioned
<1>c. Recovered("RUNNING") # "FAILED"
  BY DEF Recovered, INTERRUPTED_STATES
<1>1. ASSUME NEW t \in Tokens, NEW j \in Jobs, ApprovePlan(t, j)
      PROVE  Goal
  BY <1>1, <1>a, <1>b, <1>c
     DEF ApprovePlan, IssueApproval, durable, requests, world, IsExecute, Suspended
<1>2. ASSUME NEW t \in Tokens, NEW j \in Jobs, NEW op \in GuardedKinds, ApproveGuarded(t,
   j, op)
      PROVE  Goal
  BY <1>2, <1>a, <1>b, <1>c
     DEF ApproveGuarded, IssueApproval, durable, requests, world, IsExecute, Suspended
<1>3. ASSUME NEW t \in Tokens, NEW j \in Jobs, NEW c \in Calls, ExecuteBegin(c, j, t)
      PROVE  Goal
  BY <1>3, <1>a, <1>b, <1>c
     DEF ExecuteBegin, Begin, Consume, FailJob, durable, requests, world, IsExecute,
         Suspended
<1>4. ASSUME NEW t \in Tokens, Expire(t)
      PROVE  Goal
  BY <1>4, <1>a, <1>b, <1>c
     DEF Expire, durable, requests, world, IsExecute, Suspended
<1>5. ASSUME NEW c \in Calls, NEW j \in Jobs, NEW kind \in Kinds, OperationBegin(c, kind, j)
      PROVE  Goal
  BY <1>5, <1>a, <1>b, <1>c
     DEF OperationBegin, Begin, durable, requests, world, IsExecute, Suspended
<1>6. ASSUME NEW c \in Calls, ExecutePreflight(c)
      PROVE  Goal
  BY <1>6, <1>a, <1>b, <1>c
     DEF ExecutePreflight, At, AdvanceTo, FailJob, durable, requests, world, IsExecute,
         Suspended
<1>7. ASSUME NEW c \in Calls, ExecuteUploaded(c)
      PROVE  Goal
  BY <1>7, <1>a, <1>b, <1>c
     DEF ExecuteUploaded, At, AdvanceTo, FailJob, durable, requests, world, IsExecute,
         Suspended
<1>8. ASSUME NEW c \in Calls, NEW t \in Tokens, OperationAuthorise(c, t)
      PROVE  Goal
  BY <1>8, <1>a, <1>b, <1>c
     DEF OperationAuthorise, Consume, durable, requests, world, IsExecute, Suspended
<1>9. ASSUME NEW c \in Calls, Publish(c)
      PROVE  Goal
  BY <1>9, <1>a, <1>b, <1>c
     DEF Publish, durable, requests, world, IsExecute, Suspended
<1>10. ASSUME NEW c \in Calls, AckSuccess(c)
      PROVE  Goal
  BY <1>10, <1>a, <1>b, <1>c
     DEF AckSuccess, durable, requests, world, IsExecute, Suspended
<1>11. ASSUME NEW c \in Calls, CallFails(c)
      PROVE  Goal
  BY <1>11, <1>a, <1>b, <1>c
     DEF CallFails, FailJob, durable, requests, world, IsExecute, Suspended
<1>12. ASSUME NEW c \in Calls, Abandon(c)
      PROVE  Goal
  BY <1>12, <1>a, <1>b, <1>c
     DEF Abandon, durable, requests, world, IsExecute, Suspended
<1>13. ASSUME NEW c \in Calls, PrinterAccepts(c)
      PROVE  Goal
  BY <1>13, <1>a, <1>b, <1>c
     DEF PrinterAccepts, durable, requests, world, IsExecute, Suspended
<1>14. ASSUME NEW c \in Calls, PrinterRejects(c)
      PROVE  Goal
  BY <1>14, <1>a, <1>b, <1>c
     DEF PrinterRejects, durable, requests, world, IsExecute, Suspended
<1>15. ASSUME NEW j \in Jobs, Monitor(j)
      PROVE  Goal
  BY <1>15, <1>a, <1>b, <1>c
     DEF Monitor, durable, requests, world, IsExecute, Suspended, MonitorTarget
<1>16. ASSUME NEW p \in Printers, Report(p)
      PROVE  Goal
  BY <1>16, <1>a, <1>b, <1>c
     DEF Report, durable, requests, world, IsExecute, Suspended
<1>17. ASSUME NEW p \in Printers, PrinterLocal(p)
      PROVE  Goal
  BY <1>17, <1>a, <1>b, <1>c
     DEF PrinterLocal, durable, requests, world, IsExecute, Suspended
<1>18. ASSUME NEW p \in Printers, NEW f \in Firmwares, Discover(p, f)
      PROVE  Goal
  BY <1>18, <1>a, <1>b, <1>c
     DEF Discover, durable, requests, world, IsExecute, Suspended
<1>19. CASE Crash
  BY <1>19, <1>a, <1>b, <1>c
     DEF Crash, durable, requests, world, IsExecute, Suspended
<1>20. CASE Boot
  BY <1>20, <1>a, <1>b, <1>c
     DEF Boot, durable, requests, world, IsExecute, Suspended
<1>21. CASE UNCHANGED vars
  BY <1>21, <1>a, <1>b, <1>c
     DEF vars, durable, requests, world, IsExecute, Suspended
<1> QED
  BY <1>1, <1>2, <1>3, <1>4, <1>5, <1>6, <1>7, <1>8, <1>9, <1>10, <1>11, <1>12, <1>13,
     <1>14, <1>15, <1>16, <1>17, <1>18, <1>19, <1>20, <1>21
     DEF Next, RequestStep

(* No restart and no failing pause, resume or stop turns a RUNNING job     *)
(* into a FAILED one.                                                      *)
THEOREM FailureExplained == Spec => RunningFailureExplained
<1>1. TypeOK /\ [Next]_vars =>
        [\A j \in Jobs :
           job[j] = "RUNNING" /\ job'[j] = "FAILED" =>
             \/ reported[PrinterOf[j]] = "FAILED"
             \/ \E c \in Calls : IsExecute(c, j) /\ pc[c] \in Suspended /\ pc'[c] = "done"]_vars
  BY FailureCauses
<1> QED BY <1>1, TypeCorrect, PTL DEF Spec, RunningFailureExplained

-----------------------------------------------------------------------------
(* The refinement of JobLifecycle.                                         *)

(* A plan's approval is newly spent only while the job awaits approval.    *)
LEMMA SpentStep ==
  ASSUME TypeOK, RequestInv, [Next]_vars
  PROVE  /\ Spent \subseteq Spent' /\ Sent \subseteq Sent'
         /\ \A k \in Spent' \ Spent : job[k] = "AWAITING_APPROVAL"
<1>1. Spent \subseteq Spent' /\ Sent \subseteq Sent'
  BY ExecuteNotIdle, Kept DEF Spent, Sent, IsExecute
<1>2. ASSUME NEW k \in Jobs, NEW x \in Calls, IsExecute(x, k)', ~IsExecute(x, k)
      PROVE  job[k] = "AWAITING_APPROVAL"
  <2> DEFINE Goal == job[k] = "AWAITING_APPROVAL"
<2>1. ASSUME NEW t \in Tokens, NEW j \in Jobs, ApprovePlan(t, j)
      PROVE  Goal
  BY <2>1, <1>2
     DEF ApprovePlan, IssueApproval, durable, requests, world, TypeOK, IsExecute
<2>2. ASSUME NEW t \in Tokens, NEW j \in Jobs, NEW op \in GuardedKinds, ApproveGuarded(t, j, op)
      PROVE  Goal
  BY <2>2, <1>2
     DEF ApproveGuarded, IssueApproval, durable, requests, world, TypeOK, IsExecute
<2>3. ASSUME NEW t \in Tokens, NEW j \in Jobs, NEW c \in Calls, ExecuteBegin(c, j, t)
      PROVE  Goal
  BY <2>3, <1>2
     DEF ExecuteBegin, Begin, Consume, Consumable, FailJob, durable, requests, world,
         TypeOK, IsExecute
<2>4. ASSUME NEW t \in Tokens, Expire(t)
      PROVE  Goal
  BY <2>4, <1>2 DEF Expire, durable, requests, world, TypeOK, IsExecute
<2>5. ASSUME NEW c \in Calls, NEW j \in Jobs, NEW kind \in Kinds, OperationBegin(c, kind, j)
      PROVE  Goal
  BY <2>5, <1>2 DEF OperationBegin, Begin, durable, requests, world, TypeOK, IsExecute
<2>6. ASSUME NEW c \in Calls, ExecutePreflight(c)
      PROVE  Goal
  BY <2>6, <1>2
     DEF ExecutePreflight, At, AdvanceTo, FailJob, durable, requests, world, TypeOK,
         IsExecute
<2>7. ASSUME NEW c \in Calls, ExecuteUploaded(c)
      PROVE  Goal
  BY <2>7, <1>2
     DEF ExecuteUploaded, At, AdvanceTo, FailJob, durable, requests, world, TypeOK,
         IsExecute
<2>8. ASSUME NEW c \in Calls, NEW t \in Tokens, OperationAuthorise(c, t)
      PROVE  Goal
  BY <2>8, <1>2
     DEF OperationAuthorise, Consume, Consumable, durable, requests, world, TypeOK,
         IsExecute
<2>9. ASSUME NEW c \in Calls, Publish(c)
      PROVE  Goal
  BY <2>9, <1>2 DEF Publish, durable, requests, world, TypeOK, IsExecute
<2>10. ASSUME NEW c \in Calls, AckSuccess(c)
      PROVE  Goal
  BY <2>10, <1>2 DEF AckSuccess, durable, requests, world, TypeOK, IsExecute
<2>11. ASSUME NEW c \in Calls, CallFails(c)
      PROVE  Goal
  BY <2>11, <1>2 DEF CallFails, FailJob, durable, requests, world, TypeOK, IsExecute
<2>12. ASSUME NEW c \in Calls, Abandon(c)
      PROVE  Goal
  BY <2>12, <1>2 DEF Abandon, durable, requests, world, TypeOK, IsExecute
<2>13. ASSUME NEW c \in Calls, PrinterAccepts(c)
      PROVE  Goal
  BY <2>13, <1>2 DEF PrinterAccepts, durable, requests, world, TypeOK, IsExecute
<2>14. ASSUME NEW c \in Calls, PrinterRejects(c)
      PROVE  Goal
  BY <2>14, <1>2 DEF PrinterRejects, durable, requests, world, TypeOK, IsExecute
<2>15. ASSUME NEW j \in Jobs, Monitor(j)
      PROVE  Goal
  BY <2>15, <1>2 DEF Monitor, durable, requests, world, TypeOK, IsExecute
<2>16. ASSUME NEW p \in Printers, Report(p)
      PROVE  Goal
  BY <2>16, <1>2 DEF Report, durable, requests, world, TypeOK, IsExecute
<2>17. ASSUME NEW p \in Printers, PrinterLocal(p)
      PROVE  Goal
  BY <2>17, <1>2 DEF PrinterLocal, durable, requests, world, TypeOK, IsExecute
<2>18. ASSUME NEW p \in Printers, NEW f \in Firmwares, Discover(p, f)
      PROVE  Goal
  BY <2>18, <1>2 DEF Discover, durable, requests, world, TypeOK, IsExecute
<2>19. CASE Crash
  BY <2>19, <1>2 DEF Crash, durable, requests, world, TypeOK, IsExecute
<2>20. CASE Boot
  BY <2>20, <1>2 DEF Boot, durable, requests, world, TypeOK, IsExecute
<2>21. CASE UNCHANGED vars
  BY <2>21, <1>2 DEF vars, durable, requests, world, TypeOK, IsExecute
<2> QED
  BY <2>1, <2>2, <2>3, <2>4, <2>5, <2>6, <2>7, <2>8, <2>9, <2>10, <2>11, <2>12,
     <2>13, <2>14, <2>15, <2>16, <2>17, <2>18, <2>19, <2>20, <2>21
     DEF Next, RequestStep
<1>3. ASSUME NEW k \in Spent' \ Spent PROVE job[k] = "AWAITING_APPROVAL"
  BY <1>2, <1>3, ExecuteNotIdle DEF Spent
<1> QED BY <1>1, <1>3

(* The start command of a job is newly sent only by publishing it.         *)
LEMMA SentStep ==
  ASSUME TypeOK, RequestInv, [Next]_vars, NEW k \in Sent' \ Sent
  PROVE  \E x \in Calls : Publish(x) /\ IsExecute(x, k)
<1>1. PICK x \in Calls : IsExecute(x, k)' /\ wire'[x] # "unsent"
  BY DEF Sent
<1>2. ~(IsExecute(x, k) /\ wire[x] # "unsent")
  BY DEF Sent
<1>3. CASE IsExecute(x, k)
  <2> DEFINE Goal == Publish(x)
<2>1. ASSUME NEW t \in Tokens, NEW j \in Jobs, ApprovePlan(t, j)
      PROVE  Goal
  BY <2>1, <1>1, <1>2, <1>3
     DEF ApprovePlan, IssueApproval, durable, requests, world, TypeOK, RequestInv,
         IsExecute
<2>2. ASSUME NEW t \in Tokens, NEW j \in Jobs, NEW op \in GuardedKinds, ApproveGuarded(t, j, op)
      PROVE  Goal
  BY <2>2, <1>1, <1>2, <1>3
     DEF ApproveGuarded, IssueApproval, durable, requests, world, TypeOK, RequestInv,
         IsExecute
<2>3. ASSUME NEW t \in Tokens, NEW j \in Jobs, NEW c \in Calls, ExecuteBegin(c, j, t)
      PROVE  Goal
  BY <2>3, <1>1, <1>2, <1>3
     DEF ExecuteBegin, Begin, Consume, Consumable, FailJob, durable, requests, world,
         TypeOK, RequestInv, IsExecute
<2>4. ASSUME NEW t \in Tokens, Expire(t)
      PROVE  Goal
  BY <2>4, <1>1, <1>2, <1>3
     DEF Expire, durable, requests, world, TypeOK, RequestInv, IsExecute
<2>5. ASSUME NEW c \in Calls, NEW j \in Jobs, NEW kind \in Kinds, OperationBegin(c, kind, j)
      PROVE  Goal
  BY <2>5, <1>1, <1>2, <1>3
     DEF OperationBegin, Begin, durable, requests, world, TypeOK, RequestInv, IsExecute
<2>6. ASSUME NEW c \in Calls, ExecutePreflight(c)
      PROVE  Goal
  BY <2>6, <1>1, <1>2, <1>3
     DEF ExecutePreflight, At, AdvanceTo, FailJob, durable, requests, world, TypeOK,
         RequestInv, IsExecute
<2>7. ASSUME NEW c \in Calls, ExecuteUploaded(c)
      PROVE  Goal
  BY <2>7, <1>1, <1>2, <1>3
     DEF ExecuteUploaded, At, AdvanceTo, FailJob, durable, requests, world, TypeOK,
         RequestInv, IsExecute
<2>8. ASSUME NEW c \in Calls, NEW t \in Tokens, OperationAuthorise(c, t)
      PROVE  Goal
  BY <2>8, <1>1, <1>2, <1>3
     DEF OperationAuthorise, Consume, Consumable, durable, requests, world, TypeOK,
         RequestInv, IsExecute
<2>9. ASSUME NEW c \in Calls, Publish(c)
      PROVE  Goal
  BY <2>9, <1>1, <1>2, <1>3
     DEF Publish, durable, requests, world, TypeOK, RequestInv, IsExecute
<2>10. ASSUME NEW c \in Calls, AckSuccess(c)
      PROVE  Goal
  BY <2>10, <1>1, <1>2, <1>3
     DEF AckSuccess, durable, requests, world, TypeOK, RequestInv, IsExecute
<2>11. ASSUME NEW c \in Calls, CallFails(c)
      PROVE  Goal
  BY <2>11, <1>1, <1>2, <1>3
     DEF CallFails, FailJob, durable, requests, world, TypeOK, RequestInv, IsExecute
<2>12. ASSUME NEW c \in Calls, Abandon(c)
      PROVE  Goal
  BY <2>12, <1>1, <1>2, <1>3
     DEF Abandon, durable, requests, world, TypeOK, RequestInv, IsExecute
<2>13. ASSUME NEW c \in Calls, PrinterAccepts(c)
      PROVE  Goal
  BY <2>13, <1>1, <1>2, <1>3
     DEF PrinterAccepts, durable, requests, world, TypeOK, RequestInv, IsExecute
<2>14. ASSUME NEW c \in Calls, PrinterRejects(c)
      PROVE  Goal
  BY <2>14, <1>1, <1>2, <1>3
     DEF PrinterRejects, durable, requests, world, TypeOK, RequestInv, IsExecute
<2>15. ASSUME NEW j \in Jobs, Monitor(j)
      PROVE  Goal
  BY <2>15, <1>1, <1>2, <1>3
     DEF Monitor, durable, requests, world, TypeOK, RequestInv, IsExecute
<2>16. ASSUME NEW p \in Printers, Report(p)
      PROVE  Goal
  BY <2>16, <1>1, <1>2, <1>3
     DEF Report, durable, requests, world, TypeOK, RequestInv, IsExecute
<2>17. ASSUME NEW p \in Printers, PrinterLocal(p)
      PROVE  Goal
  BY <2>17, <1>1, <1>2, <1>3
     DEF PrinterLocal, durable, requests, world, TypeOK, RequestInv, IsExecute
<2>18. ASSUME NEW p \in Printers, NEW f \in Firmwares, Discover(p, f)
      PROVE  Goal
  BY <2>18, <1>1, <1>2, <1>3
     DEF Discover, durable, requests, world, TypeOK, RequestInv, IsExecute
<2>19. CASE Crash
  BY <2>19, <1>1, <1>2, <1>3
     DEF Crash, durable, requests, world, TypeOK, RequestInv, IsExecute
<2>20. CASE Boot
  BY <2>20, <1>1, <1>2, <1>3
     DEF Boot, durable, requests, world, TypeOK, RequestInv, IsExecute
<2>21. CASE UNCHANGED vars
  BY <2>21, <1>1, <1>2, <1>3
     DEF vars, durable, requests, world, TypeOK, RequestInv, IsExecute
<2>22. Goal
  BY <2>1, <2>2, <2>3, <2>4, <2>5, <2>6, <2>7, <2>8, <2>9, <2>10, <2>11, <2>12,
     <2>13, <2>14, <2>15, <2>16, <2>17, <2>18, <2>19, <2>20, <2>21
     DEF Next, RequestStep
<2> QED BY <2>22, <1>3
<1>4. CASE ~IsExecute(x, k)
  <2> DEFINE Goal == FALSE
<2>1. ASSUME NEW t \in Tokens, NEW j \in Jobs, ApprovePlan(t, j)
      PROVE  Goal
  BY <2>1, <1>1, <1>4
     DEF ApprovePlan, IssueApproval, durable, requests, world, TypeOK, RequestInv,
         IsExecute, NoRequest
<2>2. ASSUME NEW t \in Tokens, NEW j \in Jobs, NEW op \in GuardedKinds, ApproveGuarded(t, j, op)
      PROVE  Goal
  BY <2>2, <1>1, <1>4
     DEF ApproveGuarded, IssueApproval, durable, requests, world, TypeOK, RequestInv,
         IsExecute, NoRequest
<2>3. ASSUME NEW t \in Tokens, NEW j \in Jobs, NEW c \in Calls, ExecuteBegin(c, j, t)
      PROVE  Goal
  BY <2>3, <1>1, <1>4
     DEF ExecuteBegin, Begin, Consume, Consumable, FailJob, durable, requests, world,
         TypeOK, RequestInv, IsExecute, NoRequest
<2>4. ASSUME NEW t \in Tokens, Expire(t)
      PROVE  Goal
  BY <2>4, <1>1, <1>4
     DEF Expire, durable, requests, world, TypeOK, RequestInv, IsExecute, NoRequest
<2>5. ASSUME NEW c \in Calls, NEW j \in Jobs, NEW kind \in Kinds, OperationBegin(c, kind, j)
      PROVE  Goal
  BY <2>5, <1>1, <1>4
     DEF OperationBegin, Begin, durable, requests, world, TypeOK, RequestInv, IsExecute,
         NoRequest
<2>6. ASSUME NEW c \in Calls, ExecutePreflight(c)
      PROVE  Goal
  BY <2>6, <1>1, <1>4
     DEF ExecutePreflight, At, AdvanceTo, FailJob, durable, requests, world, TypeOK,
         RequestInv, IsExecute, NoRequest
<2>7. ASSUME NEW c \in Calls, ExecuteUploaded(c)
      PROVE  Goal
  BY <2>7, <1>1, <1>4
     DEF ExecuteUploaded, At, AdvanceTo, FailJob, durable, requests, world, TypeOK,
         RequestInv, IsExecute, NoRequest
<2>8. ASSUME NEW c \in Calls, NEW t \in Tokens, OperationAuthorise(c, t)
      PROVE  Goal
  BY <2>8, <1>1, <1>4
     DEF OperationAuthorise, Consume, Consumable, durable, requests, world, TypeOK,
         RequestInv, IsExecute, NoRequest
<2>9. ASSUME NEW c \in Calls, Publish(c)
      PROVE  Goal
  BY <2>9, <1>1, <1>4
     DEF Publish, durable, requests, world, TypeOK, RequestInv, IsExecute, NoRequest
<2>10. ASSUME NEW c \in Calls, AckSuccess(c)
      PROVE  Goal
  BY <2>10, <1>1, <1>4
     DEF AckSuccess, durable, requests, world, TypeOK, RequestInv, IsExecute, NoRequest
<2>11. ASSUME NEW c \in Calls, CallFails(c)
      PROVE  Goal
  BY <2>11, <1>1, <1>4
     DEF CallFails, FailJob, durable, requests, world, TypeOK, RequestInv, IsExecute,
         NoRequest
<2>12. ASSUME NEW c \in Calls, Abandon(c)
      PROVE  Goal
  BY <2>12, <1>1, <1>4
     DEF Abandon, durable, requests, world, TypeOK, RequestInv, IsExecute, NoRequest
<2>13. ASSUME NEW c \in Calls, PrinterAccepts(c)
      PROVE  Goal
  BY <2>13, <1>1, <1>4
     DEF PrinterAccepts, durable, requests, world, TypeOK, RequestInv, IsExecute,
         NoRequest
<2>14. ASSUME NEW c \in Calls, PrinterRejects(c)
      PROVE  Goal
  BY <2>14, <1>1, <1>4
     DEF PrinterRejects, durable, requests, world, TypeOK, RequestInv, IsExecute,
         NoRequest
<2>15. ASSUME NEW j \in Jobs, Monitor(j)
      PROVE  Goal
  BY <2>15, <1>1, <1>4
     DEF Monitor, durable, requests, world, TypeOK, RequestInv, IsExecute, NoRequest
<2>16. ASSUME NEW p \in Printers, Report(p)
      PROVE  Goal
  BY <2>16, <1>1, <1>4
     DEF Report, durable, requests, world, TypeOK, RequestInv, IsExecute, NoRequest
<2>17. ASSUME NEW p \in Printers, PrinterLocal(p)
      PROVE  Goal
  BY <2>17, <1>1, <1>4
     DEF PrinterLocal, durable, requests, world, TypeOK, RequestInv, IsExecute,
         NoRequest
<2>18. ASSUME NEW p \in Printers, NEW f \in Firmwares, Discover(p, f)
      PROVE  Goal
  BY <2>18, <1>1, <1>4
     DEF Discover, durable, requests, world, TypeOK, RequestInv, IsExecute, NoRequest
<2>19. CASE Crash
  BY <2>19, <1>1, <1>4
     DEF Crash, durable, requests, world, TypeOK, RequestInv, IsExecute, NoRequest
<2>20. CASE Boot
  BY <2>20, <1>1, <1>4
     DEF Boot, durable, requests, world, TypeOK, RequestInv, IsExecute, NoRequest
<2>21. CASE UNCHANGED vars
  BY <2>21, <1>1, <1>4
     DEF vars, durable, requests, world, TypeOK, RequestInv, IsExecute, NoRequest
<2> QED
  BY <2>1, <2>2, <2>3, <2>4, <2>5, <2>6, <2>7, <2>8, <2>9, <2>10, <2>11, <2>12,
     <2>13, <2>14, <2>15, <2>16, <2>17, <2>18, <2>19, <2>20, <2>21
     DEF Next, RequestStep
<1> QED BY <1>3, <1>4

(* An UPLOADING job's plan approval has been spent.                        *)
LEMMA UploadingSpent ==
  ASSUME TypeOK, RequestInv, [Next]_vars, NEW k \in Jobs,
         job[k] # "UPLOADING", job'[k] = "UPLOADING"
  PROVE  k \in Spent
<1>1. PICK x \in Calls : IsExecute(x, k)
  BY JobCauses
<1> QED BY <1>1, ExecuteNotIdle DEF Spent

(* Publishing an execution's command starts a job that was not started.    *)
LEMMA PublishStarts ==
  ASSUME IndInv, [Next]_vars, NEW x \in Calls, NEW k \in Jobs, Publish(x), IsExecute(x, k)
  PROVE  Lifecycle!Start(k)
<1>1. x \in Calls /\ pc[x] = "publish" /\ wire[x] = "unsent" /\ job' = job
  BY DEF Publish, durable, IndInv, RequestInv
<1>2. k \in Spent
  BY ExecuteNotIdle DEF Spent, IndInv
<1>3. k \notin Sent
  BY <1>1 DEF Sent, IndInv, ClaimInv, Claims, IsExecute
<1>4. job[k] \in Lifecycle!PastStarting
  BY <1>1 DEF IndInv, PublishInv, IsExecute
<1>5. Spent' = Spent
  BY DEF Publish, Spent, IsExecute
<1>6. Sent' = Sent \cup {k}
  BY DEF Publish, Sent, IsExecute, IndInv, TypeOK
<1> QED BY <1>1, <1>2, <1>3, <1>4, <1>5, <1>6 DEF Lifecycle!Start

(* The abstract specification reads the same tables.                       *)
LEMMA SameTable ==
  /\ Lifecycle!JobState = JobState
  /\ Lifecycle!ALLOWED_TRANSITIONS = ALLOWED_TRANSITIONS
BY DEF Lifecycle!JobState, JobState, Lifecycle!PreparationStates, PreparationStates,
       Lifecycle!ALLOWED_TRANSITIONS, ALLOWED_TRANSITIONS, Lifecycle!Forward, Forward,
       Lifecycle!Arrows, Arrows, Lifecycle!TERMINAL_STATES, TERMINAL_STATES

(* Every step of the service is a step of the life cycle or a stutter.     *)
LEMMA LifecycleStep ==
  IndInv /\ [Next]_vars => [Lifecycle!Next]_(Lifecycle!vars)
<1> SUFFICES ASSUME IndInv, [Next]_vars PROVE Lifecycle!Next
  OBVIOUS
<1> USE DEF IndInv
<1>1. CASE Sent' # Sent
  <2>1. PICK k \in Sent' : k \notin Sent
    BY <1>1, SpentStep
  <2>2. k \in Jobs
    BY <2>1 DEF Sent
  <2>3. PICK x \in Calls : Publish(x) /\ IsExecute(x, k)
    BY <2>1, SentStep
  <2>4. Lifecycle!Start(k)
    BY <2>2, <2>3, PublishStarts
  <2> QED BY <2>2, <2>4 DEF Lifecycle!Next
<1>2. CASE Sent' = Sent
  <2>1. job' \in [Jobs -> JobState]
    BY TypeStep DEF TypeOK
  <2>2. \A k \in Jobs : job'[k] \in {job[k]} \cup ALLOWED_TRANSITIONS[job[k]]
    BY JobMoves
  <2>3. \A k \in Jobs : job[k] # "UPLOADING" /\ job'[k] = "UPLOADING" => k \in Spent
    BY UploadingSpent
  <2>4. /\ Spent' \in SUBSET Jobs /\ Spent \subseteq Spent'
        /\ \A k \in Spent' \ Spent : job[k] = "AWAITING_APPROVAL"
    BY SpentStep DEF Spent
  <2>5. Lifecycle!Advance
    BY <1>2, <2>1, <2>2, <2>3, <2>4, SameTable DEF Lifecycle!Advance
  <2> QED BY <2>5 DEF Lifecycle!Next
<1> QED BY <1>1, <1>2

(* The workflow implements JobLifecycle: rows only follow the table, and a *)
(* print is started once, after its approval was spent and STARTING saved. *)
THEOREM Implements == Spec => ImplementsLifecycle
<1>1. Init => Lifecycle!Init
  BY DEF Init, Lifecycle!Init, Spent, Sent, IsExecute, NoRequest
<1>2. IndInv /\ [Next]_vars => [Lifecycle!Next]_(Lifecycle!vars)
  BY LifecycleStep
<1> QED BY <1>1, <1>2, Inductive, PTL DEF Spec, Lifecycle!Spec, ImplementsLifecycle

=============================================================================
