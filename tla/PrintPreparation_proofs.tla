---------------------- MODULE PrintPreparation_proofs ----------------------
(***************************************************************************)
(* Proofs about PrintPreparation, for any number of jobs: whatever waits   *)
(* for approval is complete, and a preparation that raised leaves no job   *)
(* behind.                                                                 *)
(***************************************************************************)
EXTENDS PrintPreparation, MaterialMapping_proofs

USE ConstantsAssumption
USE DEF Busy, Suspended, Ended, rows, sidecar, printer, WorkDir

(* The table, as far as preparations are concerned.                        *)
LEMMA Table ==
  /\ TERMINAL_STATES \subseteq JobState
  /\ \A s \in JobState :
       /\ s \in TERMINAL_STATES => ALLOWED_TRANSITIONS[s] = {}
       /\ Failed(s) \in TERMINAL_STATES
       /\ Recovered(s) \in JobState
       /\ s \notin INTERRUPTED_STATES => Recovered(s) = s
BY DEF ALLOWED_TRANSITIONS, TERMINAL_STATES, JobState, PreparationStates, Failed, Recovered,
       INTERRUPTED_STATES

LEMMA TypeStep == TypeOK /\ StageInv /\ [Next]_vars => TypeOK'
<1> SUFFICES ASSUME TypeOK, StageInv, [Next]_vars PROVE TypeOK'
  OBVIOUS
<1> USE DEF TypeOK
<1>1. ASSUME NEW j \in Jobs, Create(j) PROVE TypeOK'
  BY <1>1 DEF Create, JobState, PreparationStates
<1>2. ASSUME NEW j \in Jobs, NEW target \in {"INGESTED", "INSPECTED", "SLICED", "VALIDATED"},
             NEW next \in Busy \cup Suspended, Commit(j, target, next)
      PROVE  /\ job' \in [Jobs -> JobState \cup {"absent"}]
             /\ pc' \in [Jobs -> {"idle"} \cup Busy \cup Suspended \cup Ended]
  BY <1>2 DEF Commit, JobState, PreparationStates
<1>3. ASSUME NEW j \in Jobs, Ingest(j) \/ Inspect(j) \/ AcceptPreSliced(j) \/ Validate(j)
                             \/ SliceReturns(j)
      PROVE  TypeOK'
  <2>1. CASE Ingest(j)
    BY <1>2, <2>1 DEF Ingest
  <2>2. CASE Inspect(j)
    BY <1>2, <2>2 DEF Inspect
  <2>3. CASE AcceptPreSliced(j)
    BY <1>2, <2>3 DEF AcceptPreSliced
  <2>4. CASE Validate(j)
    BY <1>2, <2>4 DEF Validate
  <2>5. CASE SliceReturns(j)
    BY <1>2, <2>5 DEF SliceReturns
  <2> QED BY <1>3, <2>1, <2>2, <2>3, <2>4, <2>5
<1>4. ASSUME NEW j \in Jobs, SliceBegin(j) \/ SliceReturnsLate(j) \/ ProcessWrites(j)
                             \/ ProcessFails(j) \/ Abandon(j)
      PROVE  TypeOK'
  <2>1. CASE SliceBegin(j)
    BY <2>1 DEF SliceBegin
  <2>2. CASE SliceReturnsLate(j)
    BY <2>2 DEF SliceReturnsLate
  <2>3. CASE ProcessWrites(j)
    BY <2>3 DEF ProcessWrites
  <2>4. CASE ProcessFails(j)
    BY <2>4 DEF ProcessFails
  <2>5. CASE Abandon(j)
    BY <2>5 DEF Abandon
  <2> QED BY <1>4, <2>1, <2>2, <2>3, <2>4, <2>5
<1>5. ASSUME NEW j \in Jobs, Preflight(j) PROVE TypeOK'
  <2>1. output[j] = j
    BY <1>5 DEF Preflight, StageInv, StageOf
  <2>2. Mapping(request[j].slice) \in Mappings
    BY <1>5 DEF Preflight, StageInv, StageOf, Routable, Mappings
  <2>3. [output |-> output[j], verified |-> verified, sighting |-> reported,
         mapping |-> Mapping(request[j].slice)] \in Plans
    BY <2>1, <2>2 DEF Plans
  <2> QED BY <1>5, <2>3 DEF Preflight, JobState
<1>6. ASSUME NEW j \in Jobs, Raise(j) PROVE TypeOK'
  <2>1. Failed(job[j]) \in JobState
    BY Table DEF Failed, JobState
  <2> QED BY <1>6, <2>1 DEF Raise, Fail
<1>7. ASSUME NEW j \in Jobs, Monitor(j) \/ Cancel(j) PROVE TypeOK'
  BY <1>7 DEF Monitor, Cancel, JobState
<1>8. ASSUME NEW s \in Sightings, Report(s) PROVE TypeOK'
  BY <1>8 DEF Report
<1>9. CASE Verify
  BY <1>9 DEF Verify
<1>10. CASE Restart
  BY <1>10, Table DEF Restart
<1>11. CASE UNCHANGED vars
  BY <1>11 DEF vars
<1> QED
  BY <1>1, <1>3, <1>4, <1>5, <1>6, <1>7, <1>8, <1>9, <1>10, <1>11 DEF Next, Progress

LEMMA WorkspaceStep == TypeOK /\ WorkspaceInv /\ [Next]_vars => WorkspaceInv'
BY DEF TypeOK, WorkspaceInv, Next, Progress, vars, Create, Ingest, Inspect, AcceptPreSliced,
       SliceBegin, SliceReturns, SliceReturnsLate, Validate, Preflight, Raise, Fail, Abandon,
       ProcessWrites, ProcessFails, Monitor, Cancel, Report, Verify, Restart

LEMMA ErrorStep == IndInv /\ [Next]_vars => ErrorMeansEnded'
<1> SUFFICES ASSUME IndInv, [Next]_vars, NEW j \in Jobs, pc'[j] = "failed"
             PROVE  job'[j] \in TERMINAL_STATES
  BY DEF ErrorMeansEnded
<1> USE DEF IndInv, TypeOK, ErrorMeansEnded
<1>1. CASE pc[j] = "failed"
  <2>1. job[j] \in TERMINAL_STATES /\ job[j] \in JobState /\ job[j] # "absent"
    BY <1>1, Table DEF TERMINAL_STATES
  <2>2. Recovered(job[j]) = job[j] /\ ALLOWED_TRANSITIONS[job[j]] = {} /\ Failed(job[j]) = job[j]
    BY <2>1, Table DEF Failed, INTERRUPTED_STATES, TERMINAL_STATES
  <2>3. ASSUME NEW k \in Jobs, k # j, \/ Create(k) \/ Progress(k) \/ Abandon(k)
                                      \/ ProcessWrites(k) \/ ProcessFails(k) \/ Monitor(k) \/ Cancel(k)
        PROVE  job'[j] = job[j]
    BY <2>3 DEF Create, Progress, Ingest, Inspect, AcceptPreSliced, Commit, SliceBegin, SliceReturns,
           SliceReturnsLate, Validate, Preflight, Raise, Fail, Abandon, ProcessWrites,
           ProcessFails, Monitor, Cancel
  <2>4. CASE \/ Create(j) \/ Progress(j) \/ Abandon(j)
             \/ ProcessWrites(j) \/ ProcessFails(j) \/ Monitor(j) \/ Cancel(j)
    BY <1>1, <2>2, <2>4 DEF Create, Progress, Ingest, Inspect, AcceptPreSliced, Commit, SliceBegin,
           SliceReturns, SliceReturnsLate, Validate, Preflight, Raise, Fail, Abandon,
           ProcessWrites, ProcessFails, Monitor, Cancel
  <2>5. CASE Restart
    BY <2>1, <2>2, <2>5 DEF Restart
  <2>6. CASE UNCHANGED job
    BY <2>1, <2>6
  <2> QED
    BY <2>1, <2>3, <2>4, <2>5, <2>6 DEF Next, Report, Verify, vars
<1>2. CASE pc[j] # "failed"
  <2>1. Raise(j) \/ SliceReturnsLate(j)
    BY <1>2 DEF Next, Progress, vars, Create, Ingest, Inspect, AcceptPreSliced, Commit, SliceBegin,
           SliceReturns, SliceReturnsLate, Validate, Preflight, Raise, Fail, Abandon,
           ProcessWrites, ProcessFails, Monitor, Cancel, Report, Verify, Restart
  <2>2. CASE SliceReturnsLate(j)
    BY <2>2 DEF SliceReturnsLate
  <2>3. CASE Raise(j)
    <3>1. job[j] \in JobState
      BY <2>3 DEF Raise, StageInv, StageOf, Stage, TERMINAL_STATES, JobState, PreparationStates
    <3> QED
      BY <2>3, <3>1, Table DEF Raise, Fail
  <2> QED BY <2>1, <2>2, <2>3
<1> QED BY <1>1, <1>2

(* A step of one job leaves the others where they are.                     *)
LEMMA Frame ==
  ASSUME NEW k, StageOf(k), withdrawn => withdrawn', verified \/ withdrawn => verified' \/ withdrawn',
         job'[k] = job[k], pc'[k] = pc[k], output'[k] = output[k], plan'[k] = plan[k],
         request'[k] = request[k]
  PROVE  StageOf(k)'
BY DEF StageOf, Routable, Idle

(* The same when the job is ended by somebody, or its preparation is lost. *)
LEMMA FrameEnded ==
  ASSUME NEW k, StageOf(k), verified' = verified, withdrawn' = withdrawn,
         job'[k] \in TERMINAL_STATES, pc[k] # "idle", pc'[k] = pc[k],
         output'[k] = output[k], plan'[k] = plan[k], request'[k] = request[k]
  PROVE  StageOf(k)'
BY DEF StageOf, Routable, Idle, TERMINAL_STATES

(* A preparation moves on to a place before its plan.                      *)
LEMMA StageAdvance ==
  ASSUME IndInv, NEW j \in Jobs, NEW next \in Busy \cup Suspended,
         Commit(j, Stage[next], next), pc[j] # "planned",
         verified' = verified, withdrawn' = withdrawn, plan' = plan, request' = request,
         next \in {"sliced", "status"} => output'[j] = j,
         next = "status" => Routable(j)
  PROVE  StageOf(j)'
<1>1. pc'[j] = next /\ job'[j] = Stage[next]
  BY DEF Commit, IndInv, TypeOK
<1>2. plan[j] = NoPlan
  BY DEF IndInv, StageInv, StageOf
<1> QED
  BY <1>1, <1>2 DEF StageOf, Stage, Routable

LEMMA StageStep == IndInv /\ [Next]_vars => StageInv'
<1> SUFFICES ASSUME IndInv, [Next]_vars, NEW j \in Jobs PROVE StageOf(j)'
  BY DEF StageInv
<1>0. StageOf(j)
  BY DEF IndInv, StageInv
<1> USE DEF IndInv, TypeOK
<1>1. ASSUME NEW k \in Jobs, k # j,
             \/ Create(k) \/ Progress(k) \/ Abandon(k)
             \/ ProcessWrites(k) \/ ProcessFails(k) \/ Monitor(k) \/ Cancel(k)
      PROVE  StageOf(j)'
  <2>1. /\ verified' = verified /\ withdrawn' = withdrawn /\ job'[j] = job[j] /\ pc'[j] = pc[j]
        /\ output'[j] = output[j] /\ plan'[j] = plan[j] /\ request'[j] = request[j]
    BY <1>1 DEF Create, Progress, Ingest, Inspect, AcceptPreSliced, Commit, SliceBegin, SliceReturns,
           SliceReturnsLate, Validate, Preflight, Raise, Fail, Abandon, ProcessWrites,
           ProcessFails, Monitor, Cancel
  <2> QED BY <1>0, <2>1, Frame
<1>2. CASE Create(j)
  BY <1>0, <1>2 DEF Create, StageOf, Stage, TERMINAL_STATES
<1>3. CASE Ingest(j)
  <2>1. Stage["ingested"] = "INGESTED"
    BY DEF Stage
  <2> QED BY <1>3, <2>1, StageAdvance DEF Ingest
<1>4. CASE Inspect(j)
  <2>1. Stage["inspected"] = "INSPECTED" /\ Stage["ready"] = "INSPECTED"
    BY DEF Stage
  <2> QED BY <1>4, <2>1, StageAdvance DEF Inspect
<1>5. CASE AcceptPreSliced(j)
  <2>1. Stage["sliced"] = "SLICED"
    BY DEF Stage
  <2> QED BY <1>5, <2>1, StageAdvance DEF AcceptPreSliced
<1>6. CASE SliceReturns(j)
  <2>1. Stage["sliced"] = "SLICED"
    BY DEF Stage
  <2>2. output'[j] = j
    BY <1>6 DEF SliceReturns, WorkspaceInv
  <2> QED BY <1>6, <2>1, <2>2, StageAdvance DEF SliceReturns
<1>7. CASE Validate(j)
  <2>1. Stage["status"] = "VALIDATED"
    BY DEF Stage
  <2>2. output'[j] = j
    BY <1>0, <1>7 DEF Validate, StageOf
  <2> QED BY <1>7, <2>1, <2>2, StageAdvance DEF Validate
<1>8. CASE Preflight(j)
  <2>1. /\ Mappable(request[j].slice) /\ (UsesFts(request[j].slice) => verified \/ withdrawn)
        /\ Idle(j, reported) /\ output[j] = j /\ verified' = verified /\ withdrawn' = withdrawn
        /\ request' = request /\ output' = output
    BY <1>0, <1>8 DEF Preflight, StageOf
  <2>2. job'[j] = "AWAITING_APPROVAL" /\ pc'[j] = "planned"
        /\ plan'[j] = [output |-> output[j], verified |-> verified, sighting |-> reported,
                       mapping |-> Mapping(request[j].slice)]
    BY <1>8 DEF Preflight
  <2>3. plan'[j] \in Plans
    BY <2>1, <2>2 DEF Plans, Mappings
  <2> QED
    BY <2>1, <2>2, <2>3 DEF StageOf, Stage, Routable, Idle
<1>9. CASE Raise(j)
  <2>1. Failed(job[j]) \in TERMINAL_STATES
    BY DEF Failed, TERMINAL_STATES
  <2> QED BY <1>0, <1>9, <2>1 DEF Raise, Fail, StageOf, Stage, TERMINAL_STATES, Routable, Idle
<1>10. CASE SliceBegin(j)
  BY <1>0, <1>10 DEF SliceBegin, StageOf, Stage, Routable, Idle
<1>11. CASE SliceReturnsLate(j)
  BY <1>0, <1>11 DEF SliceReturnsLate, StageOf, Stage, TERMINAL_STATES, Routable, Idle
<1>12. CASE Abandon(j)
  BY <1>0, <1>12 DEF Abandon, StageOf, Stage, TERMINAL_STATES, Routable, Idle
<1>13. CASE ProcessWrites(j) \/ ProcessFails(j)
  BY <1>0, <1>13, Frame DEF ProcessWrites, ProcessFails
<1>14. CASE Monitor(j) \/ Cancel(j)
  <2>1. job'[j] \in TERMINAL_STATES /\ pc[j] # "idle"
    BY <1>0, <1>14 DEF Monitor, Cancel, TERMINAL_STATES, StageOf, Stage
  <2> QED BY <1>0, <1>14, <2>1, FrameEnded DEF Monitor, Cancel
<1>15. CASE Verify \/ UNCHANGED vars \/ \E s \in Sightings : Report(s)
  BY <1>0, <1>15, Frame DEF Verify, Report, vars
<1>16. CASE Restart
  <2>1. job'[j] = job[j]
    BY <1>0, <1>16 DEF Restart, StageOf, Recovered, INTERRUPTED_STATES
  <2>2. CASE pc[j] \in Busy \cup Suspended
    BY <1>0, <1>16, <2>1, <2>2 DEF Restart, StageOf, Stage, TERMINAL_STATES
  <2>3. CASE pc[j] \notin Busy \cup Suspended
    BY <1>0, <1>16, <2>1, <2>3, Frame DEF Restart
  <2> QED BY <2>2, <2>3
<1>17. CASE Progress(j)
  BY <1>17, <1>3, <1>4, <1>5, <1>6, <1>7, <1>8, <1>9, <1>10, <1>11 DEF Progress
<1> QED
  BY <1>1, <1>2, <1>12, <1>13, <1>14, <1>15, <1>16, <1>17 DEF Next

(* The stages of a preparation hold whatever other preparations, the       *)
(* sidecar, monitors, cancellations and restarts do.                       *)
THEOREM Inductive == Spec => []IndInv
<1>1. Init => IndInv
  <2> SUFFICES ASSUME Init PROVE IndInv
    OBVIOUS
  <2>1. TypeOK
    BY DEF Init, TypeOK
  <2>2. StageInv
    BY DEF Init, StageInv, StageOf, Stage
  <2>3. WorkspaceInv /\ ErrorMeansEnded
    BY DEF Init, WorkspaceInv, ErrorMeansEnded
  <2> QED BY <2>1, <2>2, <2>3 DEF IndInv
<1>2. IndInv /\ [Next]_vars => IndInv'
  BY TypeStep, WorkspaceStep, ErrorStep, StageStep DEF IndInv
<1> QED BY <1>1, <1>2, PTL DEF Spec

LEMMA PlannedWhenApprovable ==
  ASSUME IndInv, NEW j \in Jobs, job[j] = "AWAITING_APPROVAL"
  PROVE  pc[j] = "planned"
<1>1. StageOf(j) /\ (pc[j] = "failed" => job[j] \in TERMINAL_STATES)
  BY DEF IndInv, StageInv, ErrorMeansEnded
<1>2. pc[j] \in {"idle"} \cup Busy \cup Suspended \cup Ended
  BY DEF IndInv, TypeOK
<1> QED
  BY <1>1, <1>2 DEF StageOf, Stage, TERMINAL_STATES

(* Whatever waits for approval has a plan for its own slice, seen on an    *)
(* idle printer with what its routes need.                                 *)
THEOREM Complete == Spec => []ApprovableIsComplete
<1>1. IndInv => ApprovableIsComplete
  BY PlannedWhenApprovable
     DEF IndInv, StageInv, StageOf, Routable, ApprovableIsComplete
<1> QED BY <1>1, Inductive, PTL

(* Whatever waits for approval routes its filaments as its request asked.  *)
THEOREM RoutesAsAsked == Spec => []PlanRoutesAsAsked
<1>1. IndInv => PlanRoutesAsAsked
  <2> SUFFICES ASSUME IndInv, NEW j \in Jobs, job[j] = "AWAITING_APPROVAL"
               PROVE  SaysWhatWasAsked(plan[j].mapping, request[j].slice)
    BY DEF PlanRoutesAsAsked
  <2>1. pc[j] = "planned"
    BY PlannedWhenApprovable
  <2>2. Mappable(request[j].slice) /\ plan[j].mapping = Mapping(request[j].slice)
    BY <2>1 DEF IndInv, StageInv, StageOf, Routable
  <2>3. request[j].slice \in SliceSettings
    BY DEF IndInv, TypeOK
  <2> QED BY <2>2, <2>3, MappingIsFaithful
<1> QED BY <1>1, Inductive, PTL

(* A preparation that raised leaves its job ended.                         *)
THEOREM ErrorsEnd == Spec => []ErrorMeansEnded
<1>1. IndInv => ErrorMeansEnded
  BY DEF IndInv
<1> QED BY <1>1, Inductive, PTL
(* How a step may move a job's row: not at all, into being, along an arrow *)
(* that is not an upload, or through the offer of its plan.                *)
Moved(k) ==
  \/ job'[k] = job[k]
  \/ job[k] = "absent" /\ job'[k] = "CREATED"
  \/ /\ job[k] \in JobState
     /\ job'[k] \in ALLOWED_TRANSITIONS[job[k]] \ {"UPLOADING"}

LEMMA MovesAlone ==
  ASSUME IndInv, NEW k \in Jobs, NEW j \in Jobs,
         \/ Create(j) \/ Abandon(j) \/ ProcessWrites(j) \/ ProcessFails(j)
         \/ Monitor(j) \/ Cancel(j)
         \/ Ingest(j) \/ Inspect(j) \/ AcceptPreSliced(j) \/ SliceBegin(j)
         \/ SliceReturns(j) \/ SliceReturnsLate(j) \/ Validate(j) \/ Raise(j)
  PROVE  Moved(k)
<1>0. StageOf(j) /\ job \in [Jobs -> JobState \cup {"absent"}]
  BY DEF IndInv, StageInv, TypeOK
<1>1. CASE Create(j)
  BY <1>0, <1>1 DEF Create, Moved, StageOf, Stage, TERMINAL_STATES
<1>2. CASE Abandon(j) \/ ProcessWrites(j) \/ ProcessFails(j) \/ SliceBegin(j) \/ SliceReturnsLate(j)
  BY <1>2 DEF Abandon, ProcessWrites, ProcessFails, SliceBegin, SliceReturnsLate, Moved
<1>3. CASE Monitor(j) \/ Cancel(j)
  BY <1>0, <1>3 DEF Monitor, Cancel, Moved
<1>4. ASSUME NEW target \in {"INGESTED", "INSPECTED", "SLICED", "VALIDATED"},
             NEW next, Commit(j, target, next), pc[j] \in Busy \cup Suspended
      PROVE  Moved(k)
  <2>1. job[j] \in JobState
    BY <1>0, <1>4 DEF StageOf, Stage, TERMINAL_STATES, JobState, PreparationStates
  <2> QED BY <1>0, <1>4, <2>1 DEF Commit, Moved
<1>5. CASE Ingest(j) \/ Inspect(j) \/ AcceptPreSliced(j) \/ SliceReturns(j) \/ Validate(j)
  BY <1>4, <1>5 DEF Ingest, Inspect, AcceptPreSliced, SliceReturns, Validate
<1>6. CASE Raise(j)
  <2>1. job[j] \in JobState
    BY <1>0, <1>6 DEF Raise, StageOf, Stage, TERMINAL_STATES, JobState, PreparationStates
  <2>2. Failed(job[j]) \in {job[j]} \cup (ALLOWED_TRANSITIONS[job[j]] \ {"UPLOADING"})
    BY <2>1 DEF Failed, ALLOWED_TRANSITIONS
  <2> QED BY <1>0, <1>6, <2>1, <2>2 DEF Raise, Fail, Moved
<1> QED BY <1>1, <1>2, <1>3, <1>5, <1>6

LEMMA Moves ==
  ASSUME IndInv, [Next]_vars, ~\E j \in Jobs : Preflight(j), NEW k \in Jobs
  PROVE  Moved(k)
<1>1. CASE \E j \in Jobs :
       \/ Create(j) \/ Progress(j) \/ Abandon(j)
       \/ ProcessWrites(j) \/ ProcessFails(j) \/ Monitor(j) \/ Cancel(j)
  BY <1>1, MovesAlone DEF Progress
<1>2. CASE Restart
  <2>1. job'[k] = job[k]
    BY <1>2 DEF Restart, IndInv, StageInv, StageOf, Recovered, INTERRUPTED_STATES
  <2> QED BY <2>1 DEF Moved
<1>3. CASE Verify \/ UNCHANGED vars \/ \E s \in Sightings : Report(s)
  BY <1>3 DEF Verify, Report, vars, Moved
<1> QED BY <1>1, <1>2, <1>3 DEF Next

(* The abstract specification reads the same tables.                       *)
LEMMA SameTable ==
  /\ Lifecycle!JobState = JobState
  /\ Lifecycle!ALLOWED_TRANSITIONS = ALLOWED_TRANSITIONS
BY DEF Lifecycle!JobState, JobState, Lifecycle!PreparationStates, PreparationStates,
       Lifecycle!ALLOWED_TRANSITIONS, ALLOWED_TRANSITIONS, Lifecycle!Forward, Forward,
       Lifecycle!Arrows, Arrows, Lifecycle!TERMINAL_STATES, TERMINAL_STATES

(* The state a job is offered in. *)
LEMMA OfferedFrom ==
  ASSUME IndInv, NEW j \in Jobs, Preflight(j)
  PROVE  job[j] = "VALIDATED" /\ plan[j] = NoPlan
<1>1. StageOf(j) /\ job[j] \in JobState \cup {"absent"}
  BY DEF IndInv, StageInv, TypeOK
<1>2. \A s \in TERMINAL_STATES : s \in JobState /\ ALLOWED_TRANSITIONS[s] = {}
  BY Table
<1> QED BY <1>1, <1>2 DEF Preflight, StageOf, Stage

LEMMA LifecycleStep ==
  IndInv /\ [Next]_vars => [Lifecycle!Next]_(Lifecycle!vars)
<1> SUFFICES ASSUME IndInv, [Next]_vars PROVE Lifecycle!Next
  OBVIOUS
<1>0. job \in [Jobs -> JobState \cup {"absent"}] /\ job' \in [Jobs -> JobState \cup {"absent"}]
  BY TypeStep DEF IndInv, TypeOK
<1>1. CASE \E j \in Jobs : Preflight(j)
  <2>1. PICK j \in Jobs : Preflight(j)
    BY <1>1
  <2>2. job[j] = "VALIDATED" /\ job' = [job EXCEPT ![j] = "AWAITING_APPROVAL"]
    BY <2>1, OfferedFrom DEF Preflight
  <2>3. Lifecycle!Offer(j)
    BY <1>0, <2>2 DEF Lifecycle!Offer, Row
  <2> QED BY <2>3 DEF Lifecycle!Next
<1>2. CASE ~\E j \in Jobs : Preflight(j)
  <2>1. Row' \in [Jobs -> JobState]
    BY <1>0 DEF Row, JobState, PreparationStates
  <2>2. ASSUME NEW k \in Jobs
        PROVE  Row'[k] \in {Row[k]} \cup (ALLOWED_TRANSITIONS[Row[k]] \ {"UPLOADING"})
    <3>1. Moved(k)
      BY <1>2, Moves
    <3>2. job'[k] = "absent" => job[k] = "absent"
      BY <3>1 DEF Moved, ALLOWED_TRANSITIONS, Forward, JobState, PreparationStates
    <3> QED BY <1>0, <3>1, <3>2 DEF Moved, Row, JobState, PreparationStates
  <2>3. Lifecycle!Advance
    BY <2>1, <2>2, SameTable DEF Lifecycle!Advance
  <2> QED BY <2>3 DEF Lifecycle!Next
<1> QED BY <1>1, <1>2

(* A preparation is the beginning of the life of a job that PrintExecution *)
(* carries on: the row follows the table up to the offer of a plan.        *)
THEOREM Implements == Spec => ImplementsLifecycle
<1>1. Init => Lifecycle!Init
  BY DEF Init, Lifecycle!Init, Row
<1>2. IndInv /\ [Next]_vars => [Lifecycle!Next]_(Lifecycle!vars)
  BY LifecycleStep
<1> QED BY <1>1, <1>2, Inductive, PTL DEF Spec, Lifecycle!Spec, ImplementsLifecycle

(* A job that ended while it was prepared stays ended, and a plan stays as *)
(* it was offered.                                                         *)
THEOREM EndedStays == Spec => EndedIsFinal
<1>1. ASSUME IndInv, [Next]_vars, NEW j \in Jobs, job[j] \in TERMINAL_STATES
      PROVE  job'[j] = job[j]
  <2>1. job[j] \in JobState /\ job[j] # "absent" /\ job[j] # "VALIDATED"
        /\ ALLOWED_TRANSITIONS[job[j]] = {}
    BY <1>1, Table DEF TERMINAL_STATES
  <2>2. CASE \E k \in Jobs : Preflight(k)
    BY <1>1, <2>1, <2>2, OfferedFrom DEF Preflight, IndInv, TypeOK
  <2>3. CASE ~\E k \in Jobs : Preflight(k)
    <3>1. Moved(j)
      BY <1>1, <2>3, Moves
    <3> QED BY <2>1, <3>1 DEF Moved
  <2> QED BY <2>2, <2>3
<1>2. ASSUME IndInv, [Next]_vars, NEW j \in Jobs, plan[j] # NoPlan
      PROVE  plan'[j] = plan[j]
  <2>1. CASE \E k \in Jobs : Preflight(k)
    BY <1>2, <2>1, OfferedFrom DEF Preflight, IndInv, TypeOK
  <2>2. CASE ~\E k \in Jobs : Preflight(k)
    BY <1>2, <2>2 DEF Next, Progress, vars, Create, Ingest, Inspect, AcceptPreSliced, SliceBegin,
       SliceReturns, SliceReturnsLate, Validate, Raise, Fail, Abandon, ProcessWrites,
       ProcessFails, Monitor, Cancel, Report, Verify, Restart
  <2> QED BY <2>1, <2>2
<1>3. IndInv /\ [Next]_vars =>
        [\A j \in Jobs :
           /\ job[j] \in TERMINAL_STATES => job'[j] = job[j]
           /\ plan[j] # NoPlan => plan'[j] = plan[j]]_vars
  BY <1>1, <1>2
<1> QED BY <1>3, Inductive, PTL DEF Spec, EndedIsFinal
=============================================================================
