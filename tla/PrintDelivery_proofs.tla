------------------------ MODULE PrintDelivery_proofs ------------------------
(***************************************************************************)
(* Proofs about PrintDelivery, for every number of jobs, requests, names   *)
(* and artifacts, and whatever the reports say.                            *)
(***************************************************************************)
EXTENDS PrintDelivery, TLAPS

(* Where the helpers take a job: no request moves one back to              *)
(* AWAITING_APPROVAL, and only a job that is there goes on to UPLOADING.   *)
LEMMA JobMoves ==
  ASSUME NEW s \in JobState
  PROVE  /\ Failed(s) \in JobState /\ Recovered(s) \in JobState
         /\ {"UPLOADING", "STARTING", "RUNNING"} \cup Outside \subseteq JobState
         /\ "AWAITING_APPROVAL" \notin {"UPLOADING", "STARTING", "RUNNING"} \cup Outside
         /\ s # "AWAITING_APPROVAL" =>
              /\ Failed(s) # "AWAITING_APPROVAL" /\ Recovered(s) # "AWAITING_APPROVAL"
              /\ "UPLOADING" \notin ALLOWED_TRANSITIONS[s]
<1>1. /\ Failed(s) \in {s, "FAILED"} /\ Recovered(s) \in {s, "FAILED"}
  BY DEF Failed, Recovered
<1>2. {"UPLOADING", "STARTING", "RUNNING", "FAILED"} \cup Outside \subseteq JobState
  BY ConstantsAssumption DEF JobState
<1>3. "AWAITING_APPROVAL" \notin {"UPLOADING", "STARTING", "RUNNING"} \cup Outside
  BY ConstantsAssumption
<1>4. s # "AWAITING_APPROVAL" => "UPLOADING" \notin ALLOWED_TRANSITIONS[s]
  BY DEF ALLOWED_TRANSITIONS, Forward, Arrows, TERMINAL_STATES
<1> QED BY <1>1, <1>2, <1>3, <1>4

(* The state of the jobs after a request's helper.                         *)
LEMMA Advanced ==
  ASSUME NEW c \in Calls, TypeOK, req[c].job \in Jobs,
         NEW target \in {"UPLOADING", "STARTING", "RUNNING"}, NEW at,
         AdvanceTo(c, target, at) \/ FailJob(c)
  PROVE  /\ job' \in [Jobs -> JobState]
         /\ \A j \in Jobs : job[j] # "AWAITING_APPROVAL" => job'[j] # "AWAITING_APPROVAL"
<1> DEFINE j == req[c].job
<1>1. job \in [Jobs -> JobState] /\ j \in Jobs
  BY DEF TypeOK
<1>2. job' = [job EXCEPT ![j] = target] \/ job' = [job EXCEPT ![j] = Failed(@)]
  BY DEF AdvanceTo, FailJob
<1>3. /\ target \in JobState /\ target # "AWAITING_APPROVAL"
      /\ Failed(job[j]) \in JobState
      /\ job[j] # "AWAITING_APPROVAL" => Failed(job[j]) # "AWAITING_APPROVAL"
  BY <1>1, JobMoves
<1> QED BY <1>1, <1>2, <1>3

-----------------------------------------------------------------------------
LEMMA TypeStep == TypeOK /\ RequestInv /\ [Next]_vars => TypeOK'
<1> SUFFICES ASSUME TypeOK, RequestInv, [Next]_vars PROVE TypeOK'
  OBVIOUS
<1> USE ConstantsAssumption
<1>0. /\ NoFile \in Content
      /\ \A a \in Artifacts \cup {NoArtifact}, n \in Nat : [of |-> a, size |-> n] \in Content
  BY DEF NoFile, Content
<1>1. ASSUME NEW c \in Calls, NEW j \in Jobs, ExecuteBegin(c, j) PROVE TypeOK'
  <2>1. remote_name(j) \in Names
    BY DEF remote_name
  <2> QED BY <1>1, <2>1 DEF TypeOK, ExecuteBegin, Begin, Requests, reports, storage
<1>2. ASSUME NEW c \in Calls, NEW f \in ToolFiles, ToolBegin(c, f[1], f[2]) PROVE TypeOK'
  <2>1. f[1] \in Names /\ f[2] \in Artifacts \cup {NoArtifact}
    OBVIOUS
  <2> QED
    BY <1>2, <2>1 DEF TypeOK, ToolBegin, Begin, Requests, Transferring, reports, storage
<1>3. ASSUME NEW c \in Calls, ExecutePreflight(c) PROVE TypeOK'
  <2>1. req[c].job \in Jobs
    BY <1>3 DEF ExecutePreflight, RequestInv, Asks
  <2>2. job' \in [Jobs -> JobState]
    BY <1>3, <2>1, Advanced DEF ExecutePreflight
  <2> QED
    BY <1>3, <2>2 DEF TypeOK, ExecutePreflight, AdvanceTo, Transferring, reports, storage
<1>4. ASSUME NEW c \in Calls, TransferReturns(c) PROVE TypeOK'
  <2>1. job' \in [Jobs -> JobState]
    <3>1. CASE IsTool(c)
      BY <1>4, <3>1 DEF TransferReturns, TypeOK
    <3>2. CASE ~IsTool(c)
      <4>1. req[c].job \in Jobs
        BY <1>4, <3>2 DEF TransferReturns, RequestInv, Asks, Requests, IsTool, IsExecution
      <4> QED BY <1>4, <3>2, <4>1, Advanced DEF TransferReturns
    <3> QED BY <3>1, <3>2
  <2> QED BY <1>4, <2>1 DEF TypeOK, TransferReturns, AdvanceTo, reports, storage
<1>5. ASSUME NEW c \in Calls, Publish(c) PROVE TypeOK'
  BY <1>5 DEF TypeOK, Publish, reports, storage
<1>6. ASSUME NEW c \in Calls, AckSuccess(c) \/ CallFails(c) PROVE TypeOK'
  <2>1. req[c].job \in Jobs
    BY <1>6 DEF AckSuccess, CallFails, RequestInv, Asks
  <2>2. job' \in [Jobs -> JobState]
    BY <1>6, <2>1, Advanced DEF AckSuccess, CallFails
  <2> QED BY <1>6, <2>2 DEF TypeOK, AckSuccess, CallFails, AdvanceTo, reports, storage
<1>7. ASSUME NEW c \in Calls, Abandon(c) PROVE TypeOK'
  BY <1>7 DEF TypeOK, Abandon, reports, storage
<1>8. ASSUME NEW c \in Calls, WorkerStep(c) PROVE TypeOK'
  <2>1. /\ transfer' \in [Calls -> Transferring \cup {"none", "ok", "failed"}]
        /\ UNCHANGED <<job, pc, req, wire, said, told, printer>>
    BY <1>8
       DEF WorkerStep, Store, Stored, Verify, Delete, TransferFails, Worker, TypeOK,
       Transferring, reports
  <2>2. files' \in [Names -> Content] /\ touched' \in [Calls -> SUBSET Calls]
    <3>1. CASE Store(c) \/ Stored(c) \/ Delete(c)
      <4>1. touched' \in [Calls -> SUBSET Calls]
        BY <3>1 DEF Store, Stored, Delete, Touch, TypeOK
      <4>2. req[c].artifact \in Artifacts \cup {NoArtifact}
        BY DEF TypeOK, Requests, NoRequest
      <4>3. PICK file \in Content : files' = [files EXCEPT ![Name(c)] = file]
        BY <1>0, <3>1, <4>2 DEF Store, Stored, Delete
      <4> QED BY <4>1, <4>3 DEF TypeOK
    <3>2. CASE Verify(c) \/ TransferFails(c)
      BY <3>2 DEF Verify, TransferFails, storage, TypeOK
    <3> QED BY <1>8, <3>1, <3>2 DEF WorkerStep
  <2> QED BY <2>1, <2>2 DEF TypeOK
<1>9. ASSUME NEW c \in Calls, PrinterStarts(c) PROVE TypeOK'
  <2>1. files[Name(c)] \in Content
    <3>1. Name(c) \in Names
      BY <1>9 DEF PrinterStarts, RequestInv, Asks, Requests, Name, TypeOK
    <3> QED BY <3>1 DEF TypeOK
  <2> QED BY <1>9, <2>1 DEF TypeOK, PrinterStarts, Prints, storage, GcodeStates
<1>10. ASSUME NEW j \in Jobs, Move(j) PROVE TypeOK'
  BY <1>10, JobMoves DEF TypeOK, Move, requests, reports, storage
<1>11. ASSUME NEW F \in Sparse, Receive(F) PROVE TypeOK'
  <2>1. said' \in [Fields -> Words]
    <3>1. PICK values \in Values(F) :
            said' = [f \in Fields |-> IF f \in F THEN values[f] ELSE said[f]]
      BY <1>11, Zenon DEF Receive
    <3>2. \A f \in F : values[f] \in Words
      BY DEF Values
    <3> QED BY <3>1, <3>2 DEF TypeOK
  <2> QED BY <1>11, <2>1 DEF TypeOK, Receive, requests, storage
<1>12. CASE Restart
  <2>1. job' \in [Jobs -> JobState]
    BY <1>12, JobMoves DEF TypeOK, Restart
  <2>2. said' \in [Fields -> Words] /\ told' \in BOOLEAN
    BY <1>12 DEF Restart, Words
  <2>3. /\ pc' \in [Calls -> {"idle", "status", "transfer", "publish", "ack", "done"}]
        /\ transfer' \in [Calls -> Transferring \cup {"none", "ok", "failed"}]
    BY <1>12 DEF TypeOK, Restart
  <2> QED BY <1>12, <2>1, <2>2, <2>3 DEF TypeOK, Restart, storage
<1>13. CASE LocalPrint \/ PrintEnds
  <2>1. printer' \in [gcode : GcodeStates, by : Calls \cup {NoCall}, file : Content]
    BY <1>0, <1>13 DEF LocalPrint, PrintEnds, Prints, GcodeStates
  <2>2. told' \in BOOLEAN /\ UNCHANGED <<job, requests, said, storage>>
    BY <1>13 DEF TypeOK, LocalPrint, PrintEnds, Prints, requests, reports
  <2> QED BY <2>1, <2>2 DEF TypeOK, storage, requests
<1>14. CASE UNCHANGED vars
  BY <1>14 DEF TypeOK, vars, requests, reports, storage
<1> QED
  BY <1>1, <1>2, <1>3, <1>4, <1>5, <1>6, <1>7, <1>8, <1>9, <1>10, <1>11, <1>12, <1>13, <1>14
     DEF Next

-----------------------------------------------------------------------------
(* What every step does to a request that has begun: what it asks for is   *)
(* fixed, and so is whether it is an execution.                            *)
LEMMA RequestKept ==
  ASSUME TypeOK, [Next]_vars, NEW c \in Calls, pc[c] # "idle"
  PROVE  req'[c] = req[c] /\ pc'[c] # "idle"
<1>1. ASSUME NEW d \in Calls, NEW j \in Jobs, ExecuteBegin(d, j)
      PROVE  req'[c] = req[c] /\ pc'[c] # "idle"
  BY <1>1 DEF TypeOK, ExecuteBegin, Begin
<1>2. ASSUME NEW d \in Calls, NEW f \in ToolFiles, ToolBegin(d, f[1], f[2])
      PROVE  req'[c] = req[c] /\ pc'[c] # "idle"
  BY <1>2 DEF TypeOK, ToolBegin, Begin
<1>3. ASSUME NEW d \in Calls,
             \/ ExecutePreflight(d) \/ TransferReturns(d) \/ Publish(d) \/ AckSuccess(d)
             \/ CallFails(d) \/ Abandon(d)
      PROVE  req'[c] = req[c] /\ pc'[c] # "idle"
  BY <1>3
     DEF TypeOK, ExecutePreflight, TransferReturns, Publish, AckSuccess, CallFails, Abandon,
     AdvanceTo
<1>4. ASSUME NEW d \in Calls, WorkerStep(d) \/ PrinterStarts(d)
      PROVE  req'[c] = req[c] /\ pc'[c] # "idle"
  BY <1>4
     DEF WorkerStep, Store, Stored, Verify, Delete, TransferFails, Worker, PrinterStarts, Prints
<1>5. ASSUME \/ \E j \in Jobs : Move(j)
             \/ \E F \in Sparse : Receive(F)
             \/ Restart \/ LocalPrint \/ PrintEnds \/ UNCHANGED vars
      PROVE  req'[c] = req[c] /\ pc'[c] # "idle"
  BY <1>5 DEF Move, Receive, Restart, LocalPrint, PrintEnds, Prints, vars, requests
<1> QED BY <1>1, <1>2, <1>3, <1>4, <1>5 DEF Next

LEMMA AsksKept ==
  ASSUME NEW c \in Calls, req'[c] = req[c]
  PROVE  /\ IsExecution(c)' <=> IsExecution(c)
         /\ IsTool(c)' <=> IsTool(c)
         /\ Asks(c)' <=> Asks(c)
         /\ Name(c)' = Name(c)
BY DEF IsExecution, IsTool, Asks, Name

LEMMA RequestStep ==
  TypeOK /\ RequestInv /\ [Next]_vars => RequestInv'
<1> SUFFICES ASSUME TypeOK, RequestInv, [Next]_vars, NEW c \in Calls
             PROVE
               /\ pc'[c] = "idle" => req'[c] = NoRequest /\ transfer'[c] = "none" /\ wire'[c] = "unsent"
               /\ pc'[c] # "idle" => Asks(c)'
               /\ pc'[c] = "status" => IsExecution(c)' /\ transfer'[c] = "none"
               /\ pc'[c] \in {"publish", "ack"} \/ wire'[c] # "unsent"
                    => IsExecution(c)' /\ transfer'[c] = "ok"
               /\ transfer'[c] \in {"none", "asked"} => touched'[c] = {}
  BY DEF RequestInv
<1> DEFINE Goal ==
      /\ pc'[c] = "idle" => req'[c] = NoRequest /\ transfer'[c] = "none" /\ wire'[c] = "unsent"
      /\ pc'[c] # "idle" => Asks(c)'
      /\ pc'[c] = "status" => IsExecution(c)' /\ transfer'[c] = "none"
      /\ pc'[c] \in {"publish", "ack"} \/ wire'[c] # "unsent"
           => IsExecution(c)' /\ transfer'[c] = "ok"
      /\ transfer'[c] \in {"none", "asked"} => touched'[c] = {}
<1>0. /\ pc[c] = "idle" => req[c] = NoRequest /\ transfer[c] = "none" /\ wire[c] = "unsent"
      /\ pc[c] # "idle" => Asks(c)
      /\ pc[c] = "status" => IsExecution(c) /\ transfer[c] = "none"
      /\ pc[c] \in {"publish", "ack"} \/ wire[c] # "unsent"
           => IsExecution(c) /\ transfer[c] = "ok"
      /\ transfer[c] \in {"none", "asked"} => touched[c] = {}
  BY DEF RequestInv
<1>k. ASSUME pc[c] # "idle"
      PROVE  /\ pc'[c] # "idle" /\ Asks(c)'
             /\ IsExecution(c)' <=> IsExecution(c)
             /\ IsTool(c)' <=> IsTool(c)
  BY <1>0, <1>k, RequestKept, AsksKept
<1>1. ASSUME NEW d \in Calls, NEW j \in Jobs, ExecuteBegin(d, j) PROVE Goal
  <2>1. CASE d = c
    <3>1. req'[c] = [kind |-> "execute", job |-> j, name |-> remote_name(j),
                     artifact |-> Output[j]]
      BY <1>1, <2>1 DEF ExecuteBegin, Begin, TypeOK
    <3>2. remote_name(j) \in Names /\ Output[j] \in Artifacts
      BY ConstantsAssumption DEF remote_name
    <3>3. Asks(c)' /\ IsExecution(c)'
      BY <3>1, <3>2 DEF Asks, IsExecution, Requests, remote_name
    <3> QED BY <1>0, <1>1, <2>1, <3>3 DEF ExecuteBegin, Begin, TypeOK, storage
  <2>2. CASE d # c
    <3>1. req'[c] = req[c] /\ pc'[c] = pc[c]
      BY <1>1, <2>2 DEF ExecuteBegin, Begin, TypeOK
    <3>2. UNCHANGED <<transfer, wire, touched>>
      BY <1>1 DEF ExecuteBegin, Begin, storage
    <3> QED BY <1>0, <3>1, <3>2, AsksKept
  <2> QED BY <2>1, <2>2
<1>2. ASSUME NEW d \in Calls, NEW f \in ToolFiles, ToolBegin(d, f[1], f[2]) PROVE Goal
  <2>1. CASE d = c
    <3>1. f[1] \in Names /\ f[2] \in Artifacts \cup {NoArtifact}
      BY ConstantsAssumption
    <3>2. req'[c] = [kind |-> IF f[2] = NoArtifact THEN "delete" ELSE "upload",
                     job |-> NoJob, name |-> f[1], artifact |-> f[2]]
      BY <1>2, <2>1 DEF ToolBegin, Begin, TypeOK
    <3>3. Asks(c)'
      BY <3>1, <3>2 DEF Asks, IsExecution, Requests
    <3> QED BY <1>0, <1>2, <2>1, <3>3 DEF ToolBegin, Begin, TypeOK, storage
  <2>2. CASE d # c
    <3>1. req'[c] = req[c] /\ pc'[c] = pc[c] /\ transfer'[c] = transfer[c]
      BY <1>2, <2>2 DEF ToolBegin, Begin, TypeOK
    <3>2. UNCHANGED <<wire, touched>>
      BY <1>2 DEF ToolBegin, Begin, storage
    <3> QED BY <1>0, <3>1, <3>2, AsksKept
  <2> QED BY <2>1, <2>2
<1>3. ASSUME NEW d \in Calls,
             \/ ExecutePreflight(d) \/ TransferReturns(d) \/ Publish(d) \/ AckSuccess(d)
             \/ CallFails(d) \/ Abandon(d)
      PROVE  Goal
  <2>1. UNCHANGED <<req, touched>>
    BY <1>3
       DEF ExecutePreflight, TransferReturns, Publish, AckSuccess, CallFails, Abandon, storage
  <2>2. CASE d # c
    <3>1. pc'[c] = pc[c] /\ transfer'[c] = transfer[c] /\ wire'[c] = wire[c]
      BY <1>3, <2>2
         DEF ExecutePreflight, TransferReturns, Publish, AckSuccess, CallFails, Abandon,
         AdvanceTo, TypeOK
    <3> QED BY <1>0, <2>1, <3>1, AsksKept
  <2>3. CASE d = c /\ ExecutePreflight(d)
    <3>1. wire[c] = "unsent" /\ touched[c] = {} /\ IsExecution(c)
      BY <1>0, <2>3 DEF ExecutePreflight, TypeOK
    <3>2. /\ pc'[c] \in {"transfer", "done"} /\ wire' = wire
      BY <2>3 DEF ExecutePreflight, AdvanceTo, TypeOK
    <3> QED BY <1>k, <2>1, <2>3, <3>1, <3>2 DEF ExecutePreflight
  <2>4. CASE d = c /\ TransferReturns(d)
    <3>1. /\ pc[c] # "idle" /\ UNCHANGED <<transfer, wire>>
          /\ pc'[c] \in {"publish", "done"}
          /\ pc'[c] = "publish" => ~IsTool(c) /\ transfer[c] = "ok"
      BY <2>4 DEF TransferReturns, AdvanceTo, TypeOK
    <3>2. ~IsTool(c) => IsExecution(c)
      BY <1>0, <3>1 DEF Asks, Requests, IsTool, IsExecution
    <3> QED BY <1>0, <1>k, <2>1, <3>1, <3>2
  <2>5. CASE d = c /\ (Publish(d) \/ AckSuccess(d) \/ CallFails(d) \/ Abandon(d))
    <3>1. /\ pc[c] # "idle" /\ UNCHANGED transfer
          /\ pc'[c] \in {"ack", "done"}
          /\ pc'[c] = "ack" \/ wire'[c] # "unsent" =>
               pc[c] = "publish" \/ wire[c] # "unsent"
      BY <2>5 DEF Publish, AckSuccess, CallFails, Abandon, AdvanceTo, TypeOK
    <3> QED BY <1>0, <1>k, <2>1, <3>1
  <2> QED BY <1>3, <2>2, <2>3, <2>4, <2>5
<1>4. ASSUME NEW d \in Calls, WorkerStep(d) PROVE Goal
  <2>1. UNCHANGED <<pc, req, wire>>
    BY <1>4 DEF WorkerStep, Store, Stored, Verify, Delete, TransferFails, Worker
  <2>2. /\ transfer[d] \in Transferring
        /\ transfer' = [transfer EXCEPT ![d] = transfer'[d]]
        /\ transfer'[d] \notin {"none", "asked"}
    BY <1>4
       DEF WorkerStep, Store, Stored, Verify, Delete, TransferFails, Worker, Transferring, TypeOK
  <2>3. CASE d = c
    <3>1. transfer[c] # "ok" /\ transfer[c] # "none"
      BY <2>2, <2>3 DEF Transferring
    <3> QED BY <1>0, <1>k, <2>1, <2>2, <2>3, <3>1
  <2>4. CASE d # c
    <3>1. transfer'[c] = transfer[c]
      BY <2>2, <2>4 DEF TypeOK
    <3>2. transfer[c] \in {"none", "asked"} => touched'[c] = touched[c]
      BY <1>4
         DEF WorkerStep, Store, Stored, Verify, Delete, TransferFails, Touch, storage, TypeOK
    <3> QED BY <1>0, <2>1, <3>1, <3>2, AsksKept
  <2> QED BY <2>3, <2>4
<1>5. ASSUME NEW d \in Calls, PrinterStarts(d) PROVE Goal
  <2>1. UNCHANGED <<pc, req, transfer, touched>>
    BY <1>5 DEF PrinterStarts, Prints, storage
  <2>2. wire'[c] # "unsent" => wire[c] # "unsent"
    BY <1>5 DEF PrinterStarts, TypeOK
  <2>3. pc[c] = "idle" => wire'[c] = "unsent"
    BY <1>0, <1>5 DEF PrinterStarts, TypeOK
  <2> QED BY <1>0, <2>1, <2>2, <2>3, AsksKept
<1>6. CASE Restart
  <2>1. /\ UNCHANGED <<req, wire, touched>>
        /\ pc'[c] = IF pc[c] = "idle" THEN "idle" ELSE "done"
        /\ transfer'[c] = IF transfer[c] \in Transferring THEN "failed" ELSE transfer[c]
    BY <1>6 DEF Restart, storage
  <2> QED BY <1>0, <1>k, <2>1 DEF Transferring
<1>7. ASSUME \/ \E j \in Jobs : Move(j)
             \/ \E F \in Sparse : Receive(F)
             \/ LocalPrint \/ PrintEnds \/ UNCHANGED vars
      PROVE  Goal
  <2>1. UNCHANGED <<pc, req, transfer, wire, touched>>
    BY <1>7 DEF Move, Receive, LocalPrint, PrintEnds, Prints, vars, requests, storage
  <2> QED BY <1>0, <2>1, AsksKept
<1> QED BY <1>1, <1>2, <1>3, <1>4, <1>5, <1>6, <1>7 DEF Next

-----------------------------------------------------------------------------
(* No step takes a job back to AWAITING_APPROVAL.                          *)
LEMMA NeverBack ==
  ASSUME TypeOK, RequestInv, [Next]_vars, NEW j \in Jobs, job[j] # "AWAITING_APPROVAL"
  PROVE  job'[j] # "AWAITING_APPROVAL"
<1>1. ASSUME NEW c \in Calls,
             ExecutePreflight(c) \/ TransferReturns(c) \/ AckSuccess(c) \/ CallFails(c)
      PROVE  job'[j] # "AWAITING_APPROVAL"
  <2>1. CASE job' = job
    BY <2>1
  <2>2. CASE job' # job
    <3>1. ~(TransferReturns(c) /\ IsTool(c))
      BY <2>2 DEF TransferReturns
    <3>2. pc[c] # "idle" /\ (pc[c] = "transfer" \/ IsExecution(c))
      BY <1>1 DEF ExecutePreflight, TransferReturns, AckSuccess, CallFails, RequestInv
    <3>3. req[c].job \in Jobs
      BY <1>1, <3>1, <3>2
         DEF RequestInv, Asks, Requests, IsTool, IsExecution, ExecutePreflight, AckSuccess,
         CallFails
    <3>4. \E target \in {"UPLOADING", "STARTING", "RUNNING"}, at \in {"transfer", "publish", "done"} :
            AdvanceTo(c, target, at) \/ FailJob(c)
      BY <1>1, <3>1 DEF ExecutePreflight, TransferReturns, AckSuccess, CallFails
    <3> QED BY <3>3, <3>4, Advanced
  <2> QED BY <2>1, <2>2
<1>2. ASSUME NEW i \in Jobs, Move(i) PROVE job'[j] # "AWAITING_APPROVAL"
  BY <1>2, JobMoves DEF Move, TypeOK
<1>3. CASE Restart
  BY <1>3, JobMoves DEF Restart, TypeOK
<1>4. ASSUME \/ \E c \in Calls :
                  \/ \E i \in Jobs : ExecuteBegin(c, i)
                  \/ \E f \in ToolFiles : ToolBegin(c, f[1], f[2])
                  \/ Publish(c) \/ Abandon(c) \/ PrinterStarts(c)
             \/ \E F \in Sparse : Receive(F)
             \/ LocalPrint \/ PrintEnds \/ UNCHANGED vars
      PROVE  job' = job
  BY <1>4
     DEF ExecuteBegin, ToolBegin, Publish, Abandon, PrinterStarts, Receive, LocalPrint, PrintEnds,
     Prints, vars
<1>5. ASSUME NEW c \in Calls, WorkerStep(c) PROVE job' = job
  BY <1>5 DEF WorkerStep, Store, Stored, Verify, Delete, TransferFails, Worker
<1> QED BY <1>1, <1>2, <1>3, <1>4, <1>5 DEF Next

(* Only a worker's step changes files; every other step leaves transfers   *)
(* that have got that far where they are, or ends them.                    *)
LEMMA OtherSteps ==
  ASSUME TypeOK, [Next]_vars, ~\E c \in Calls : WorkerStep(c)
  PROVE  /\ UNCHANGED <<files, touched>>
         /\ \A c \in Calls :
              /\ transfer'[c] \in {"stored", "ok"} => transfer[c] = transfer'[c]
              /\ transfer'[c] # transfer[c] =>
                   \/ ExecutePreflight(c) \/ transfer[c] # "none"
                   \/ \E f \in ToolFiles : ToolBegin(c, f[1], f[2])
<1> DEFINE Goal ==
      /\ UNCHANGED <<files, touched>>
      /\ \A c \in Calls :
           /\ transfer'[c] \in {"stored", "ok"} => transfer[c] = transfer'[c]
           /\ transfer'[c] # transfer[c] =>
                \/ ExecutePreflight(c) \/ transfer[c] # "none"
                \/ \E f \in ToolFiles : ToolBegin(c, f[1], f[2])
<1>1. ASSUME NEW d \in Calls, NEW f \in ToolFiles, ToolBegin(d, f[1], f[2]) PROVE Goal
  BY <1>1 DEF ToolBegin, Begin, storage, TypeOK
<1>2. ASSUME NEW d \in Calls, ExecutePreflight(d) PROVE Goal
  BY <1>2 DEF ExecutePreflight, storage, TypeOK
<1>3. CASE Restart
  BY <1>3 DEF Restart, storage, Transferring
<1>4. ASSUME \/ \E c \in Calls :
                  \/ \E i \in Jobs : ExecuteBegin(c, i)
                  \/ TransferReturns(c) \/ Publish(c) \/ AckSuccess(c)
                  \/ CallFails(c) \/ Abandon(c) \/ PrinterStarts(c)
             \/ \E j \in Jobs : Move(j)
             \/ \E F \in Sparse : Receive(F)
             \/ LocalPrint \/ PrintEnds \/ UNCHANGED vars
      PROVE  Goal
  <2>1. UNCHANGED <<files, touched, transfer>>
    BY <1>4
       DEF ExecuteBegin, TransferReturns, Publish, AckSuccess, CallFails, Abandon, PrinterStarts,
       Move, Receive, LocalPrint, PrintEnds, Prints, Begin, vars, requests, storage
  <2> QED BY <2>1
<1> QED BY <1>1, <1>2, <1>3, <1>4 DEF Next

(* A worker's step: it moves its own transfer, and if it changes a file it *)
(* is its own, and everybody whose transfer of that name has begun is      *)
(* touched.                                                                *)
LEMMA WorkerSteps ==
  ASSUME TypeOK, NEW d \in Calls, WorkerStep(d)
  PROVE  /\ UNCHANGED <<job, pc, req, wire, printer>>
         /\ transfer[d] \in Transferring /\ transfer'[d] # "none"
         /\ \A c \in Calls \ {d} : transfer'[c] = transfer[c]
         /\ \A n \in Names : files'[n] # files[n] => n = Name(d)
         /\ \A c \in Calls : touched'[c] \in {touched[c], touched[c] \cup {d}}
         /\ \A c \in Calls : touched'[c] # touched[c] =>
              c # d /\ Name(c) = Name(d) /\ transfer[c] \notin {"none", "asked"}
         /\ files' # files => \A c \in Calls \ {d} :
              Name(c) = Name(d) /\ transfer[c] \notin {"none", "asked"} => d \in touched'[c]
<1>1. /\ UNCHANGED <<job, pc, req, wire, printer>>
      /\ transfer[d] \in Transferring /\ transfer'[d] # "none"
      /\ \A c \in Calls \ {d} : transfer'[c] = transfer[c]
  BY DEF WorkerStep, Store, Stored, Verify, Delete, TransferFails, Worker, Transferring, TypeOK
<1>2. CASE Store(d) \/ Stored(d) \/ Delete(d)
  <2>1. /\ Touch(d)
        /\ \E file : files' = [files EXCEPT ![Name(d)] = file]
    BY <1>2 DEF Store, Stored, Delete
  <2>2. \A n \in Names : files'[n] # files[n] => n = Name(d)
    BY <2>1 DEF TypeOK
  <2> QED BY <1>1, <2>1, <2>2 DEF Touch, TypeOK
<1>3. CASE Verify(d) \/ TransferFails(d)
  BY <1>1, <1>3 DEF Verify, TransferFails, storage, TypeOK
<1> QED BY <1>2, <1>3 DEF WorkerStep

(* Begun transfers belong to requests that have begun.                     *)
LEMMA TransferKept ==
  ASSUME TypeOK, RequestInv, [Next]_vars, NEW c \in Calls, transfer[c] # "none"
  PROVE  /\ pc[c] # "idle" /\ req'[c] = req[c] /\ Name(c)' = Name(c)
         /\ Uploads(c) <=> IsExecution(c)
         /\ transfer'[c] # "none"
         /\ touched[c] \subseteq touched'[c]
<1>1. pc[c] # "idle"
  BY DEF RequestInv
<1>2. req'[c] = req[c] /\ Name(c)' = Name(c)
  BY <1>1, RequestKept, AsksKept
<1>3. touched[c] \subseteq touched'[c]
  BY OtherSteps, WorkerSteps
<1>4. transfer'[c] # "none"
  <2>1. CASE \E d \in Calls : WorkerStep(d)
    BY <2>1, WorkerSteps
  <2>2. CASE ~\E d \in Calls : WorkerStep(d)
    <3>1. ASSUME ExecutePreflight(c) PROVE FALSE
      BY <3>1 DEF ExecutePreflight, RequestInv
    <3>2. ASSUME NEW d \in Calls, ExecutePreflight(d) \/ \E f \in ToolFiles : ToolBegin(d, f[1], f[2])
          PROVE  transfer'[c] # "none"
      <4>1. d # c
        BY <1>1, <3>1, <3>2 DEF ToolBegin, Begin
      <4> QED BY <3>2, <4>1 DEF ExecutePreflight, ToolBegin, TypeOK
    <3>3. CASE Restart
      BY <3>3 DEF Restart
    <3>4. CASE UNCHANGED transfer
      BY <3>4
    <3>5. \/ \E d \in Calls : \/ ExecutePreflight(d)
                             \/ \E f \in ToolFiles : ToolBegin(d, f[1], f[2])
          \/ Restart \/ UNCHANGED transfer
      BY <2>2
         DEF Next, ExecuteBegin, TransferReturns, Publish, AckSuccess, CallFails, Abandon,
         PrinterStarts, Move, Receive, LocalPrint, PrintEnds, Prints, vars, requests
    <3> QED BY <3>2, <3>3, <3>4, <3>5
  <2> QED BY <2>1, <2>2
<1> QED BY <1>1, <1>2, <1>3, <1>4 DEF Uploads

(* A new upload of an execution takes its job out of AWAITING_APPROVAL.    *)
LEMMA NewUpload ==
  ASSUME TypeOK, RequestInv, [Next]_vars, NEW c \in Calls, ~Uploads(c), Uploads(c)'
  PROVE  /\ req'[c] = req[c] /\ req[c].job \in Jobs
         /\ job[req[c].job] = "AWAITING_APPROVAL"
         /\ job'[req[c].job] # "AWAITING_APPROVAL"
         /\ touched'[c] = {}
         /\ \A d \in Calls \ {c} : transfer'[d] = transfer[d]
<1>1. transfer[c] = "none"
  <2>1. CASE transfer[c] # "none"
    BY <2>1, TransferKept, AsksKept DEF Uploads
  <2> QED BY <2>1
<1>2. ASSUME NEW f \in ToolFiles, ToolBegin(c, f[1], f[2]) PROVE FALSE
  BY <1>2 DEF ToolBegin, Begin, Uploads, IsExecution, TypeOK
<1>3. ExecutePreflight(c)
  <2>1. transfer'[c] # "none"
    BY DEF Uploads
  <2>2. ASSUME NEW d \in Calls, WorkerStep(d) PROVE FALSE
    <3>1. d # c
      BY <1>1, <2>2, WorkerSteps DEF Transferring
    <3> QED BY <1>1, <2>1, <2>2, <3>1, WorkerSteps
  <2> QED BY <1>1, <1>2, <2>1, <2>2, OtherSteps
<1>4. pc'[c] = "transfer"
  BY <1>1, <1>3 DEF ExecutePreflight, Uploads, TypeOK
<1>5. req[c].job \in Jobs /\ touched[c] = {}
  BY <1>1, <1>3 DEF ExecutePreflight, RequestInv, Asks
<1>6. /\ "UPLOADING" \in ALLOWED_TRANSITIONS[job[req[c].job]]
      /\ job' = [job EXCEPT ![req[c].job] = "UPLOADING"]
  BY <1>3, <1>4 DEF ExecutePreflight, AdvanceTo, TypeOK
<1>7. job[req[c].job] \in JobState
  BY <1>5 DEF TypeOK
<1>8. job[req[c].job] = "AWAITING_APPROVAL"
  BY <1>6, <1>7, JobMoves
<1>9. job'[req[c].job] # "AWAITING_APPROVAL"
  BY <1>5, <1>6 DEF TypeOK
<1> QED BY <1>3, <1>5, <1>8, <1>9 DEF ExecutePreflight, storage, TypeOK

LEMMA ClaimStep ==
  TypeOK /\ RequestInv /\ ClaimInv /\ [Next]_vars => ClaimInv'
<1> SUFFICES ASSUME TypeOK, RequestInv, ClaimInv, [Next]_vars,
                    NEW c \in Calls, NEW d \in Calls, Uploads(c)'
             PROVE  /\ job'[req'[c].job] # "AWAITING_APPROVAL"
                    /\ Uploads(d)' /\ req'[c].job = req'[d].job => c = d
                    /\ d \in touched'[c] => IsTool(d)'
  BY DEF ClaimInv
<1>1. CASE ~Uploads(c)
  <2>1. ASSUME Uploads(d)', req'[c].job = req'[d].job, c # d PROVE FALSE
    <3>1. transfer[d] # "none"
      BY <1>1, <2>1, NewUpload DEF Uploads
    <3>2. Uploads(d) /\ req'[d] = req[d]
      BY <2>1, <3>1, TransferKept, AsksKept DEF Uploads
    <3> QED BY <1>1, <2>1, <3>2, NewUpload DEF ClaimInv
  <2> QED BY <1>1, <2>1, NewUpload
<1>2. CASE Uploads(c)
  <2>1. /\ transfer[c] # "none" /\ pc[c] # "idle" /\ req'[c] = req[c] /\ IsExecution(c)
        /\ req[c].job \in Jobs
        /\ job[req[c].job] # "AWAITING_APPROVAL"
    BY <1>2, TransferKept DEF Uploads, RequestInv, Asks, ClaimInv
  <2>2. job'[req'[c].job] # "AWAITING_APPROVAL"
    BY <2>1, NeverBack
  <2>3. ASSUME Uploads(d)', req'[c].job = req'[d].job, c # d PROVE FALSE
    <3>1. CASE Uploads(d)
      BY <1>2, <2>1, <2>3, <3>1, TransferKept DEF ClaimInv, Uploads
    <3>2. CASE ~Uploads(d)
      BY <2>1, <2>3, <3>2, NewUpload
    <3> QED BY <3>1, <3>2
  <2>4. ASSUME d \in touched'[c] PROVE IsTool(d)'
    <3>1. CASE d \in touched[c]
      <4>1. IsTool(d)
        BY <1>2, <3>1 DEF ClaimInv
      <4>2. pc[d] # "idle"
        BY <4>1 DEF RequestInv, IsTool, NoRequest
      <4> QED BY <4>1, <4>2, RequestKept, AsksKept
    <3>2. CASE d \notin touched[c]
      <4>1. WorkerStep(d) /\ d # c /\ Name(c) = Name(d) /\ UNCHANGED req
        BY <2>4, <3>2, OtherSteps, WorkerSteps
      <4>2. transfer[d] # "none" /\ Asks(d)
        BY <4>1, WorkerSteps, TransferKept DEF Transferring, RequestInv
      <4>3. ~IsExecution(d)
        <5> SUFFICES ASSUME IsExecution(d) PROVE FALSE
          OBVIOUS
        <5>1. Uploads(d) /\ req[d].job \in Jobs
          BY <4>2 DEF Uploads, Asks
        <5>2. RemoteName[req[c].job] = RemoteName[req[d].job]
          BY <2>1, <4>1, <4>2 DEF RequestInv, Asks, Name, remote_name
        <5>3. req[c].job = req[d].job
          BY <2>1, <5>1, <5>2, ConstantsAssumption
        <5> QED BY <1>2, <4>1, <5>1, <5>3 DEF ClaimInv
      <4> QED BY <4>1, <4>2, <4>3 DEF Asks, IsExecution, IsTool, Requests
    <3> QED BY <3>1, <3>2
  <2> QED BY <2>2, <2>3, <2>4
<1> QED BY <1>1, <1>2

LEMMA FileStep ==
  TypeOK /\ RequestInv /\ FileInv /\ [Next]_vars => FileInv'
<1> SUFFICES ASSUME TypeOK, RequestInv, FileInv, [Next]_vars,
                    NEW c \in Calls, req'[c].kind # "delete", touched'[c] = {},
                    transfer'[c] \in {"stored", "ok"}
             PROVE  /\ transfer'[c] = "stored" => files'[Name(c)'].of = req'[c].artifact
                    /\ SizeNamed /\ transfer'[c] = "ok" =>
                         files'[Name(c)'] = Whole(req'[c].artifact)
  BY DEF FileInv
<1>1. transfer[c] # "none"
  <2>1. ASSUME NEW d \in Calls, WorkerStep(d) PROVE transfer[c] # "none"
    BY <2>1, WorkerSteps DEF Transferring
  <2> QED BY <2>1, OtherSteps
<1>2. /\ pc[c] # "idle" /\ req'[c] = req[c] /\ Name(c)' = Name(c)
      /\ touched[c] = {}
  BY <1>1, TransferKept
<1>3. Name(c) \in Names /\ req[c].artifact \in Artifacts \cup {NoArtifact}
  BY <1>2 DEF RequestInv, Asks, Name, Requests
<1>4. CASE ~\E d \in Calls : WorkerStep(d)
  BY <1>2, <1>4, OtherSteps DEF FileInv
<1>5. ASSUME NEW d \in Calls, WorkerStep(d), d # c
      PROVE  transfer'[c] = transfer[c] /\ files'[Name(c)] = files[Name(c)]
  <2>1. transfer'[c] = transfer[c]
    BY <1>5, WorkerSteps
  <2>2. d \notin touched'[c]
    OBVIOUS
  <2>3. transfer[c] \notin {"none", "asked"}
    BY <2>1
  <2> QED BY <1>3, <1>5, <2>1, <2>2, <2>3, WorkerSteps
<1>6. CASE WorkerStep(c)
  <2>1. CASE Store(c) \/ Delete(c) \/ TransferFails(c)
    BY <1>2, <2>1 DEF Store, Delete, TransferFails, Worker, TypeOK
  <2>2. CASE Stored(c)
    BY <1>2, <1>3, <2>2 DEF Stored, Worker, TypeOK
  <2>3. CASE Verify(c)
    <3>1. /\ transfer'[c] = "ok" /\ transfer[c] = "stored" /\ UNCHANGED files
          /\ SizeNamed => files[Name(c)].size = SizeOf[req[c].artifact]
      BY <2>3 DEF Verify, Worker, storage, TypeOK
    <3>2. files[Name(c)].of = req[c].artifact
      BY <1>2, <3>1 DEF FileInv
    <3>3. files[Name(c)] \in Content
      BY <1>3 DEF TypeOK
    <3> QED BY <1>2, <3>1, <3>2, <3>3 DEF Content, Whole
  <2> QED BY <1>6, <2>1, <2>2, <2>3 DEF WorkerStep
<1> QED BY <1>2, <1>4, <1>5, <1>6 DEF FileInv

LEMMA PrinterStep ==
  TypeOK /\ RequestInv /\ FileInv /\ PrinterInv /\ [Next]_vars => PrinterInv'
<1> SUFFICES ASSUME TypeOK, RequestInv, FileInv, PrinterInv, [Next]_vars,
                    NEW c \in Calls, printer'.by = c
             PROVE  /\ wire'[c] # "unsent"
                    /\ SizeNamed /\ touched'[c] = {} =>
                         printer'.file = Whole(Output[req'[c].job])
  BY DEF PrinterInv
<1>1. CASE PrinterStarts(c)
  <2>1. wire[c] # "unsent" /\ wire'[c] # "unsent"
    BY <1>1 DEF PrinterStarts, TypeOK
  <2>2. /\ IsExecution(c) /\ transfer[c] = "ok" /\ pc[c] # "idle"
        /\ req[c].artifact = Output[req[c].job]
    BY <2>1 DEF RequestInv, Asks
  <2>3. printer'.file = files[Name(c)] /\ UNCHANGED <<req, touched>>
    BY <1>1 DEF PrinterStarts, Prints, storage
  <2>4. SizeNamed /\ touched[c] = {} => files[Name(c)] = Whole(req[c].artifact)
    BY <2>2 DEF FileInv, IsExecution
  <2> QED BY <2>1, <2>2, <2>3, <2>4
<1>2. CASE UNCHANGED printer
  <2>1. wire[c] # "unsent" /\ transfer[c] # "none"
    BY <1>2 DEF PrinterInv, RequestInv
  <2>2. wire'[c] # "unsent"
    <3>1. \/ UNCHANGED wire
          \/ \E d \in Calls : wire' \in {[wire EXCEPT ![d] = "sent"], [wire EXCEPT ![d] = "accepted"]}
      BY DEF Next, ExecuteBegin, ToolBegin, Begin, ExecutePreflight, TransferReturns, Publish,
         AckSuccess, CallFails, Abandon, WorkerStep, Store, Stored, Verify, Delete,
         TransferFails, Worker, PrinterStarts, Move, Receive, Restart, LocalPrint, PrintEnds,
         vars, requests
    <3> QED BY <2>1, <3>1 DEF TypeOK
  <2> QED BY <1>2, <2>1, <2>2, TransferKept DEF PrinterInv
<1>3. ASSUME NEW d \in Calls, PrinterStarts(d), d # c PROVE FALSE
  BY <1>3 DEF PrinterStarts, Prints
<1>4. CASE LocalPrint \/ PrintEnds
  BY <1>4, ConstantsAssumption DEF LocalPrint, PrintEnds, Prints
<1>5. \/ UNCHANGED printer \/ LocalPrint \/ PrintEnds \/ \E d \in Calls : PrinterStarts(d)
  BY DEF Next, ExecuteBegin, ToolBegin, Begin, ExecutePreflight, TransferReturns, Publish,
     AckSuccess, CallFails, Abandon, WorkerStep, Store, Stored, Verify, Delete, TransferFails,
     Worker, Move, Receive, Restart, vars
<1> QED BY <1>1, <1>2, <1>3, <1>4, <1>5

-----------------------------------------------------------------------------
(* The inductive invariant, for any number of requests and jobs.           *)
THEOREM Inductive == Spec => []IndInv
<1>1. Init => IndInv
  <2> SUFFICES ASSUME Init PROVE IndInv
    OBVIOUS
  <2>1. TypeOK
    BY ConstantsAssumption
       DEF Init, TypeOK, JobState, Transferring, Words, GcodeStates, NoFile, Content
  <2>2. RequestInv /\ ClaimInv /\ FileInv
    BY DEF Init, RequestInv, ClaimInv, FileInv, Uploads
  <2>3. PrinterInv
    BY ConstantsAssumption DEF Init, PrinterInv
  <2> QED BY <2>1, <2>2, <2>3 DEF IndInv
<1>2. IndInv /\ [Next]_vars => IndInv'
  BY TypeStep, RequestStep, ClaimStep, FileStep, PrinterStep DEF IndInv
<1> QED BY <1>1, <1>2, PTL DEF Spec

(* An upload that was reported as done is on the printer, whole, until     *)
(* somebody else stores or deletes under its name.                         *)
THEOREM UploadsAreStored == Spec => []VerifiedIsStored
<1>1. IndInv => VerifiedIsStored
  BY DEF IndInv, FileInv, VerifiedIsStored
<1> QED BY <1>1, Inductive, PTL

(* However executions, tools, restarts and cancellations interleave, a     *)
(* print that an execution started is of the whole output of its own plan, *)
(* unless a file tool changed the file in between.                         *)
THEOREM PlanIsPrinted == Spec => []PrintsThePlan
<1>1. IndInv => PrintsThePlan
  <2> SUFFICES ASSUME IndInv, NEW c \in Calls, SizeNamed, printer.by = c,
                      \A d \in touched[c] : ~IsTool(d)
               PROVE  printer.file = Whole(Output[req[c].job])
    BY DEF PrintsThePlan
  <2>1. Uploads(c)
    BY DEF IndInv, PrinterInv, RequestInv, Uploads
  <2>2. touched[c] = {}
    BY <2>1 DEF IndInv, TypeOK, ClaimInv
  <2> QED BY <2>2 DEF IndInv, PrinterInv
<1> QED BY <1>1, Inductive, PTL
-----------------------------------------------------------------------------
(* Reports.  The trees of a report: what is in "print", and in its "ams".  *)
AmsFields == {"ams.ams", "ams.tray_now"}
AmsOf(values) == Dict([f \in DOMAIN values \cap AmsFields |-> Atom(values[f])])
PrintKeys(F) == (F \ AmsFields) \cup (IF F \cap AmsFields = {} THEN {} ELSE {"ams"})
PrintOf(values) ==
  Dict([k \in PrintKeys(DOMAIN values) |->
         IF k = "ams" THEN AmsOf(values) ELSE Atom(values[k])])

(* What two reports say together: the later one wins.                      *)
Together(u, v) ==
  [f \in DOMAIN u \cup DOMAIN v |-> IF f \in DOMAIN v THEN v[f] ELSE u[f]]

LEMMA ReportTree ==
  ASSUME NEW values
  PROVE  Report(values) = Dict([k \in {"print"} |-> PrintOf(values)])
BY DEF Report, PrintOf, PrintKeys, AmsOf, AmsFields

(* One level of a merge in which no key has a dict on both sides.          *)
LEMMA MergedAms ==
  ASSUME NEW u, NEW v
  PROVE  Merge1(AmsOf(u), AmsOf(v)) = AmsOf(Together(u, v))
<1> DEFINE w == Together(u, v)
           merged == [f \in (DOMAIN u \cap AmsFields) \cup (DOMAIN v \cap AmsFields) |->
                       IF f \in DOMAIN v \cap AmsFields THEN Atom(v[f]) ELSE Atom(u[f])]
<1>1. Merge1(AmsOf(u), AmsOf(v)) = Dict(merged)
  <2>1. /\ AmsOf(u).dict = [f \in DOMAIN u \cap AmsFields |-> Atom(u[f])]
        /\ AmsOf(v).dict = [f \in DOMAIN v \cap AmsFields |-> Atom(v[f])]
    BY DEF AmsOf, Dict
  <2>2. Merge1(AmsOf(u), AmsOf(v)) =
          Dict([f \in DOMAIN AmsOf(u).dict \cup DOMAIN AmsOf(v).dict |->
                 IF f \in DOMAIN AmsOf(v).dict THEN AmsOf(v).dict[f] ELSE AmsOf(u).dict[f]])
    BY DEF Merge1, MergeLevel
  <2>3. [f \in DOMAIN AmsOf(u).dict \cup DOMAIN AmsOf(v).dict |->
           IF f \in DOMAIN AmsOf(v).dict THEN AmsOf(v).dict[f] ELSE AmsOf(u).dict[f]] = merged
    BY <2>1
  <2> QED BY <2>2, <2>3
<1>2. merged = [f \in DOMAIN w \cap AmsFields |-> Atom(w[f])]
  <2>1. DOMAIN w = DOMAIN u \cup DOMAIN v
    BY DEF Together
  <2>2. ASSUME NEW f \in DOMAIN w \cap AmsFields
        PROVE  merged[f] = Atom(w[f])
    BY DEF Together
  <2>3. DOMAIN w \cap AmsFields = (DOMAIN u \cap AmsFields) \cup (DOMAIN v \cap AmsFields)
    BY <2>1
  <2> HIDE DEF w
  <2> QED BY <2>2, <2>3
<1> QED BY <1>1, <1>2 DEF AmsOf

(* The print dicts of two reports: "ams" is the only key that can have a   *)
(* dict, and it has one on each side that has it.                          *)
LEMMA MergedPrint ==
  ASSUME NEW u, NEW v, DOMAIN u \subseteq Fields, DOMAIN v \subseteq Fields
  PROVE  Merge2(PrintOf(u), PrintOf(v)) = PrintOf(Together(u, v))
<1> DEFINE w == Together(u, v)
           nested == Nested(PrintOf(u), PrintOf(v))
           Keys == PrintKeys(DOMAIN u) \cup PrintKeys(DOMAIN v)
           merged == [k \in nested |-> Merge1(PrintOf(u).dict[k], PrintOf(v).dict[k])]
           result == [k \in Keys |->
                       IF k \in nested THEN merged[k]
                       ELSE IF k \in PrintKeys(DOMAIN v) THEN PrintOf(v).dict[k]
                       ELSE PrintOf(u).dict[k]]
<1>1. /\ PrintOf(u).dict = [k \in PrintKeys(DOMAIN u) |->
                              IF k = "ams" THEN AmsOf(u) ELSE Atom(u[k])]
      /\ PrintOf(v).dict = [k \in PrintKeys(DOMAIN v) |->
                              IF k = "ams" THEN AmsOf(v) ELSE Atom(v[k])]
  BY DEF PrintOf, Dict
<1>2. Merge2(PrintOf(u), PrintOf(v)) = Dict(result)
  BY <1>1 DEF Merge2, MergeLevel
<1>3. IsDict(AmsOf(u)) /\ IsDict(AmsOf(v)) /\ \A x : ~IsDict(Atom(x))
  BY DEF AmsOf, Dict, Atom, IsDict
<1>4. nested = {"ams"} \cap PrintKeys(DOMAIN u) \cap PrintKeys(DOMAIN v)
  BY <1>1, <1>3 DEF Nested
<1>5. Keys = PrintKeys(DOMAIN w)
  BY DEF PrintKeys, Together
<1>6. \A F : F \subseteq Fields => \A k \in PrintKeys(F) : k = "ams" \/ k \in F
  BY DEF PrintKeys
<1>7. \A F : F \subseteq Fields =>
        ("ams" \in PrintKeys(F) <=> F \cap AmsFields # {})
  BY DEF PrintKeys, Fields, AmsFields
<1>8. ASSUME NEW k \in Keys, k # "ams"
      PROVE  result[k] = Atom(w[k])
  <2>1. k \notin AmsFields
    BY <1>8 DEF PrintKeys
  <2>2. \A F : F \subseteq Fields => (k \in PrintKeys(F) <=> k \in F)
    BY <1>6, <1>8, <2>1 DEF PrintKeys
  <2> QED BY <1>1, <1>4, <1>8, <2>2 DEF Together
<1>9. ASSUME "ams" \in Keys
      PROVE  result["ams"] = AmsOf(w)
  <2>1. CASE "ams" \in PrintKeys(DOMAIN u) /\ "ams" \in PrintKeys(DOMAIN v)
    BY <1>1, <1>4, <2>1, MergedAms
  <2>2. CASE "ams" \notin PrintKeys(DOMAIN u)
    <3>1. DOMAIN u \cap AmsFields = {} /\ "ams" \in PrintKeys(DOMAIN v)
      BY <1>7, <1>9, <2>2
    <3>2. AmsOf(v) = AmsOf(w)
      BY <3>1 DEF AmsOf, Together
    <3> QED BY <1>1, <1>4, <2>2, <3>1, <3>2
  <2>3. CASE "ams" \notin PrintKeys(DOMAIN v)
    <3>1. DOMAIN v \cap AmsFields = {} /\ "ams" \in PrintKeys(DOMAIN u)
      BY <1>7, <1>9, <2>3
    <3>2. AmsOf(u) = AmsOf(w)
      BY <3>1 DEF AmsOf, Together
    <3> QED BY <1>1, <1>4, <1>9, <2>3, <3>1, <3>2
  <2> QED BY <2>1, <2>2, <2>3
<1>10. result = [k \in PrintKeys(DOMAIN w) |->
                  IF k = "ams" THEN AmsOf(w) ELSE Atom(w[k])]
  <2> HIDE DEF nested, merged
  <2> SUFFICES ASSUME NEW k \in Keys
               PROVE  result[k] = IF k = "ams" THEN AmsOf(w) ELSE Atom(w[k])
    BY <1>5
  <2> QED BY <1>8, <1>9
<1> QED BY <1>2, <1>10 DEF PrintOf

(* deep_merge of two reports is the report that says what both say; of the *)
(* empty state and a report, that report.                                  *)
LEMMA MergedReports ==
  ASSUME NEW u, NEW v, DOMAIN u \subseteq Fields, DOMAIN v \subseteq Fields
  PROVE  /\ deep_merge(Report(u), Report(v)) = Report(Together(u, v))
         /\ deep_merge(EmptyDict, Report(v)) = Report(v)
<1>1. /\ Report(u).dict = [k \in {"print"} |-> PrintOf(u)]
      /\ Report(v).dict = [k \in {"print"} |-> PrintOf(v)]
  BY ReportTree DEF Dict
<1>2. deep_merge(Report(u), Report(v)) = Report(Together(u, v))
  <2>1. IsDict(PrintOf(u)) /\ IsDict(PrintOf(v))
    BY DEF PrintOf, Dict, IsDict
  <2>2. Nested(Report(u), Report(v)) = {"print"}
    BY <1>1, <2>1 DEF Nested
  <2>3. deep_merge(Report(u), Report(v)) =
          Dict([k \in {"print"} |-> Merge2(PrintOf(u), PrintOf(v))])
    BY <1>1, <2>2 DEF deep_merge, MergeLevel
  <2> QED BY <2>3, MergedPrint, ReportTree
<1>3. deep_merge(EmptyDict, Report(v)) = Report(v)
  <2>1. DOMAIN EmptyDict.dict = {}
    BY DEF EmptyDict, Dict
  <2>2. Nested(EmptyDict, Report(v)) = {}
    BY <2>1 DEF Nested
  <2>3. deep_merge(EmptyDict, Report(v)) = Dict([k \in {"print"} |-> PrintOf(v)])
    BY <1>1, <2>1, <2>2 DEF deep_merge, MergeLevel
  <2> QED BY <2>3, ReportTree
<1> QED BY <1>2, <1>3

(* What a report of the fields F may say.                                  *)
LEMMA ReportValues ==
  ASSUME TypeOK, NEW F \in Sparse, NEW values \in Values(F)
  PROVE  /\ F \subseteq Fields /\ DOMAIN values = F
         /\ values = [f \in F |-> values[f]]
         /\ \A f \in F : values[f] # "unsaid"
         /\ "gcode_state" \in F => values["gcode_state"] = printer.gcode
<1>1. F \subseteq Fields /\ values \in [F -> Words]
  BY ConstantsAssumption DEF Values
<1>2. \A f \in F : values[f] \in
        CASE f = "gcode_state" -> {printer.gcode}
          [] f = "hms"         -> {"none", "fault"}
          [] OTHER             -> {"contents"}
  BY DEF Values
<1>3. printer.gcode # "unsaid"
  BY DEF TypeOK, GcodeStates
<1> QED BY <1>1, <1>2, <1>3

LEMMA ReportStep == TypeOK /\ ReportInv /\ [Next]_vars => ReportInv'
<1> SUFFICES ASSUME TypeOK, ReportInv, [Next]_vars PROVE ReportInv'
  OBVIOUS
<1>1. ASSUME NEW F \in Sparse, Receive(F) PROVE ReportInv'
  <2>1. PICK values \in Values(F) :
          /\ state' = deep_merge(state, Report(values))
          /\ said' = [f \in Fields |-> IF f \in F THEN values[f] ELSE said[f]]
    BY <1>1, Zenon DEF Receive
  <2>2. /\ F \subseteq Fields /\ DOMAIN values = F
        /\ values = [f \in F |-> values[f]]
        /\ \A f \in F : values[f] # "unsaid"
        /\ "gcode_state" \in F => values["gcode_state"] = printer.gcode
    BY ReportValues
  <2>3. DOMAIN WhatWasSaid \subseteq Fields
    BY DEF WhatWasSaid
  <2>4. WhatWasSaid' = Together(WhatWasSaid, values)
    <3>1. {f \in Fields : said'[f] # "unsaid"} = {f \in Fields : said[f] # "unsaid"} \cup F
      BY <2>1, <2>2
    <3>2. ASSUME NEW f \in {g \in Fields : said[g] # "unsaid"} \cup F
          PROVE  said'[f] = IF f \in F THEN values[f] ELSE WhatWasSaid[f]
      BY <2>1, <2>2 DEF WhatWasSaid
    <3>3. WhatWasSaid' = [f \in {g \in Fields : said[g] # "unsaid"} \cup F |-> said'[f]]
      BY <3>1 DEF WhatWasSaid
    <3>4. DOMAIN WhatWasSaid = {g \in Fields : said[g] # "unsaid"}
      BY DEF WhatWasSaid
    <3> QED BY <2>2, <3>2, <3>3, <3>4 DEF Together
  <2>5. state' = Report(WhatWasSaid')
    <3>1. CASE state = Report(WhatWasSaid)
      BY <2>1, <2>2, <2>3, <2>4, <3>1, MergedReports
    <3>2. CASE state = EmptyDict /\ DOMAIN WhatWasSaid = {}
      <4>1. Together(WhatWasSaid, values) = values
        BY <2>2, <3>2 DEF Together
      <4> QED BY <2>1, <2>2, <2>3, <2>4, <3>2, <4>1, MergedReports
    <3> QED BY <3>1, <3>2 DEF ReportInv
  <2>6. told' /\ printer'.gcode = "RUNNING" => said'["gcode_state"] = "RUNNING"
    BY <1>1, <2>1, <2>2 DEF ReportInv, Receive, Fields
  <2> QED BY <2>5, <2>6 DEF ReportInv
<1>2. CASE Restart
  <2>1. state' = EmptyDict /\ DOMAIN WhatWasSaid' = {} /\ ~told'
    BY <1>2 DEF Restart, WhatWasSaid
  <2> QED BY <2>1 DEF ReportInv
<1>3. CASE UNCHANGED <<state, said>> /\ (~told' \/ printer'.gcode # "RUNNING")
  BY <1>3 DEF ReportInv, WhatWasSaid
<1>4. CASE UNCHANGED <<state, said, told, printer>>
  BY <1>4 DEF ReportInv, WhatWasSaid
<1>5. LocalPrint \/ PrintEnds \/ (\E c \in Calls : PrinterStarts(c)) =>
        UNCHANGED <<state, said>> /\ (~told' \/ printer'.gcode # "RUNNING")
  BY DEF LocalPrint, PrintEnds, PrinterStarts, Prints, reports
<1>6. \/ Restart \/ LocalPrint \/ PrintEnds
      \/ \E c \in Calls : PrinterStarts(c)
      \/ \E F \in Sparse : Receive(F)
      \/ UNCHANGED <<state, said, told, printer>>
  BY DEF Next, ExecuteBegin, ToolBegin, Begin, ExecutePreflight, TransferReturns, Publish,
     AckSuccess, CallFails, Abandon, WorkerStep, Store, Stored, Verify, Delete, TransferFails,
     Worker, Move, reports, vars
<1> QED BY <1>1, <1>2, <1>3, <1>4, <1>5, <1>6

(* Whatever reports came, in whatever pieces, the merged state is the tree *)
(* of one report: deep_merge neither loses a value nor leaves a stale one. *)
THEOREM ReportsAreOne == Spec => []ReportInv
<1>1. Init => ReportInv
  BY DEF Init, ReportInv, WhatWasSaid
<1>2. IndInv => TypeOK
  BY DEF IndInv
<1> QED BY <1>1, <1>2, ReportStep, Inductive, PTL DEF Spec

(* A value in the tree of a report.                                        *)
LEMMA ToldByReport ==
  ASSUME NEW values, DOMAIN values \subseteq Fields, state = Report(values), NEW f \in Fields
  PROVE  Told(f) = IF f \in DOMAIN values THEN Atom(values[f]) ELSE Atom("unsaid")
<1>1. state.dict = [k \in {"print"} |-> PrintOf(values)]
  BY ReportTree DEF Dict
<1>2. Get(state, "print", EmptyDict) = PrintOf(values)
  BY <1>1 DEF Get
<1>3. PrintOf(values).dict = [k \in PrintKeys(DOMAIN values) |->
                               IF k = "ams" THEN AmsOf(values) ELSE Atom(values[k])]
  BY DEF PrintOf, Dict
<1>4. CASE f \notin AmsFields
  <2>1. f \in PrintKeys(DOMAIN values) <=> f \in DOMAIN values
    BY <1>4 DEF PrintKeys, Fields
  <2>2. Told(f) = Get(PrintOf(values), f, Atom("unsaid"))
    BY <1>2, <1>4 DEF Told, AmsFields
  <2>3. f # "ams"
    BY DEF Fields
  <2> QED BY <1>3, <2>1, <2>2, <2>3 DEF Get
<1>5. CASE f \in AmsFields
  <2>1. Told(f) = Get(Get(PrintOf(values), "ams", EmptyDict), f, Atom("unsaid"))
    BY <1>2, <1>5 DEF Told, AmsFields
  <2>2. CASE DOMAIN values \cap AmsFields = {}
    <3>1. "ams" \notin PrintKeys(DOMAIN values)
      BY <2>2 DEF PrintKeys, Fields
    <3>2. Get(PrintOf(values), "ams", EmptyDict) = EmptyDict
      BY <1>3, <3>1 DEF Get
    <3>3. f \notin DOMAIN EmptyDict.dict
      BY DEF EmptyDict, Dict
    <3> QED BY <1>5, <2>1, <2>2, <3>2, <3>3 DEF Get
  <2>3. CASE DOMAIN values \cap AmsFields # {}
    <3>1. "ams" \in PrintKeys(DOMAIN values)
      BY <2>3 DEF PrintKeys
    <3>2. Get(PrintOf(values), "ams", EmptyDict) = AmsOf(values)
      BY <1>3, <3>1 DEF Get
    <3>3. AmsOf(values).dict = [g \in DOMAIN values \cap AmsFields |-> Atom(values[g])]
      BY DEF AmsOf, Dict
    <3> QED BY <1>5, <2>1, <3>2, <3>3 DEF Get
  <2> QED BY <2>2, <2>3
<1> QED BY <1>4, <1>5

(* However sparse reports are and however they nest, the merged state says *)
(* of every field what the last report with the field said.                *)
THEOREM LastWordIsMerged == Spec => []MergedIsLastWord
<1>1. ReportInv => MergedIsLastWord
  <2> SUFFICES ASSUME ReportInv, NEW f \in Fields PROVE Told(f) = Atom(said[f])
    BY DEF MergedIsLastWord
  <2>1. CASE state = Report(WhatWasSaid)
    <3>1. DOMAIN WhatWasSaid = {g \in Fields : said[g] # "unsaid"}
      BY DEF WhatWasSaid
    <3>2. Told(f) = IF f \in DOMAIN WhatWasSaid THEN Atom(WhatWasSaid[f]) ELSE Atom("unsaid")
      BY <2>1, <3>1, ToldByReport
    <3> QED BY <3>1, <3>2 DEF WhatWasSaid
  <2>2. CASE state = EmptyDict /\ DOMAIN WhatWasSaid = {}
    <3>1. said[f] = "unsaid"
      BY <2>2 DEF WhatWasSaid
    <3>2. \A k, default : Get(EmptyDict, k, default) = default
      BY DEF Get, EmptyDict, Dict
    <3> QED BY <2>2, <3>1, <3>2 DEF Told
  <2> QED BY <2>1, <2>2 DEF ReportInv
<1> QED BY <1>1, ReportsAreOne, PTL

(* A printer that has reported the print it is busy with is never sent     *)
(* another one: its gcode_state is in the merged state, and _preflight     *)
(* reads it there.                                                         *)
THEOREM BusyPrinterRefused == Spec => BusyPrinterIsRefused
<1> DEFINE Step == \A c \in Calls :
             pc[c] = "status" /\ pc'[c] = "transfer" =>
               ~(printer.gcode = "RUNNING" /\ told)
<1>1. ReportInv /\ IndInv /\ [Next]_vars => Step
  <2> SUFFICES ASSUME ReportInv, TypeOK, RequestInv, [Next]_vars, NEW c \in Calls,
                      pc[c] = "status", pc'[c] = "transfer",
                      printer.gcode = "RUNNING", told
               PROVE  FALSE
    BY DEF IndInv
  <2>1. ExecutePreflight(c)
    <3>1. ~UNCHANGED pc /\ pc \in [Calls -> {"idle", "status", "transfer", "publish", "ack", "done"}]
      BY DEF TypeOK
    <3>2. ASSUME NEW d \in Calls, NEW request, NEW at, Begin(d, request, at) PROVE FALSE
      BY <3>1, <3>2 DEF Begin
    <3>3. ASSUME NEW d \in Calls,
                 \/ TransferReturns(d) \/ Publish(d) \/ AckSuccess(d)
                 \/ CallFails(d) \/ Abandon(d)
          PROVE  FALSE
      BY <3>1, <3>3 DEF TransferReturns, Publish, AckSuccess, CallFails, Abandon, AdvanceTo
    <3>4. ASSUME NEW d \in Calls, ExecutePreflight(d), d # c PROVE FALSE
      BY <3>1, <3>4 DEF ExecutePreflight, AdvanceTo
    <3>5. ~Restart
      BY DEF Restart
    <3>6. ASSUME \/ \E d \in Calls : WorkerStep(d) \/ PrinterStarts(d)
                 \/ \E j \in Jobs : Move(j)
                 \/ \E F \in Sparse : Receive(F)
                 \/ LocalPrint \/ PrintEnds \/ UNCHANGED vars
          PROVE  FALSE
      BY <3>1, <3>6
         DEF WorkerStep, Store, Stored, Verify, Delete, TransferFails, Worker, PrinterStarts,
         Prints, Move, Receive, LocalPrint, PrintEnds, requests, vars
    <3> QED BY <3>2, <3>3, <3>4, <3>5, <3>6 DEF Next, ExecuteBegin, ToolBegin
  <2>2. said["gcode_state"] = "RUNNING"
    BY DEF ReportInv
  <2>3. /\ "gcode_state" \in DOMAIN WhatWasSaid /\ DOMAIN WhatWasSaid \subseteq Fields
        /\ WhatWasSaid["gcode_state"] = "RUNNING"
    BY <2>2 DEF WhatWasSaid, Fields
  <2>4. state = Report(WhatWasSaid)
    BY <2>3 DEF ReportInv
  <2>5. state.dict = [k \in {"print"} |-> PrintOf(WhatWasSaid)]
    BY <2>4, ReportTree DEF Dict
  <2>6. PrintOf(WhatWasSaid).dict = [k \in PrintKeys(DOMAIN WhatWasSaid) |->
                 IF k = "ams" THEN AmsOf(WhatWasSaid) ELSE Atom(WhatWasSaid[k])]
    BY DEF PrintOf, Dict
  <2>7. "gcode_state" \in PrintKeys(DOMAIN WhatWasSaid)
    BY <2>3 DEF PrintKeys, AmsFields
  <2>8. Get(Get(state, "print", state), "gcode_state", Atom("UNKNOWN")) = Atom("RUNNING")
    BY <2>3, <2>5, <2>6, <2>7 DEF Get
  <2>9. Atom("RUNNING") \notin {Atom("IDLE"), Atom("FINISH")}
    BY DEF Atom
  <2> QED BY <2>1, <2>8, <2>9 DEF ExecutePreflight, Preflight
<1>2. Spec => []IndInv /\ []ReportInv
  BY Inductive, ReportsAreOne
<1> QED BY <1>1, <1>2, PTL DEF Spec, BusyPrinterIsRefused
=============================================================================
