--------------------------- MODULE PrintDelivery ---------------------------
(***************************************************************************)
(* What gets to a printer, and what the service knows of it when it sends  *)
(* it: the merged reports that LanGateway.status returns, the preflight    *)
(* that reads them, the FTPS transfers of executions and file tools, and   *)
(* the start that makes the printer open a file.  Several jobs, and the    *)
(* tools, share one printer.                                               *)
(*                                                                         *)
(* A coroutine's code between two awaits is one action.  FTPS calls run in *)
(* worker threads (asyncio.to_thread), which go on when their request is   *)
(* cancelled: transfer[c] is the worker of request c, pc[c] its coroutine. *)
(* Approvals are GuardedActions' and PrintExecution's concern.             *)
(***************************************************************************)
EXTENDS JobStates, ReportMerge, Naturals

CONSTANTS
  Jobs,
  Calls,        \* requests: executions, and uses of the upload and delete tools
  Artifacts, SizeOf,
  Output,       \* the output artifact in each job's plan
  UsesAms,      \* jobs whose material mapping uses the AMS
  RemoteName,   \* the name an execution uploads to
  Names,        \* names of files on the printer
  ToolFiles,    \* the name and artifact a tool may ask for
  SizeNamed,    \* the FTPS server answers SIZE with a number
  Outside,      \* the states other requests may move a job to
  Sparse,       \* which fields a report may consist of
  NoJob, NoArtifact, NoCall

(* The parts of a report the model knows: two keys of "print" and two of   *)
(* the dict "ams" in it.                                                   *)
Fields == {"gcode_state", "hms", "ams.ams", "ams.tray_now"}

ASSUME ConstantsAssumption ==
  /\ SizeOf \in [Artifacts -> Nat \ {0}]
  /\ Output \in [Jobs -> Artifacts]
  /\ UsesAms \subseteq Jobs
  /\ RemoteName \in [Jobs -> Names]
  /\ \A i, j \in Jobs : RemoteName[i] = RemoteName[j] => i = j
  /\ ToolFiles \subseteq Names \X (Artifacts \cup {NoArtifact})
  /\ SizeNamed \in BOOLEAN
  /\ Outside \subseteq {"RUNNING", "PAUSED", "SUCCEEDED", "FAILED", "CANCELLED"}
  /\ Sparse \subseteq SUBSET Fields
  /\ NoJob \notin Jobs /\ NoArtifact \notin Artifacts /\ NoCall \notin Calls

VARIABLES
  job,       \* Job.state
  pc,        \* where each request is suspended
  req,       \* what each request asks for
  transfer,  \* the FTPS worker of each request
  wire,      \* the project_file command of each execution
  state,     \* MQTTCommandClient.state, the merged reports
  files,     \* the printer's storage, by name
  printer,   \* what the printer does, for whom, and the file it prints
  said,      \* history: the last value delivered for each field
  told,      \* history: gcode_state was delivered since the last print began
  touched    \* history: who else changed the file since a transfer began

requests == <<pc, req, transfer, wire>>
reports == <<state, said, told>>
storage == <<files, touched>>
vars == <<job, requests, reports, storage, printer>>

NoFile == [of |-> NoArtifact, size |-> 0]
Whole(a) == [of |-> a, size |-> SizeOf[a]]
Content == [of : Artifacts \cup {NoArtifact}, size : Nat]

NoRequest == [kind |-> "none", job |-> NoJob, name |-> "none", artifact |-> NoArtifact]
Requests ==
  [kind : {"execute", "upload", "delete"}, job : Jobs \cup {NoJob}, name : Names,
   artifact : Artifacts \cup {NoArtifact}]

GcodeStates == {"IDLE", "RUNNING", "FINISH"}
Words == GcodeStates \cup {"unsaid", "none", "fault", "contents"}
Transferring == {"asked", "storing", "stored"}

TypeOK ==
  /\ job \in [Jobs -> JobState]
  /\ pc \in [Calls -> {"idle", "status", "transfer", "publish", "ack", "done"}]
  /\ req \in [Calls -> Requests \cup {NoRequest}]
  /\ transfer \in [Calls -> Transferring \cup {"none", "ok", "failed"}]
  /\ wire \in [Calls -> {"unsent", "sent", "accepted"}]
  /\ said \in [Fields -> Words]
  /\ files \in [Names -> Content]
  /\ touched \in [Calls -> SUBSET Calls]
  /\ printer \in [gcode : GcodeStates, by : Calls \cup {NoCall}, file : Content]
  /\ told \in BOOLEAN

Init ==
  /\ job = [j \in Jobs |-> "AWAITING_APPROVAL"]
  /\ pc = [c \in Calls |-> "idle"]
  /\ req = [c \in Calls |-> NoRequest]
  /\ transfer = [c \in Calls |-> "none"]
  /\ wire = [c \in Calls |-> "unsent"]
  /\ state = EmptyDict
  /\ said = [f \in Fields |-> "unsaid"]
  /\ told = FALSE
  /\ files = [n \in Names |-> NoFile]
  /\ touched = [c \in Calls |-> {}]
  /\ printer = [gcode |-> "IDLE", by |-> NoCall, file |-> NoFile]

-----------------------------------------------------------------------------
(* Reports.                                                                *)

(* The tree of a report: "ams" is a dict inside the dict "print".          *)
Report(values) ==
  LET F == DOMAIN values
      inner == F \cap {"ams.ams", "ams.tray_now"}
      ams == Dict([f \in inner |-> Atom(values[f])])
  IN  Dict([k \in {"print"} |->
        Dict([f \in (F \ inner) \cup (IF inner = {} THEN {} ELSE {"ams"}) |->
               IF f = "ams" THEN ams ELSE Atom(values[f])])])

(* What the printer may say in a report of the fields F.                   *)
Values(F) ==
  {values \in [F -> Words] :
     \A f \in F : values[f] \in
       CASE f = "gcode_state" -> {printer.gcode}
         [] f = "hms"         -> {"none", "fault"}
         [] OTHER             -> {"contents"}}

(* A report arrives and receive merges it.  Reports come in the order they *)
(* were sent; one that is late is one that has not come yet.               *)
Receive(F) ==
  /\ \E values \in Values(F) :
       /\ state' = deep_merge(state, Report(values))
       /\ said' = [f \in Fields |-> IF f \in F THEN values[f] ELSE said[f]]
  /\ told' = (told \/ "gcode_state" \in F)
  /\ UNCHANGED <<job, requests, storage, printer>>

-----------------------------------------------------------------------------
(* FTPS workers.                                                           *)

Name(c) == req[c].name

(* Everybody else whose transfer of the same name has begun is affected.   *)
Touch(c) ==
  touched' = [d \in Calls |->
    IF d # c /\ Name(d) = Name(c) /\ transfer[d] \notin {"none", "asked"}
      THEN touched[d] \cup {c} ELSE touched[d]]

Worker(c, from, to) ==
  /\ transfer[c] = from
  /\ transfer' = [transfer EXCEPT ![c] = to]
  /\ UNCHANGED <<job, pc, req, wire, reports, printer>>

(* STOR creates the file, or empties it.                                   *)
Store(c) ==
  /\ req[c].kind # "delete"
  /\ Worker(c, "asked", "storing")
  /\ files' = [files EXCEPT ![Name(c)] = [of |-> req[c].artifact, size |-> 0]]
  /\ Touch(c)

(* The data connection is closed and the server confirms, which it may do  *)
(* without having kept all the bytes.                                      *)
Stored(c) ==
  /\ Worker(c, "storing", "stored")
  /\ \E size \in 0..SizeOf[req[c].artifact] :
       files' = [files EXCEPT ![Name(c)] = [of |-> req[c].artifact, size |-> size]]
  /\ Touch(c)

(* A bug: an upload is taken for complete when the server confirms it.     *)
VerifyNothing(c) == Worker(c, "stored", "ok") /\ UNCHANGED storage

(* The size the server names is compared with how far the artifact's file  *)
(* was read.  SIZE of a file that is gone is an error.  The file of a      *)
(* request that was cancelled is closed: its worker raises ValueError.     *)
Verify(c) ==
  /\ Worker(c, "stored",
       IF /\ pc[c] = "transfer"
          /\ files[Name(c)] # NoFile
          /\ SizeNamed => files[Name(c)].size = SizeOf[req[c].artifact]
         THEN "ok" ELSE "failed")
  /\ UNCHANGED storage

Delete(c) ==
  /\ req[c].kind = "delete" /\ files[Name(c)] # NoFile
  /\ Worker(c, "asked", "ok")
  /\ files' = [files EXCEPT ![Name(c)] = NoFile]
  /\ Touch(c)

(* Connecting, logging in or any command of the session fails.  What was   *)
(* stored so far stays on the printer.                                     *)
TransferFails(c) ==
  \E from \in Transferring : Worker(c, from, "failed") /\ UNCHANGED storage

-----------------------------------------------------------------------------
(* Requests.                                                               *)

Begin(c, request, at) ==
  /\ pc[c] = "idle"
  /\ pc' = [pc EXCEPT ![c] = at]
  /\ req' = [req EXCEPT ![c] = request]
  /\ UNCHANGED <<wire, reports, storage, printer>>

(* A bug: every job uploads to the same name.                              *)
SharedName(j) == CHOOSE n \in Names : TRUE

remote_name(j) == RemoteName[j]

ExecuteBegin(c, j) ==
  /\ job[j] = "AWAITING_APPROVAL"
  /\ Begin(c, [kind |-> "execute", job |-> j, name |-> remote_name(j),
               artifact |-> Output[j]], "status")
  /\ UNCHANGED <<job, transfer>>

(* upload_artifact_to_printer and delete_printer_file, for any name.      *)
ToolBegin(c, name, artifact) ==
  /\ Begin(c, [kind |-> IF artifact = NoArtifact THEN "delete" ELSE "upload",
               job |-> NoJob, name |-> name, artifact |-> artifact], "transfer")
  /\ transfer' = [transfer EXCEPT ![c] = "asked"]
  /\ UNCHANGED job

IsTool(c) == req[c].kind \in {"upload", "delete"}
IsExecution(c) == req[c].kind = "execute"

FailJob(c) == job' = [job EXCEPT ![req[c].job] = Failed(@)]

(* _advance, then the next await, or ConflictError and its handler.        *)
AdvanceTo(c, target, at) ==
  LET j == req[c].job IN
  IF target \in ALLOWED_TRANSITIONS[job[j]]
    THEN job' = [job EXCEPT ![j] = target] /\ pc' = [pc EXCEPT ![c] = at]
    ELSE FailJob(c) /\ pc' = [pc EXCEPT ![c] = "done"]

(* _preflight on the merged state.                                         *)
Preflight(j) ==
  LET print == Get(state, "print", state) IN
  /\ Get(print, "gcode_state", Atom("UNKNOWN")) \in {Atom("IDLE"), Atom("FINISH")}
  /\ Get(print, "hms", Atom("none")) = Atom("none")
  /\ j \in UsesAms => "ams" \in DOMAIN print.dict

(* The pushall is acknowledged, and the state is what was merged by then.  *)
ExecutePreflight(c) ==
  /\ pc[c] = "status" /\ Preflight(req[c].job)
  /\ AdvanceTo(c, "UPLOADING", "transfer")
  /\ transfer' = [transfer EXCEPT ![c] = IF pc'[c] = "transfer" THEN "asked" ELSE "none"]
  /\ UNCHANGED <<req, wire, reports, storage, printer>>

(* The await of the worker returns, or raises what the worker raised.      *)
TransferReturns(c) ==
  /\ pc[c] = "transfer" /\ transfer[c] \in {"ok", "failed"}
  /\ IF IsTool(c) THEN pc' = [pc EXCEPT ![c] = "done"] /\ UNCHANGED job
     ELSE IF transfer[c] = "ok" THEN AdvanceTo(c, "STARTING", "publish")
     ELSE FailJob(c) /\ pc' = [pc EXCEPT ![c] = "done"]
  /\ UNCHANGED <<req, transfer, wire, reports, storage, printer>>

Publish(c) ==
  /\ pc[c] = "publish"
  /\ pc' = [pc EXCEPT ![c] = "ack"]
  /\ wire' = [wire EXCEPT ![c] = "sent"]
  /\ UNCHANGED <<job, req, transfer, reports, storage, printer>>

AckSuccess(c) ==
  /\ pc[c] = "ack" /\ wire[c] = "accepted"
  /\ AdvanceTo(c, "RUNNING", "done")
  /\ UNCHANGED <<req, transfer, wire, reports, storage, printer>>

(* No connection, no acknowledgement, a refusal of the preflight or of the *)
(* printer: the execution's handler fails the job.                         *)
CallFails(c) ==
  /\ pc[c] \in {"status", "publish", "ack"}
  /\ FailJob(c)
  /\ pc' = [pc EXCEPT ![c] = "done"]
  /\ UNCHANGED <<req, transfer, wire, reports, storage, printer>>

(* The request is cancelled: no handler runs, and its worker goes on.      *)
Abandon(c) ==
  /\ pc[c] \notin {"idle", "done"}
  /\ pc' = [pc EXCEPT ![c] = "done"]
  /\ UNCHANGED <<job, req, transfer, wire, reports, storage, printer>>

(* Cancellation, monitoring, pause and resume by other requests.           *)
Move(j) ==
  /\ \E s \in ALLOWED_TRANSITIONS[job[j]] \cap Outside : job' = [job EXCEPT ![j] = s]
  /\ UNCHANGED <<requests, reports, storage, printer>>

(* The service is restarted; commands it sent may still be on their way,   *)
(* and the merged reports are gone.  (A lost connection leaves them.)      *)
Restart ==
  /\ \E c \in Calls : pc[c] \notin {"idle", "done"} \/ transfer[c] \in Transferring
  /\ pc' = [c \in Calls |-> IF pc[c] = "idle" THEN "idle" ELSE "done"]
  /\ transfer' = [c \in Calls |->
       IF transfer[c] \in Transferring THEN "failed" ELSE transfer[c]]
  /\ job' = [j \in Jobs |-> Recovered(job[j])]
  /\ state' = EmptyDict /\ said' = [f \in Fields |-> "unsaid"]
  /\ told' = FALSE
  /\ UNCHANGED <<req, wire, storage, printer>>

-----------------------------------------------------------------------------
(* The printer, which people use too.                                      *)

Prints(c, file) ==
  /\ printer' = [gcode |-> "RUNNING", by |-> c, file |-> file]
  /\ told' = FALSE
  /\ UNCHANGED <<job, pc, req, transfer, state, said, storage>>

PrinterStarts(c) ==
  /\ wire[c] = "sent" /\ files[Name(c)] # NoFile
  /\ wire' = [wire EXCEPT ![c] = "accepted"]
  /\ Prints(c, files[Name(c)])

LocalPrint ==
  /\ printer.gcode # "RUNNING"
  /\ Prints(NoCall, NoFile)
  /\ UNCHANGED wire

PrintEnds ==
  /\ printer.gcode = "RUNNING"
  /\ printer' = [gcode |-> "FINISH", by |-> NoCall, file |-> NoFile]
  /\ UNCHANGED <<job, requests, reports, storage>>

-----------------------------------------------------------------------------
WorkerStep(c) == Store(c) \/ Stored(c) \/ Verify(c) \/ Delete(c) \/ TransferFails(c)

Next ==
  \/ \E c \in Calls :
       \/ \E j \in Jobs : ExecuteBegin(c, j)
       \/ \E f \in ToolFiles : ToolBegin(c, f[1], f[2])
       \/ ExecutePreflight(c) \/ TransferReturns(c) \/ Publish(c) \/ AckSuccess(c)
       \/ CallFails(c) \/ Abandon(c) \/ WorkerStep(c)
       \/ PrinterStarts(c)
  \/ \E j \in Jobs : Move(j)
  \/ \E F \in Sparse : Receive(F)
  \/ Restart \/ LocalPrint \/ PrintEnds

Spec == Init /\ [][Next]_vars

-----------------------------------------------------------------------------
(* Properties.                                                             *)

(* An upload that was reported as done is on the printer, whole, whatever  *)
(* the connection and the server did, until somebody else stores or        *)
(* deletes under the same name.                                            *)
VerifiedIsStored ==
  \A c \in Calls :
    SizeNamed /\ transfer[c] = "ok" /\ req[c].kind # "delete" /\ touched[c] = {}
      => files[Name(c)] = Whole(req[c].artifact)

(* A printer that an execution started prints the whole output artifact    *)
(* of that job's plan: not what another job, a broken or a stray upload    *)
(* left under its name.  Only a file tool can come between, which no check *)
(* of an execution would notice.                                           *)
PrintsThePlan ==
  \A c \in Calls :
    SizeNamed /\ printer.by = c /\ (\A d \in touched[c] : ~IsTool(d))
      => printer.file = Whole(Output[req[c].job])

(* What a request's place says of it; requests of tools publish nothing.   *)
Asks(c) ==
  /\ req[c] \in Requests
  /\ IsExecution(c) => /\ req[c].job \in Jobs
                       /\ req[c].name = remote_name(req[c].job)
                       /\ req[c].artifact = Output[req[c].job]
  /\ req[c].kind = "upload" => req[c].artifact \in Artifacts
RequestInv ==
  \A c \in Calls :
    /\ pc[c] = "idle" => req[c] = NoRequest /\ transfer[c] = "none" /\ wire[c] = "unsent"
    /\ pc[c] # "idle" => Asks(c)
    /\ pc[c] = "status" => IsExecution(c) /\ transfer[c] = "none"
    /\ pc[c] \in {"publish", "ack"} \/ wire[c] # "unsent" => IsExecution(c) /\ transfer[c] = "ok"
    /\ transfer[c] \in {"none", "asked"} => touched[c] = {}

(* An execution that has begun its upload is the only one of its job, and  *)
(* so the only execution that uses the name.                               *)
Uploads(c) == IsExecution(c) /\ transfer[c] # "none"
ClaimInv ==
  \A c, d \in Calls :
    Uploads(c) =>
      /\ job[req[c].job] # "AWAITING_APPROVAL"
      /\ Uploads(d) /\ req[c].job = req[d].job => c = d
      /\ d \in touched[c] => IsTool(d)

(* What an upload nobody has touched has on the printer.                   *)
FileInv ==
  \A c \in Calls :
    req[c].kind # "delete" /\ touched[c] = {} =>
      /\ transfer[c] = "stored" => files[Name(c)].of = req[c].artifact
      /\ SizeNamed /\ transfer[c] = "ok" => files[Name(c)] = Whole(req[c].artifact)

PrinterInv ==
  \A c \in Calls :
    printer.by = c =>
      /\ wire[c] # "unsent"
      /\ SizeNamed /\ touched[c] = {} => printer.file = Whole(Output[req[c].job])

(* The inductive invariant of PrintsThePlan and VerifiedIsStored.          *)
IndInv == TypeOK /\ RequestInv /\ ClaimInv /\ FileInv /\ PrinterInv

(* The merged state says of every field what the last delivered report     *)
(* that had the field said, however sparse the reports were.               *)
Told(f) ==
  LET print == Get(state, "print", EmptyDict)
      dict == IF f \in {"ams.ams", "ams.tray_now"} THEN Get(print, "ams", EmptyDict) ELSE print
  IN  Get(dict, f, Atom("unsaid"))
MergedIsLastWord == \A f \in Fields : Told(f) = Atom(said[f])

(* Merging loses nothing: the merged state is the tree of the one report   *)
(* that would have said all of it.  The inductive invariant of             *)
(* MergedIsLastWord and BusyPrinterIsRefused.                              *)
WhatWasSaid == [f \in {g \in Fields : said[g] # "unsaid"} |-> said[f]]
ReportInv ==
  /\ \/ state = EmptyDict /\ DOMAIN WhatWasSaid = {}
     \/ state = Report(WhatWasSaid)
  /\ told /\ printer.gcode = "RUNNING" => said["gcode_state"] = "RUNNING"

(* No execution gets past the preflight while the printer is busy with a   *)
(* print it has reported, though reports come late and sparse.             *)
BusyPrinterIsRefused ==
  [][\A c \in Calls :
       pc[c] = "status" /\ pc'[c] = "transfer" => ~(printer.gcode = "RUNNING" /\ told)]_vars
=============================================================================
