# A TLA+ development of bambu-mcp

bambu-mcp is a service that prepares, approves, starts and controls prints on
Bambu X2D/N6 printers for MCP clients. This directory holds TLA+ modules of its
print workflow and of the components the workflow rests on, the TLC
configurations that check them, and TLAPS proofs. `PROJECT.json` lists the
runs, the mutants that show each property can fail, the source lines every
definition stands for, the hazards, the divergences found and the theorems.

    tlc -config MCPrintJobs.cfg MCPrintExecution        # a run
    tlapm PrintExecution_proofs.tla                     # a proof module

## The system

Two processes. The service is one asyncio event loop (plus a thread pool for
sync HTTP endpoints and blocking calls, and one paho network thread per
printer); the slicer sidecar is a second one that shares the artifact volume.
What survives a crash is a SQLite database and the artifact files.

| component | state it keeps | operations | what is hard | correct when |
|---|---|---|---|---|
| print workflow, `workflow.py` | `jobs`, `approvals`, `job_steps`, `audit_events` rows | approve, execute, cancel, pause, resume, monitor | every `await` lets other requests move the same job; side effects on a printer cannot be undone | the start of a plan is published by at most one execution, nothing guarded happens without an approval of its own, jobs do not get stuck |
| preparation, `workflow.py`, `slicer.py` | `jobs` rows, one work directory per job | prepare (eight commits, three awaits) | cancelled, failed or restarted in between | what can be approved is complete, and the job's own |
| guarded actions, `workflow.py` | `approvals` rows | run_operation, raw MQTT, file upload and delete | digests computed before an `await`, compared after it | one action per approval, the one approved |
| recovery, `database.py`, `container.py` | `jobs` rows | fail interrupted jobs at start | crash between a commit and the effect it announces | no interrupted job without an owner |
| MQTT client, `protocol/mqtt.py` | sequence number, pending and completed acknowledgements, merged state | command, receive, disconnected | timeouts race answers, QoS 1 resends and duplicates, disconnects | answers reach the call they answer, once; nothing is resent once the caller has its answer; every call ends |
| connection, `protocol/mqtt.py`, `gateway.py` | `connected`, `_ready`, futures, one gateway per printer | connect, publish, close, rotate | network thread, worker threads and event loop; reconnects of the library's own; blocking calls that outlive their cancelled task | commands go out on confirmed subscriptions and learn of their end; a connected gateway is watched; nobody waits for ever |
| artifact store, `artifacts.py` | content-addressed files, `artifacts` rows | ingest, import, transform, snapshot, validate archives | uploads in a thread pool; a file and a row are two stores; crashes; limits of an archive reached by several entries together | a row has its file, its kind was inspected, and what was inspected is fit for use |
| slicer sidecar, `slicer_sidecar.py` | work directories, processes | slice | client gives up before the sidecar; no lock | outputs are not mixed up |
| FTPS client, `protocol/ftps.py` | the files on the printer | upload with size check, list, delete | transfers run in threads that outlive their request; partial transfers; everybody uses one directory | an upload reported as done is on the printer, whole; a started print is the plan's |
| capability adapter, `capabilities.py` | none | risk and write gates, material mapping | settings change between approval and use; parallel lists with sentinels, routes in any order | nothing is done that the settings forbid; a mapping says exactly what the routes asked for |
| report merging, `state.py` | the merged state of a printer | deep merge | reports are sparse, late and nested | the state is the last word of the printer on every field |
| front ends and helpers: `api.py`, `mcp_server.py`, `cli.py`, `docs.py`, `config.py`, `security.py`, `protocol/camera.py`, `migrations/` | none | parse, authenticate, call the workflow | - | - |

How they interact: the front ends call the workflow; the workflow commits rows
in short transactions, awaits the slicer (HTTP) and the printer's gateway
(MQTT, FTPS) between them, and stores artifacts; reports of the printer come
back through the paho thread into the event loop, settle acknowledgements and
update the state that `status` returns; `monitor_job` turns that state into
job transitions. The printer is also used by people and by other clients.

## Modules

| module | models | extends |
|---|---|---|
| `JobStates` | `JobState`, `ALLOWED_TRANSITIONS`, `_transition`, `_fail_job`, recovery, as operators | |
| `JobLifecycle` | abstract: what the service promises about a job's row and its print; implemented by `PrintPreparation` and `PrintExecution` | `JobStates` |
| `PrintExecution` | from an approved plan to the end of the print, with approvals, controls, monitoring, crash and restart | `JobStates` |
| `MaterialMapping` | `material_mapping`, as a function, and how the printer reads its result | |
| `PrintPreparation` | `prepare_print_pipeline` and the sidecar | `JobStates`, `MaterialMapping` |
| `OperationCatalogue` | the operations with their risks, `operation_named`, `require_write_allowed` | |
| `GuardedActions` | run_operation, raw MQTT, file upload and delete, the gates before them and the digests of their approvals | `JobStates`, `OperationCatalogue` |
| `ReportMerge` | `deep_merge`, as operators on trees | |
| `PrintDelivery` | reports, preflight, FTPS transfers and starts: what gets to a printer several requests share | `JobStates`, `ReportMerge` |
| `CommandOutcome` | abstract: what a caller of `gateway.command` may rely on; implemented by `MqttCommands` | |
| `MqttCommands` | `MQTTCommandClient` and `AckTracker` over a lossy network | |
| `LanConnection` | `PahoTransport` with paho's threads, `LanGateway`'s lock and flag, and the close by its pool | |
| `ArchivePolicy` | `ArchivePolicy.validate` and `inspect_path`, and what a user of an artifact counts on | |
| `ArtifactStore` | every way into the store (uploads, imports, transforms, snapshots, slicer output) and the transaction around it | `ArchivePolicy` |
| `X_proofs` | theorems about `X` | `X`, `TLAPS` |
| `MCX` | instances of `X` for TLC | `X`, `TLC` |

**Conventions.** A coroutine's code between two awaits is one action, because
one event loop runs all requests; `pc` names the await a request is suspended
in. Code that runs in threads (`ArtifactStore`) has an action for every access
to shared state. Operators commented "A bug: ..." are the mutants: a mistake one
could plausibly make in the mapped code; they are not part of any
specification. Approvals can also be issued from the thread pool (the HTTP
endpoint is synchronous); that transaction reads one job row and inserts one
approval row, so it is as if it happened at the read.

### PrintExecution

`job`, `firmware` and `approval` are rows; `pc`, `req` and `token` are the
suspended requests and the tokens they consumed; `wire` is how far each
request's MQTT command got and `printer` what the machine does, for which job;
`reported` is the gateway's merged state. `ExecuteBegin`, `ExecutePreflight`,
`ExecuteUploaded`, `Publish` and `AckSuccess` are `execute_print_pipeline`
between its awaits; `OperationBegin` and `OperationAuthorise` the other
operations; `CallFails` is any exception an await raises, and only execution
turns it into a FAILED job; `Abandon` is `CancelledError`, which is no
`Exception`, so that the handler does not run. A published command may be
executed at any later time or never. Here and in `PrintDelivery` the printer
acts on each publication at most once; that paho may send it a second copy is
modelled in `MqttCommands`. `Monitor` reads only its printer's report, so it also sees prints started at the machine.

`JobLifecycle` is the abstract specification: rows follow the transition table,
UPLOADING needs a spent approval, a start is published at most once and only after
STARTING was committed. `ImplementsLifecycle` is its `Spec` under the mapping
`spent <- Spent`, `sent <- Sent`. `PrintPreparation` implements it too, so that
one abstract life covers a job from its insertion to the end of its print; the
two modules meet at AWAITING_APPROVAL.

### PrintPreparation

`request` is what is asked for (artifact kind, routes), `output` and `plan` the
row's columns, `process` and `workspace` the sidecar's processes and work
directories; `withdrawn` says that the printer's `hardware_verified` has been
taken back, which a preparation that already read it does not notice. Each commit is an action of its own: the service may be restarted
after it, but no other task runs while a preparation is between two awaits
(`Quiet`). Which checks an artifact, a transform or the slicer fails is left
open: `Raise` is possible everywhere. For `ImplementsLifecycle`, `Row` takes a
job that is not inserted yet for one in CREATED, and nothing is spent or sent.

`MaterialMapping` is the pure part: `Mappable` and `Mapping` are the checks and
the five lists of `material_mapping`; `SaysWhatWasAsked` reads a mapping from
the printer's end and compares it with the request.

### GuardedActions

An approval is bound to job, action and the job's state at issue. run_operation
reads the job after its gateway is there; the three other tools compute the
digest (`digest`) before that await and present it after (`FileAuthorise`).

`OperationCatalogue` is the catalogue of `capabilities.py` with its two gates.
`RunTools` are the operations the MCP tools pass to run_operation, `FileTools`
those with a function of their own. An action is an operation with its
parameters (`Operation`); some raw commands are of families that are never
exposed (`NeverExposed`). An action without need of an approval passes by
`RunPlain`. `settings` are the two flags that gate actions; they change only by
`Restart`, which approvals survive and requests do not, so an approval can be
presented under settings that it would not be issued under.

### MqttCommands

`pending` and `completed` are `AckTracker`'s dictionaries; `future` is each
call's future. `Timeout` settles the future in one turn of the event loop, the
call resumes in a later one (`Expired`). `outbox` is what paho holds without a
PUBACK: it sends each publication once on every connection (`Transmit`) until the
PUBACK comes (`Puback`), whether or not the call that published it still waits,
and `Published` is the return of `wait_for_publish` after the PUBACK. `copies`
are the copies under way and `verdicts` what the printer did with those it got,
which may be one thing for the first and another for the second. Reports can be
delivered any number of times in any order until the connection ends; other
clients of the printer share the report topic (`ForeignReport`). A restart, or a
new gateway, counts from zero again; a restart loses the outbox, a replaced
gateway's paho client may keep it and go on sending.

`CommandOutcome` is the abstract specification: a command has one outcome; an
answer is what the printer did with a copy of it; and once the caller has an
answer no further copy is sent, though copies already sent may still be acted
on. An error says nothing: the command may have taken effect, once or more, or
still do so. That a command takes effect at most once is nowhere claimed, because
QoS 1 does not give it and the code adds nothing to it. `ImplementsOutcome` maps
the calls' places to `outcome` and the calls whose number was used by somebody
else to `shared`; for those alone an answer may be another command's.

### LanConnection

Here the unit of interleaving is finer, because threads share the transport.
`queue` is the event loop's queue: what `call_soon_threadsafe` put there
(`Signal`, `Disconnected`) and the tasks that are ready to go on (`Resume`), in
order; `HandleSignal`, `HandleDisconnected` and `HandleResume` take the next.
`worker` is the blocking paho call that `asyncio.to_thread` runs for a task,
`stray` those whose task was cancelled and that go on alone. A task can be
cancelled wherever it waits: for the lock (`CancelLocking`), for a worker
(`Cancel`), for a worker that has just finished (`Resumed`), in the handshake
(`HandshakeTimeout`) or for its answer. `Interrupted` is what `CancelledError`
does there: in `client.connect` it still starts the cleanup, in
`_cleanup_failed_connect` it skips what is left and gives the lock back, in
`transport.close` the `finally` clause still stops the thread, after which the
gateway stays `connected`. The call left behind, a connect, a disconnect or a
loop_stop, runs at any later time (`StrayConnects`, `StrayDisconnects`,
`StrayStops`), or never. `thread`, `terminate`, `closing` and `link` are paho's network thread, the two ways it is
told to end, and the session as the printer leaves it. `_ready` and
`_subscription_mid` (`subscribing`) are set by the network thread at once,
`connected` only when the event loop gets there.

Paho is not in the repository. It is modelled from how the transport uses it,
with these assumptions about paho 2.1: `loop_start` fails while its thread
exists; the thread reopens a lost session until `disconnect` or `loop_stop`;
`connect` replaces the socket without calling back; without a thread,
`disconnect` calls `on_disconnect` in the calling worker. A task that waits for
an answer is `awaiting` while its session lives, `bereft` once it ended, and
`stranded` when a stray has replaced the session or stopped the thread, which
paho does not report. `misled` records that the network thread's knowledge may
concern a replaced session; `disturbed` that, since the last attempt began, a
stray disconnect or loop_stop has run, a stray connect has undone a close, or a
close was cancelled. What these break in the code is left broken in the model:
the properties say what holds without them, and what holds all the same (the
lock, one resumption per await, subscriptions before publications, the end of
every request). A request may hold a gateway across its close and connect it
again.

### ArchivePolicy and ArtifactStore

`temporary`, `blobs` and `row` are the temporary files, the content-addressed
files and the committed rows; `writer` is the session with an uncommitted row,
which holds SQLite's write lock. An upload may be a stream, a local import, a
transformed mesh, a snapshot or the slicer's output, which has a file of its own
that is kept. A crash keeps files and loses what was not committed. The disk may
refuse to write a file, or to look up, create or move one on its way from the
temporary name to its place (`PlaceFails`; artifacts.py:189-197 is in no `try`,
so that such an upload ends `unplaced` and keeps its temporary file). Removing a
file does not fail.

What passes inspection is `inspect_path` over the bytes of a content: the
directory of an archive (names, sizes, links, hardened XML), the vertices and
faces of a mesh, or neither. `validate` walks the directory as the code does,
with its running total; `Usable` says without it what whoever opens the artifact
counts on, and `RowsAreUsable` holds the one to the other. Mesh geometry and the
metadata of rows are left out.

### PrintDelivery and ReportMerge

`state` is the merged state of the printer's gateway, `files` the printer's
storage, `transfer` the FTPS worker of each request and `pc` its coroutine.
`Store`, `Stored` and `Verify` are STOR, its confirmation and the size check;
each may fail, and each goes on when the request is cancelled. An execution's
file is named after its job (`remote_name`); the file tools use any name.
`Receive` merges a report of any of the field sets `Sparse`; it arrives at any
time after the printer could have said it, so the preflight may see an old state.
`ExecutePreflight`, `TransferReturns`, `Publish` and `AckSuccess` are the awaits
of `execute_print_pipeline` again, this time with what they carry; approvals and
who may hold a job are `PrintExecution`'s and `GuardedActions`' concern, and
`Move` stands for what the other requests may do to a job.

`said`, `told` and `touched` are history variables: what was delivered last for
each field, whether a state was delivered since the last print began, and who
else stored or deleted under a transfer's name.

## Runs

| run | instance | shows |
|---|---|---|
| `jobs` | two jobs for one printer, two requests (execute or cancel), two tokens, both clients may hang up, crashes | `IndInv` (proved below), `StartedAtMostOnce`, `InFlightJobIsOwned`, `CancelledWasStopped`, `NoJobAheadOfItsApproval`, `EffectsAreApproved`, `RunningFailureExplained`, and that `PrintExecution` implements `JobLifecycle` |
| `liveness` | one job, two requests of all five kinds, two firmwares, crashes | `RequestsEnd`, `InterruptedStatesAreLeft`, `EndIsNoticed` |
| `guarded_actions` | two jobs of one printer, another printer, four actions, two requests that race for one token, restarts with other settings | `OneActionPerApproval`, `PerformedAsApproved`, `RunInTheApprovedState`, `ExposedWhenPerformed` |
| `mqtt` | two commands over two connections, resent on the second until their PUBACK, a cache of one completed number, restarts, a foreign client that uses a number too | `SettledOnce`, `AnsweredOnItsConnection`, `CallsEnd`, `IndInv`, and that `MqttCommands` implements `CommandOutcome` |
| `delivery` | two jobs of one printer, two requests out of execute, upload and delete, sparse reports, cancelled requests, restarts, people at the printer | `PrintsThePlan`, `VerifiedIsStored`, `MergedIsLastWord`, `BusyPrinterIsRefused` |
| `connection` | two requests, one closing task, one lost or refused session, timeouts, every task cancelled at any await, the calls this leaves behind | `AwaitedAnswersCanCome`, `ConnectedIsWatched`, `PublishedWhenSubscribed`, `RequestsEnd`, `IndInv` |
| `prepare` | two jobs, four kinds of request, four printer states, restarts, cancelled requests | `ApprovableIsComplete`, `PlanRoutesAsAsked`, `ErrorMeansEnded`, `PreparationEnds`, and that `PrintPreparation` implements `JobLifecycle` |
| `artifacts` | three uploads out of fourteen requests over ten contents, crashes, a disk that refuses to write or move files | `RowHasBlob`, `RowsAreUsable`, `StoredForGood`, `NoTemporaryLeft`, `SourceKept`, `RowsAreImmutable` |
| `ack_fails_job`, `cancel_race`, `guarded_printer`, `duplicates` | small | the disagreements below |

Where the invariant of a proof implies the safety properties of a run, the run
checks those and not the invariant: type correctness and the inductive
invariants of all modules were checked by TLC while they were found, and are
theorems. `ReturnsItsOwnAnswer`, `EndedIsFinal` and `RowWasInspected` are theorems
without a run, too: the two refinements imply the first two, but for a plan never
changing, and `RowsAreUsable` rests on the third. `ReportInv` implies
`MergedIsLastWord`, which is what the run checks.

**Why these bounds.** The races are between two requests (two executions;
execution and cancellation; two presentations of a token), each with at most
one token; a third request adds no new conflict because the conflicts are all
over one row. Two jobs are enough to confuse one with another. With a cache of
one number, the second command evicts the first one's while its duplicates
still arrive; the foreign client's report is a success under the number 1. Two
connections are one reconnect, with the resends it brings, or one restart (the
invariants were also checked once over three). Of two requests of a connection
one fails or is cancelled and leaves its call behind, the other relies on the
result; the closing task does either; one failure on top of timeouts and
cancellations ends the session at every place. The invariants were also checked
once with three requests (2.2 million states), and with two closing tasks and two
failures (2.8 million). In `prepare` the hardware flag is set and taken
back at most once each. The requests of `prepare` have
no route, a route too few, one route with an FTS channel, and two routes in the
opposite order of the filaments, on both nozzles, with an AMS slot and the
external spool. Three uploads allow a crash between the first two's file and
row, and a third that finds what they left; four of the archives, of at most
three entries, each fail one check of the policy (the total size or the ratio,
by one; a name twice; a link) and pass the others. The four actions are a
routine one, an experimental one of run_operation, a raw command and one of a
family that is never exposed, under all four settings. In `delivery` the outputs of the two jobs have the same size, so
that no size check tells them apart; the tool stores the second job's output
under the first one's name, or deletes that. Every passing run also has the
environment unrestricted within its actions: printers, people, the network and
clients may take, or not take, any of them at any time. The safety results for any number of requests,
jobs, tokens, printers, commands and uploads are the theorems.

**Deadlock** is not checked: every request, token and upload of an instance is
used once, and a system all of whose requests have ended rightly stops.

**Symmetry** is used for requests, tokens, jobs and uploads where the instance
treats them alike, and never in a run with a liveness property.

**Fairness.** `PrintExecution`: weak fairness of each request's own steps,
because each await has a timeout (`mqtt_ack_timeout_seconds`, ten seconds in
`publish`, `connect_timeout`, ftplib's and httpx's timeouts) and raises if
nothing else happens, and of `Boot`, because the container restarts.
`PrintPreparation`: the same for a preparation's steps. `MqttCommands`: weak
fairness of a call's steps (`wait_for_publish`, `wait_for`). `LanConnection`:
the event loop takes its next callback, a worker's paho call returns (its
sockets have timeouts; the join returns when the thread has ended), the network
thread runs its callbacks and ends when told to, and waits have their timers;
its `RequestsEnd` therefore says that neither the lock nor the join can block
for ever. The calls that cancelled tasks leave behind need not run. There is no
fairness for printers, clients, the network or the sidecar either: what they do
is in the actions named above, and none of it has to happen. `InterruptedStatesAreLeft`
holds without cancelled requests only: `CancelledError` leaves the job in
UPLOADING or STARTING until the next restart. `EndIsNoticed` assumes, inside the
property, that somebody keeps monitoring the job: the service has no poller of
its own, and `monitor_job` is called by clients.

## Proofs

All are for every value of the constants, from the `ConstantsAssumption` of
each module (types and distinctness of the "none" values) and nothing else
unless stated.

- **`PrintExecution_proofs`.** `StartedAtMostOnce` is not inductive: that a
  second execution cannot send rests on the claim an execution has on its job
  from the commit of UPLOADING on. `IndInv` adds what a request's place says
  about its token and command (`RequestInv`), the uniqueness of consumed tokens
  (`TokenInv`), at most one claim per job, which then no longer awaits approval
  (`ClaimInv`), that the job of a publishing execution is past STARTING
  (`PublishInv`), and that no job returns to preparation (`PreparedInv`).
  `InFlightJobIsOwned` is inductive relative to it: a job enters UPLOADING or
  STARTING only by a step of the execution that holds it then, its holder leaves
  only by moving the job on or failing it, or is cancelled, and nothing runs
  before the boot that fails what a crash left. `RunningFailureExplained` is
  about steps, so it needs no more than the ways a row can become FAILED.
  Theorems: `TypeCorrect`, `Inductive`, `AtMostOneStart`, `ApprovedEffects`,
  `NoneAhead`, `CancelledStopped`, `Owned`, `FailureExplained`, and
  `Implements`: the refinement of `JobLifecycle`, step by step.
- **`GuardedActions_proofs`.** `IndInv`: a cleared request holds a used approval
  for its job and action, and no two hold the same; approvals are issued to
  jobs that have not ended; a request between its gate and its end is one the
  settings of the moment let through, because a restart ends it (`ExposedInv`).
  Theorems: `Inductive`, `OneActionEach`, `AsApproved`, `RunStateApproved`,
  `GatesHold`.
- **`MqttCommands_proofs`.** `IndInv`: every pending number belongs to a call at
  work, under its own number, registered on the current connection; a waiting
  future is pending. Theorems: `Inductive`, `FuturesSettleOnce`, `FailClosed`,
  `Correlated` and `Implements`, the refinement of `CommandOutcome`, for any
  restarts and foreign clients; a call whose number was used twice is excepted
  by the statements of the last two themselves. What paho still holds belongs to
  a call that waits for its PUBACK or ended in an error (`TrackerInv`), because
  an answer is returned only after the PUBACK: so no copy follows an answer.
- **`LanConnection_proofs`.** `IndInv`: the holder of the lock is the one task
  that attempts or closes, with the one blocking call somebody waits for; strays
  are outside it (`LockInv`). The queue resumes at most one task, the holder, and
  only once its call is done (`ResumeInv`). Until something disturbs it, while a
  handshake is awaited, or the gateway is connected and not being closed, the
  thread exists and nobody has told it to stop (`ThreadInv`). The last one needs
  the first two: a second resumption would stop a thread somebody counts on.
  A call that outlives its lock does, and is the exception the statement names:
  a disconnect or loop_stop left by a cancelled task, a connect of such a task
  that crosses a close, and a close that was itself cancelled. Cancellations in
  `connect`, in the handshake and at the lock, and strays that have not run yet,
  are no exception; and the next attempt ends the exception.
  Two properties about commands need more. The thread has ended when a close has
  waited (`StopInv`). A transport that is ready has a subscribed session, which
  may just have been lost, as far as the thread can know (`ReadyInv`). And the
  session of a command that waits is watched by the thread or `_disconnected` is
  in the queue already (`AwaitInv`): the cases follow the race between
  `disconnect`, the thread and the event loop. Theorems: `Inductive`, `Watched`, `AnswersCanCome`, `SubscribedFirst`.
- **`PrintPreparation_proofs`.** `IndInv`: the state a job is in at each place of
  the pipeline unless somebody ended it, and its output, routes and plan there.
  Theorems: `Inductive`, `Complete`, `RoutesAsAsked`, `ErrorsEnd`, `EndedStays`,
  and `Implements`: the refinement of `JobLifecycle`.
- **`MaterialMapping_proofs`.** `MappingIsFaithful`: for any admitted request,
  each place of the lists reads back as the one route of that filament, because
  slots and channels collide with neither sentinel (-1 and 254). `RoutesAsAsked` carries it
  through the pipeline.
- **`ArtifactStore_proofs`.** `IndInv`: what an upload's place says about file,
  row, lock, inspection and temporary file; an upload that the disk refused to
  place is the one that raises and keeps its temporary file. Theorems: `Inductive`,
  `BlobBeforeRow`, `KindIsValid`, `Stored`, `TemporaryRemoved`, `SourceIsKept`,
  `Immutable`, and `Fit` (`RowsAreUsable`): what `inspect_path` lets through is
  fit for use. Its hard part is `TotalIsSum`: the running total of the loop over
  the directory is the sum of the sizes that `Usable` means, whatever the number
  of entries. The two are folds over different orders; the induction goes over
  the finite subsets of the directory, as a smallest counterexample in the
  well-founded order of strict subsets, because the induction theorems
  themselves cannot be instantiated.
- **`PrintDelivery_proofs`.** That the printer prints the plan's file is not
  inductive: it needs that an execution that has begun its upload is the only
  one of its job and so, because names are the jobs' own, the only execution
  that touches its file (`ClaimInv`), what an upload that nobody touched has on
  the printer at each step (`FileInv`), and that only a published command makes
  the printer open a file (`PrinterInv`). Assumed besides: jobs have distinct
  file names (they are UUIDs). Both properties except servers that do not name
  a size. About the reports, `ReportInv` is inductive where `MergedIsLastWord` is
  not: the merged state is the tree of the one report that would have said all
  that was ever said. `deep_merge` keeps it because merging two such trees gives
  the tree of both, the later one winning, level by level (`MergedAms`,
  `MergedPrint`, `MergedReports`). The preflight reads the merged state, so a
  printer that has said it is busy is refused. Theorems: `Inductive`,
  `UploadsAreStored`, `PlanIsPrinted`, `ReportsAreOne`, `LastWordIsMerged`,
  `BusyPrinterRefused`.

Every invariant and every action property of a passing run is stated by a
theorem. Model-checked only are the liveness properties, because fairness and
ENABLED are out of the prover's reach: `RequestsEnd` (of `PrintExecution` and of
`LanConnection`), `InterruptedStatesAreLeft`, `EndIsNoticed`, `CallsEnd` and
`PreparationEnds`.

## Where code and documents disagree

Each of these four has a run that shows it.

1. `ack_fails_job`: a monitor that commits RUNNING before the execution sees the
   acknowledgement makes the execution fail the job of a print that runs.
2. `cancel_race`: a stop acknowledged while the start is under way cancels the
   job; the start is then sent all the same, and the cancelled job printed.
3. `guarded_printer`: the approval of a file action or raw command is bound to
   the job's printer, but performed on the printer named in the request.
4. `duplicates`: two concurrent uploads of the same bytes: the second one raises
   an IntegrityError instead of reusing the artifact.

Seen while modelling, without a run:

- A file tool's digest is computed before its await, so its approval is
  consumed although the job's state has changed (docs/runbook.md:39).
- monitor_job moves a STARTING job to RUNNING on any print its printer reports,
  without an acknowledgement (docs/architecture.md:52).
- The transition table has arrows the diagram of docs/architecture.md:42-67
  lacks: every open job can be CANCELLED, and a PAUSED one FAILED.
- Sequence numbers restart with the process and answers are matched by number
  alone, so an answer to a command sent before a restart, or to another
  client's, can settle a new command (docs/security.md:26-28): this is what
  `ReturnsItsOwnAnswer` excepts.
- After a lost connection the first request always fails: `connect` finds
  paho's thread alive, `loop_start` refuses, and the cleanup disconnects the
  session the thread was restoring. Requests succeed again once the thread has
  ended.
- `_complete_connection` settles whatever future is current, so a signal of an
  earlier attempt can complete a later one, whose `connect` then returns without
  its subscription (tests/test_mqtt.py:245-279 asserts that it waits). Nothing
  goes out on it, because `publish` looks at `_ready` again.
- A SUBACK that the network thread holds while a worker replaces the socket sets
  `_ready` for a session that is not subscribed, until the thread sees its
  CONNACK; a command published then is lost and times out.
- A cancelled `connect` leaves `client.connect` running in its worker, where it
  can replace a later session without a callback: commands waiting on it
  (`stranded`) are told nothing and time out.
- A request cancelled in `_cleanup_failed_connect` releases the lock while its
  worker goes on: the late `disconnect` or `loop_stop` can end the session, or
  the thread, of a later attempt, whose gateway then stays `connected` without a
  thread. Its requests fail until it is closed or the service restarts.
- A cancelled `LanGateway.close` leaves `connected` true, its thread stopped and
  its lock free; `GatewayPool.get` with the same access code goes on returning
  that gateway. tests/test_mqtt.py:337 and 359 assert the calls of a cleanup
  that is not cancelled.
- Paho keeps the publication of a command that failed, for want of a PUBACK or
  with its connection, and sends it again when it reconnects; the printer may
  act twice on a resent command (docs/security.md:88-89: "Paho reconnect is
  fail-closed for pending commands").
- An OSError while a file is moved to its place (artifacts.py:189-197) leaves its
  temporary file behind; nothing removes it later.
- `hardware_verified` is read before the await of the slicer and not looked at
  again: a plan with an FTS route can be offered after it was taken back.
- `LanGateway.close` does nothing while `connected` is false, though paho's
  thread may still be reconnecting with the old access code; and a request that
  holds a gateway its pool has closed connects it again.
- The sidecar runs one process per request, not "one at a time"
  (docs/architecture.md:17), and lets it run three times as long as the client
  waits.
- The same bytes uploaded under a name of another kind keep the kind of the
  first upload.
- monitor_job fails any open job, even one that awaits approval, while its
  printer still reports FAILED from an earlier print.
- A PAUSED job whose printer reports FINISH or IDLE has no arrow to SUCCEEDED;
  `EndIsNoticed` excepts it.
- A file upload consumes its approval before the remote name is validated.
- The merged state is kept when the connection is lost, and `status` returns it
  as soon as its request is acknowledged, which may be before the full report:
  the preflight of a new execution can read what the printer said before.
- A cancelled request closes the source file under the thread that uploads it:
  a partial file can stay on the printer, and the error is seen by nobody.
- The size check of an upload is skipped when the server does not answer SIZE
  with a number.

## Not modelled

Pure functions without a property about control (redaction, rendering, command
lines, digests beyond what they bind), the geometry of meshes and the metadata
of rows, the ranges the MCP tools put on their parameters, authentication,
configuration, the CLI, the documentation generator, migrations and packaging.
`register_printer` and discovery's rows beyond the firmware only insert or
overwrite what the models take as constants. The camera is one bounded process
per snapshot without state; what it returns enters the store as a snapshot. The
dictionary of the gateway pool is left out (`LanConnection` has the close of a
replaced gateway), as is the gateway of the simulator, which has no connection.

## Plan

1. `GatewayPool`: `get` and `close` with the pool's lock, a close that raises,
   and the access code read before the lock; over an abstract gateway that
   `LanConnection` is shown to implement, which also gives `MqttCommands` its
   `Disconnect`.
2. An abstract artifact store (a set of immutable objects) that `ArtifactStore`
   implements; the sidecar's checks of its requests.
3. Proofs about the modules of 1 and 2: that the gateway implements the abstract
   one, and the store the abstract store.
