---------------------------- MODULE JobLifecycle ----------------------------
(***************************************************************************)
(* What the service promises about a job, whatever the requests, the       *)
(* printer and the crashes do: its row only moves along the transition     *)
(* table, it is offered for approval in the transaction that records its   *)
(* plan, it is uploaded only once an approval of that plan was spent, and  *)
(* its start is published at most once, after the STARTING state was       *)
(* committed.  PrintPreparation is shown to implement this specification   *)
(* up to the offer, PrintExecution from there on.                          *)
(***************************************************************************)
EXTENDS JobStates

CONSTANT Jobs

VARIABLES
  job,    \* the committed state of each job
  spent,  \* the jobs for which an approval of the plan has been consumed
  sent    \* the jobs whose start command has left the service

vars == <<job, spent, sent>>

Init ==
  /\ job \in [Jobs -> {"CREATED", "AWAITING_APPROVAL"}]
  /\ spent = {}
  /\ sent = {}

(* States a job can only reach through UPLOADING and STARTING or by ending. *)
PastStarting == JobState \ (PreparationStates \cup {"AWAITING_APPROVAL", "UPLOADING"})

(* One transaction: each job stays or follows one arrow of the table, and  *)
(* an approval may be consumed; a restart moves several rows at once.      *)
Advance ==
  /\ job' \in [Jobs -> JobState]
  /\ \A j \in Jobs : job'[j] # job[j] => job'[j] \in ALLOWED_TRANSITIONS[job[j]]
  /\ \A j \in Jobs : job[j] # "UPLOADING" /\ job'[j] = "UPLOADING" => j \in spent
  /\ spent' \in SUBSET Jobs
  /\ spent \subseteq spent'
  /\ \A j \in spent' \ spent : job[j] = "AWAITING_APPROVAL"
  /\ UNCHANGED sent

(* PREFLIGHTED is only passed through.                                     *)
Offer(j) ==
  /\ job[j] = "VALIDATED"
  /\ job' = [job EXCEPT ![j] = "AWAITING_APPROVAL"]
  /\ UNCHANGED <<spent, sent>>

(* The start command of a job leaves the service: once, and never before   *)
(* the job's row says STARTING.                                            *)
Start(j) ==
  /\ j \in spent \ sent
  /\ job[j] \in PastStarting
  /\ sent' = sent \cup {j}
  /\ UNCHANGED <<job, spent>>

Next == Advance \/ \E j \in Jobs : Offer(j) \/ Start(j)

Spec == Init /\ [][Next]_vars
=============================================================================
