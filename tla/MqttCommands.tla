---------------------------- MODULE MqttCommands ----------------------------
(***************************************************************************)
(* MQTTCommandClient and its AckTracker: every command takes a sequence    *)
(* number, registers a future under it, publishes with QoS 1 and waits for *)
(* a report that carries the number back.  The event loop runs the calls,  *)
(* the reports and the disconnect callback one at a time; they interleave  *)
(* at the two awaits of command.  Requests and reports are delayed, lost,  *)
(* reordered and duplicated.  Paho keeps a publication until its PUBACK    *)
(* and sends it again on every connection it reopens, whether or not the   *)
(* call that published it still waits: the printer may act on a request    *)
(* more than once, and after its call gave up.                             *)
(***************************************************************************)
EXTENDS Naturals, Sequences

CONSTANTS
  Calls,           \* calls of MQTTCommandClient.command
  MaxCompleted,    \* size of the cache of completed sequence numbers
  ForeignReports,  \* answers to other clients of the printer, on its one report topic
  MaxConnections,  \* bound on connections, and so on disconnects and restarts
  Restarts,        \* whether the service restarts
  NoCall

ASSUME ConstantsAssumption ==
  /\ MaxCompleted \in Nat \ {0}
  /\ ForeignReports \subseteq [number : Nat, result : {"success", "failed"}]
  /\ MaxConnections \in Nat \ {0}
  /\ Restarts \in BOOLEAN
  /\ NoCall \notin Calls

VARIABLES
  sequence,   \* SequenceGenerator._value
  pending,    \* AckTracker._pending: a call (its future) by sequence number
  completed,  \* AckTracker._completed, oldest first
  pc,         \* where each call is suspended
  number,     \* the sequence number of each call
  future,     \* the future of each call
  outcome,    \* what each call returned or raised
  registered, \* the connection on which each call at work registered; else 0
  outbox,     \* publications that paho holds without a PUBACK
  sent,       \* the last connection each publication was sent on; 0 is never
  copies,     \* copies of each request on their way to the printer
  verdicts,   \* what the printer did with the copies it received
  reports,    \* reports on their way to this client
  connection  \* the number of the current connection

client  == <<sequence, pending, completed>>
calls   == <<pc, number, future, outcome, registered>>
requests == <<outbox, sent, copies, verdicts>>
network == <<requests, reports, connection>>
vars    == <<client, calls, network>>

Verdicts == {"success", "failed"}
Active == {"publishing", "waiting", "expiring"}
ForeignNumbers == {m.number : m \in ForeignReports}

TypeOK ==
  /\ sequence \in Nat
  /\ DOMAIN pending \subseteq 1..sequence
  /\ \A n \in DOMAIN pending : pending[n] \in Calls
  /\ completed \in Seq(Nat) /\ Len(completed) <= MaxCompleted
  /\ pc \in [Calls -> {"idle", "done"} \cup Active]
  /\ number \in [Calls -> Nat]
  /\ future \in [Calls -> {"none", "waiting", "cancelled", "lost"} \cup Verdicts]
  /\ outcome \in [Calls -> {"none", "error"} \cup Verdicts]
  /\ registered \in [Calls -> 0..MaxConnections]
  /\ outbox \subseteq Calls
  /\ sent \in [Calls -> 0..MaxConnections]
  /\ copies \in [Calls -> Nat]
  /\ verdicts \in [Calls -> SUBSET Verdicts]
  /\ reports \subseteq [number : Nat, result : Verdicts, of : Calls \cup {NoCall}]
  /\ connection \in 1..MaxConnections

Init ==
  /\ sequence = 0 /\ pending = <<>> /\ completed = <<>>
  /\ pc = [c \in Calls |-> "idle"]
  /\ number = [c \in Calls |-> 0]
  /\ future = [c \in Calls |-> "none"]
  /\ outcome = [c \in Calls |-> "none"]
  /\ registered = [c \in Calls |-> 0]
  /\ outbox = {}
  /\ sent = [c \in Calls |-> 0]
  /\ copies = [c \in Calls |-> 0]
  /\ verdicts = [c \in Calls |-> {}]
  /\ reports = {}
  /\ connection = 1

-----------------------------------------------------------------------------
(* AckTracker.                                                             *)

Completed == {completed[i] : i \in DOMAIN completed}

Registered(n, c) == [k \in DOMAIN pending \cup {n} |-> IF k = n THEN c ELSE pending[k]]
Popped(n) == [k \in DOMAIN pending \ {n} |-> pending[k]]

(* _remember: the oldest number is evicted when the cache is full.         *)
Remembered(n) ==
  IF Len(completed) < MaxCompleted THEN Append(completed, n) ELSE Append(Tail(completed), n)

(* A bug: settling does not ask whether the future is done.                *)
SettleAlways(C, value) == future' = [c \in Calls |-> IF c \in C THEN value ELSE future[c]]

(* set_result, set_exception and cancel, on a future that is not done.     *)
Settle(C, value) ==
  future' = [c \in Calls |-> IF c \in C /\ future[c] = "waiting" THEN value ELSE future[c]]

(* resolve: the first report for a pending number settles its future; a    *)
(* duplicate, or a report nobody waits for, changes nothing.               *)
Resolve(n, result) ==
  IF n \in Completed \/ n \notin DOMAIN pending
    THEN UNCHANGED <<pending, completed, future>>
    ELSE /\ pending' = Popped(n)
         /\ completed' = Remembered(n)
         /\ Settle({pending[n]}, result)

-----------------------------------------------------------------------------
(* command.                                                                *)

(* A number is taken and registered, and the publication is handed to paho *)
(* if the transport is ready; paho keeps it even where publish refuses.    *)
(* register refuses a number in use; by NumbersAreFresh there is none.     *)
Command(c) ==
  /\ pc[c] = "idle"
  /\ sequence' = sequence + 1
  /\ number' = [number EXCEPT ![c] = sequence']
  /\ sequence' \notin DOMAIN pending \cup Completed
  /\ pending' = Registered(sequence', c)
  /\ future' = [future EXCEPT ![c] = "waiting"]
  /\ registered' = [registered EXCEPT ![c] = connection]
  /\ pc' = [pc EXCEPT ![c] = "publishing"]
  /\ outbox' \in {outbox, outbox \cup {c}}
  /\ UNCHANGED <<completed, outcome, sent, copies, verdicts, reports, connection>>

(* A bug: publish does not wait for the PUBACK.                            *)
PublishedUnacknowledged(c) ==
  /\ pc[c] = "publishing" /\ sent[c] # 0
  /\ pc' = [pc EXCEPT ![c] = "waiting"]
  /\ UNCHANGED <<client, number, future, outcome, registered, network>>

(* wait_for_publish returns after the PUBACK, and wait_for begins.         *)
Published(c) ==
  /\ pc[c] = "publishing" /\ sent[c] # 0 /\ c \notin outbox
  /\ pc' = [pc EXCEPT ![c] = "waiting"]
  /\ UNCHANGED <<client, number, future, outcome, registered, network>>

(* A bug: the call ends without its finally clause.                        *)
FinishUncancelled(c, result) ==
  /\ pc' = [pc EXCEPT ![c] = "done"]
  /\ outcome' = [outcome EXCEPT ![c] = result]
  /\ registered' = [registered EXCEPT ![c] = 0]
  /\ UNCHANGED <<client, number, future, network>>

(* The end of command: its finally clause cancels what is still pending.   *)
Finish(c, result) ==
  /\ pc' = [pc EXCEPT ![c] = "done"]
  /\ outcome' = [outcome EXCEPT ![c] = result]
  /\ pending' = Popped(number[c])
  /\ Settle({c}, "cancelled")
  /\ registered' = [registered EXCEPT ![c] = 0]
  /\ UNCHANGED <<sequence, completed, number, network>>

(* publish raises: not ready, refused, no PUBACK within ten seconds.       *)
PublishFails(c) == pc[c] = "publishing" /\ Finish(c, "error")

Return(c) ==
  /\ pc[c] = "waiting" /\ future[c] # "waiting"
  /\ Finish(c, IF future[c] \in Verdicts THEN future[c] ELSE "error")

(* A bug: the wait for the report has no timeout.                          *)
NoTimeout(c) == FALSE

(* The timer of wait_for fires, or the caller is cancelled: the future is  *)
(* cancelled now, the call resumes in a later turn of the event loop.      *)
Timeout(c) ==
  /\ pc[c] = "waiting"
  /\ pc' = [pc EXCEPT ![c] = "expiring"]
  /\ Settle({c}, "cancelled")
  /\ UNCHANGED <<client, number, outcome, registered, network>>

Expired(c) == pc[c] = "expiring" /\ Finish(c, "error")

-----------------------------------------------------------------------------
(* Reports and disconnects.                                                *)

Receive(m) ==
  /\ Resolve(m.number, m.result)
  /\ UNCHANGED <<sequence, pc, number, outcome, registered, network>>

(* A bug: the disconnect callback does not reach the tracker.              *)
DisconnectUnnoticed ==
  /\ connection < MaxConnections
  /\ connection' = connection + 1
  /\ reports' = {}
  /\ UNCHANGED <<client, calls, requests>>

(* disconnected: fail_all fails and forgets whatever is pending.  The      *)
(* session is clean: reports under way are not delivered to the next one.  *)
Disconnect ==
  /\ connection < MaxConnections
  /\ connection' = connection + 1
  /\ Settle({pending[n] : n \in DOMAIN pending}, "lost")
  /\ pending' = <<>>
  /\ reports' = {}
  /\ UNCHANGED <<sequence, completed, pc, number, outcome, registered, requests>>

(* A new process, or a new gateway, counts from zero again.  What paho     *)
(* held is lost with the process; the client of a gateway that was not     *)
(* connected when it was replaced is not stopped, and may still send.      *)
Restart ==
  /\ Restarts /\ connection < MaxConnections
  /\ connection' = connection + 1
  /\ sequence' = 0 /\ pending' = <<>> /\ completed' = <<>>
  /\ pc' = [c \in Calls |-> IF pc[c] \in Active THEN "done" ELSE pc[c]]
  /\ outcome' = [c \in Calls |-> IF pc[c] \in Active THEN "error" ELSE outcome[c]]
  /\ Settle(Calls, "lost")
  /\ reports' = {}
  /\ registered' = [c \in Calls |-> 0]
  /\ outbox' \in {{}, outbox}
  /\ UNCHANGED <<number, sent, copies, verdicts>>

-----------------------------------------------------------------------------
(* The network and the printer.                                            *)

(* Paho sends what it holds, once on every connection.                     *)
Transmit(c) ==
  /\ c \in outbox /\ sent[c] < connection
  /\ sent' = [sent EXCEPT ![c] = connection]
  /\ copies' = [copies EXCEPT ![c] = @ + 1]
  /\ UNCHANGED <<client, calls, outbox, verdicts, reports, connection>>

(* The PUBACK of what was sent on this connection arrives.                 *)
Puback(c) ==
  /\ c \in outbox /\ sent[c] = connection
  /\ outbox' = outbox \ {c}
  /\ UNCHANGED <<client, calls, sent, copies, verdicts, reports, connection>>

(* The printer acts on a copy of a request and reports it under its number.*)
Execute(c, result) ==
  /\ copies[c] > 0
  /\ copies' = [copies EXCEPT ![c] = @ - 1]
  /\ verdicts' = [verdicts EXCEPT ![c] = @ \cup {result}]
  /\ reports' = reports \cup {[number |-> number[c], result |-> result, of |-> c]}
  /\ UNCHANGED <<client, calls, outbox, sent, connection>>

(* Another client of the printer is answered on the same report topic.     *)
ForeignReport(m) ==
  /\ reports' = reports \cup {[number |-> m.number, result |-> m.result, of |-> NoCall]}
  /\ UNCHANGED <<client, calls, requests, connection>>

Step(c) == Published(c) \/ PublishFails(c) \/ Return(c) \/ Timeout(c) \/ Expired(c)

Next ==
  \/ \E c \in Calls : Command(c) \/ Step(c) \/ Transmit(c) \/ Puback(c)
  \/ \E m \in reports : Receive(m)
  \/ Disconnect \/ Restart
  \/ \E c \in Calls, result \in Verdicts : Execute(c, result)
  \/ \E m \in ForeignReports : ForeignReport(m)

Spec == Init /\ [][Next]_vars

(* Publishing and waiting are bounded by timeouts.                         *)
FairSpec == Spec /\ \A c \in Calls : WF_vars(Step(c))

-----------------------------------------------------------------------------
(* Properties.                                                             *)

(* Whatever is registered belongs to a call that is still at work, under   *)
(* the call's own number: no future is leaked, whichever way a call ends.  *)
PendingIsAwaited ==
  \A n \in DOMAIN pending : pc[pending[n]] \in Active /\ number[pending[n]] = n

(* register never refuses a number.                                        *)
NumbersAreFresh == \A n \in DOMAIN pending \cup Completed : n <= sequence

(* A future that was settled is never settled again: not by a duplicate,   *)
(* not by a report that races the timer, not by a disconnect.              *)
SettledOnce ==
  [][\A c \in Calls : future[c] \notin {"none", "waiting"} => future'[c] = future[c]]_vars

(* A call is only answered on the connection it registered on: whatever a  *)
(* disconnect finds pending has failed for good.                           *)
AnsweredOnItsConnection ==
  [][\A c \in Calls :
       future[c] = "waiting" /\ future'[c] \in Verdicts => registered[c] = connection]_vars

(* A number is shared when another client of the printer, or a call made   *)
(* before or after a restart, uses it too.                                 *)
Shared(n) ==
  n \in ForeignNumbers \/ \E c, d \in Calls : c # d /\ number[c] = n /\ number[d] = n

(* What a call returned is what the printer did with a copy of its own     *)
(* request, unless somebody else used its number.                          *)
ReturnsItsOwnAnswer ==
  \A c \in Calls :
    outcome[c] \in Verdicts /\ ~Shared(number[c]) => outcome[c] \in verdicts[c]

(* What the caller of gateway.command sees, and what the printer did.      *)
Outcome ==
  [c \in Calls |-> IF pc[c] = "idle" THEN "idle"
                   ELSE IF pc[c] \in Active THEN "pending" ELSE outcome[c]]
SharedCalls == {c \in Calls : pc[c] # "idle" /\ Shared(number[c])}

Abstract ==
  INSTANCE CommandOutcome WITH outcome <- Outcome, shared <- SharedCalls

(* A command has one outcome; an answer is, unless the number is shared,   *)
(* what the printer did with a copy of it, and no further copy is sent     *)
(* once the caller has it, though paho resends what was not acknowledged.  *)
ImplementsOutcome == Abstract!Spec

(* Every call ends.                                                        *)
CallsEnd == \A c \in Calls : pc[c] \in Active ~> pc[c] = "done"

-----------------------------------------------------------------------------
(* The inductive invariant of the proofs.                                  *)

(* What is pending was registered on this connection; a future waits only  *)
(* while its call does, and only under the call's number, which no other   *)
(* call at work has.                                                       *)
TrackerInv ==
  /\ PendingIsAwaited
  /\ NumbersAreFresh
  /\ \A n \in DOMAIN pending : registered[pending[n]] = connection
  /\ \A c \in Calls :
       /\ pc[c] = "idle" =>
            /\ future[c] = "none" /\ number[c] = 0 /\ outcome[c] = "none"
            /\ sent[c] = 0 /\ copies[c] = 0 /\ verdicts[c] = {}
       /\ c \in outbox => pc[c] \in {"publishing", "done"} /\ outcome[c] \notin Verdicts
       /\ pc[c] # "idle" => future[c] # "none"
       /\ pc[c] = "done" => outcome[c] # "none"
       /\ future[c] = "waiting" =>
            /\ pc[c] \in {"publishing", "waiting"}
            /\ number[c] \in DOMAIN pending
            /\ pending[number[c]] = c
       /\ pc[c] \in Active => number[c] \in 1..sequence
  /\ \A c, d \in Calls :
       pc[c] \in Active /\ pc[d] \in Active /\ number[c] = number[d] => c = d

IndInv == TypeOK /\ TrackerInv

(* Reports are the printer's answers to the calls that own the numbers, or *)
(* carry a foreign number; results are answers to the call's own request.  *)
CorrelationInv ==
  /\ \A c \in Calls : pc[c] # "idle" => number[c] # 0
  /\ \A m \in reports :
       \/ m.number \in ForeignNumbers
       \/ m.of \in Calls /\ number[m.of] = m.number /\ m.result \in verdicts[m.of]
  /\ \A c \in Calls : future[c] \in Verdicts /\ ~Shared(number[c]) => future[c] \in verdicts[c]
  /\ ReturnsItsOwnAnswer
=============================================================================
