------------------------ MODULE MqttCommands_proofs ------------------------
(***************************************************************************)
(* Proofs about MqttCommands, for any calls, cache size, number of         *)
(* connections, foreign reports and restarts.                              *)
(***************************************************************************)
EXTENDS MqttCommands, TLAPS

USE ConstantsAssumption DEF Verdicts, Active, client, calls, requests, network

(* What every step does to the typed state.                                *)
LEMMA TypeStep == TypeOK /\ [Next]_vars => TypeOK'
<1> SUFFICES ASSUME TypeOK, [Next]_vars PROVE TypeOK'
  OBVIOUS
<1>1. ASSUME NEW c \in Calls, Command(c) PROVE TypeOK'
  BY <1>1 DEF TypeOK, Command, Registered
<1>2. ASSUME NEW c \in Calls, NEW result \in {"error"} \cup Verdicts, Finish(c, result)
      PROVE TypeOK'
  BY <1>2 DEF TypeOK, Finish, Popped, Settle
<1>3. ASSUME NEW c \in Calls, Step(c) PROVE TypeOK'
  <2>1. CASE Published(c)
    BY <2>1 DEF TypeOK, Published
  <2>2. CASE Timeout(c)
    BY <2>2 DEF TypeOK, Timeout, Settle
  <2>3. CASE PublishFails(c) \/ Return(c) \/ Expired(c)
    BY <2>3, <1>2 DEF PublishFails, Return, Expired
  <2> QED
    BY <1>3, <2>1, <2>2, <2>3 DEF Step
<1>4. ASSUME NEW c \in Calls, Transmit(c) \/ Puback(c) PROVE TypeOK'
  <2>1. CASE Transmit(c)
    <3>1. connection \in 0..MaxConnections /\ copies[c] + 1 \in Nat
      BY DEF TypeOK
    <3> QED BY <2>1, <3>1 DEF TypeOK, Transmit
  <2>2. CASE Puback(c)
    BY <2>2 DEF TypeOK, Puback
  <2> QED BY <1>4, <2>1, <2>2
<1>5. ASSUME NEW m \in reports, Receive(m) PROVE TypeOK'
  <2>1. m.number \in Nat /\ m.result \in Verdicts
    BY DEF TypeOK
  <2>2. Remembered(m.number) \in Seq(Nat) /\ Len(Remembered(m.number)) <= MaxCompleted
    BY <2>1 DEF TypeOK, Remembered
  <2>3. UNCHANGED <<sequence, pc, number, outcome, registered, network>>
    BY <1>5 DEF Receive
  <2>4. future' \in [Calls -> {"none", "waiting", "cancelled", "lost"} \cup Verdicts]
    BY <1>5, <2>1 DEF Receive, Resolve, Settle, TypeOK
  <2>5. /\ DOMAIN pending' \subseteq 1..sequence
        /\ \A n \in DOMAIN pending' : pending'[n] \in Calls
        /\ completed' \in Seq(Nat) /\ Len(completed') <= MaxCompleted
    BY <1>5, <2>1, <2>2 DEF Receive, Resolve, Popped, TypeOK
  <2> QED
    BY <2>3, <2>4, <2>5 DEF TypeOK
<1>6. CASE Disconnect
  BY <1>6 DEF TypeOK, Disconnect, Settle
<1>7. CASE Restart
  BY <1>7 DEF TypeOK, Restart, Settle
<1>8. ASSUME NEW c \in Calls, NEW result \in Verdicts, Execute(c, result) PROVE TypeOK'
  BY <1>8 DEF TypeOK, Execute
<1>9. ASSUME NEW m \in ForeignReports, ForeignReport(m) PROVE TypeOK'
  BY <1>9 DEF TypeOK, ForeignReport
<1>10. CASE UNCHANGED vars
  BY <1>10 DEF TypeOK, vars
<1> QED
  BY <1>1, <1>3, <1>4, <1>5, <1>6, <1>7, <1>8, <1>9, <1>10 DEF Next

(* Every way a call can end leaves the tracker in order.                   *)
LEMMA FinishStep ==
  ASSUME TypeOK, TrackerInv, NEW c \in Calls, NEW result, Finish(c, result),
         pc[c] \in Active, result \in Verdicts => pc[c] = "waiting",
         result \in {"error"} \cup Verdicts
  PROVE  TrackerInv'
<1>1. \A n \in DOMAIN pending' : n \in DOMAIN pending /\ pending'[n] = pending[n] /\ n # number[c]
  BY DEF Finish, Popped
<1>2. \A n \in DOMAIN pending' : pending'[n] # c
  BY <1>1 DEF TrackerInv, PendingIsAwaited
<1>3. PendingIsAwaited'
  BY <1>1, <1>2 DEF TrackerInv, PendingIsAwaited, Finish, TypeOK
<1>4. NumbersAreFresh'
  BY <1>1 DEF TrackerInv, NumbersAreFresh, Finish, Completed
<1>5. \A n \in DOMAIN pending' : registered'[pending'[n]] = connection'
  BY <1>1, <1>2 DEF TrackerInv, Finish, TypeOK
<1>6. ASSUME NEW d \in Calls, d # c, future'[d] = "waiting"
      PROVE  /\ pc'[d] \in {"publishing", "waiting"}
             /\ number'[d] \in DOMAIN pending'
             /\ pending'[number'[d]] = d
  <2>1. future[d] = "waiting"
    BY <1>6 DEF Finish, Settle
  <2>2. number[d] \in DOMAIN pending /\ pending[number[d]] = d
    BY <2>1 DEF TrackerInv
  <2>3. number[d] # number[c]
    BY <2>1, <1>6 DEF TrackerInv
  <2> QED
    BY <2>1, <2>2, <2>3, <1>6 DEF TrackerInv, Finish, Popped, TypeOK
<1>7. future'[c] \notin {"none", "waiting"}
  BY DEF Finish, Settle, TrackerInv, TypeOK
<1>8. \A d \in Calls :
        /\ pc'[d] = "idle" =>
             /\ future'[d] = "none" /\ number'[d] = 0 /\ outcome'[d] = "none"
             /\ sent'[d] = 0 /\ copies'[d] = 0 /\ verdicts'[d] = {}
        /\ d \in outbox' => pc'[d] \in {"publishing", "done"} /\ outcome'[d] \notin Verdicts
        /\ pc'[d] # "idle" => future'[d] # "none"
        /\ pc'[d] = "done" => outcome'[d] # "none"
        /\ pc'[d] \in Active => number'[d] \in 1..sequence'
  BY <1>7 DEF TrackerInv, Finish, Settle, TypeOK
<1>9. \A d, e \in Calls :
        pc'[d] \in Active /\ pc'[e] \in Active /\ number'[d] = number'[e] => d = e
  BY DEF TrackerInv, Finish, TypeOK
<1> QED
  BY <1>3, <1>4, <1>5, <1>6, <1>7, <1>8, <1>9 DEF TrackerInv

LEMMA TrackerStep == IndInv /\ [Next]_vars => TrackerInv'
<1> SUFFICES ASSUME TypeOK, TrackerInv, [Next]_vars PROVE TrackerInv'
  BY DEF IndInv
<1>1. ASSUME NEW c \in Calls, Command(c) PROVE TrackerInv'
  <2>1. sequence + 1 \notin DOMAIN pending /\ sequence + 1 \in Nat
    BY <1>1 DEF Command, TypeOK
  <2>2. \A n \in DOMAIN pending : pending[n] \in Calls \ {c} /\ n # sequence + 1
    BY <1>1, <2>1 DEF Command, TrackerInv, PendingIsAwaited, TypeOK
  <2>3. /\ DOMAIN pending' = DOMAIN pending \cup {sequence + 1}
        /\ pending'[sequence + 1] = c
        /\ \A n \in DOMAIN pending : pending'[n] = pending[n]
    BY <1>1, <2>1 DEF Command, Registered
  <2>4. PendingIsAwaited'
    BY <1>1, <2>2, <2>3 DEF Command, TrackerInv, PendingIsAwaited, TypeOK
  <2>5. NumbersAreFresh'
    <3>1. Completed' = Completed /\ sequence' = sequence + 1
      BY <1>1 DEF Command, Completed
    <3>2. \A n \in DOMAIN pending \cup Completed : n \in Nat /\ n <= sequence
      BY DEF TrackerInv, NumbersAreFresh, TypeOK, Completed
    <3> QED
      BY <2>1, <2>3, <3>1, <3>2 DEF NumbersAreFresh, TypeOK
  <2>6. \A n \in DOMAIN pending' : registered'[pending'[n]] = connection'
    <3>1. connection' = connection /\ registered' = [registered EXCEPT ![c] = connection]
      BY <1>1 DEF Command
    <3> QED
      BY <2>2, <2>3, <3>1 DEF TrackerInv, TypeOK
  <2>7. \A d \in Calls \ {c} : pc[d] \in Active => number[d] # sequence + 1
    BY DEF TrackerInv, TypeOK
  <2> QED
    BY <1>1, <2>2, <2>3, <2>4, <2>5, <2>6, <2>7 DEF Command, TrackerInv, TypeOK
<1>2. ASSUME NEW c \in Calls, Step(c) PROVE TrackerInv'
  <2>1. CASE Published(c)
    BY <2>1 DEF Published, TrackerInv, PendingIsAwaited, NumbersAreFresh, Completed, TypeOK
  <2>2. CASE Timeout(c)
    BY <2>2 DEF Timeout, Settle, TrackerInv, PendingIsAwaited, NumbersAreFresh, Completed, TypeOK
  <2>3. CASE PublishFails(c) \/ Return(c) \/ Expired(c)
    BY <2>3, FinishStep DEF PublishFails, Return, Expired
  <2> QED
    BY <1>2, <2>1, <2>2, <2>3 DEF Step
<1>3. ASSUME NEW m \in reports, Receive(m) PROVE TrackerInv'
  <2>1. CASE m.number \in Completed \/ m.number \notin DOMAIN pending
    BY <1>3, <2>1 DEF Receive, Resolve, TrackerInv, PendingIsAwaited, NumbersAreFresh, Completed
  <2>2. CASE m.number \notin Completed /\ m.number \in DOMAIN pending
    <3> DEFINE c == pending[m.number]
    <3>1. /\ c \in Calls
          /\ pending' = Popped(m.number)
          /\ completed' = Remembered(m.number)
          /\ Settle({c}, m.result)
          /\ UNCHANGED <<sequence, pc, number, outcome, registered, requests, connection>>
      BY <1>3, <2>2 DEF Receive, Resolve, TypeOK
    <3>2. \A n \in DOMAIN pending' : n \in DOMAIN pending /\ pending'[n] = pending[n]
      BY <3>1 DEF Popped
    <3>3. Completed' \subseteq Completed \cup {m.number}
      BY <3>1 DEF Completed, Remembered, TypeOK
    <3>4. PendingIsAwaited' /\ \A n \in DOMAIN pending' : registered'[pending'[n]] = connection'
      BY <3>1, <3>2 DEF TrackerInv, PendingIsAwaited
    <3>5. NumbersAreFresh'
      BY <3>1, <3>2, <3>3, <2>2 DEF TrackerInv, NumbersAreFresh, TypeOK
    <3>6. m.result \in Verdicts
      BY DEF TypeOK
    <3>7. ASSUME NEW d \in Calls, future'[d] = "waiting"
          PROVE  future[d] = "waiting" /\ number[d] \in DOMAIN pending' /\ pending'[number[d]] = d
      <4>1. d # c /\ future[d] = "waiting"
        BY <3>1, <3>6, <3>7 DEF Settle
      <4>2. number[d] \in DOMAIN pending /\ pending[number[d]] = d
        BY <4>1 DEF TrackerInv
      <4>3. number[d] # m.number
        BY <4>1, <4>2
      <4> QED BY <3>1, <4>1, <4>2, <4>3 DEF Popped
    <3>8. \A d \in Calls : (pc[d] = "idle" => future'[d] = "none")
                         /\ (pc[d] # "idle" => future'[d] # "none")
      <4>1. pc[c] # "idle"
        BY <2>2 DEF TrackerInv, PendingIsAwaited
      <4> QED BY <3>1, <3>6, <4>1 DEF Settle, TrackerInv
    <3> QED
      BY <3>1, <3>4, <3>5, <3>7, <3>8 DEF TrackerInv
  <2> QED BY <2>1, <2>2
<1>4. CASE Disconnect
  BY <1>4 DEF Disconnect, Settle, TrackerInv, PendingIsAwaited, NumbersAreFresh, Completed
<1>5. CASE Restart
  BY <1>5 DEF Restart, Settle, TrackerInv, PendingIsAwaited, NumbersAreFresh, Completed
<1>6. ASSUME NEW c \in Calls, Transmit(c) \/ Puback(c) PROVE TrackerInv'
  <2>1. UNCHANGED <<client, calls, connection, verdicts>>
    BY <1>6 DEF Transmit, Puback
  <2>2. pc[c] # "idle" /\ outbox' \subseteq outbox
    BY <1>6 DEF Transmit, Puback, TrackerInv
  <2>3. \A d \in Calls : d # c => sent'[d] = sent[d] /\ copies'[d] = copies[d]
    BY <1>6 DEF Transmit, Puback, TypeOK
  <2> QED
    BY <2>1, <2>2, <2>3 DEF TrackerInv, PendingIsAwaited, NumbersAreFresh, Completed
<1>7. ASSUME NEW c \in Calls, NEW result \in Verdicts, Execute(c, result) PROVE TrackerInv'
  BY <1>7 DEF Execute, TrackerInv, PendingIsAwaited, NumbersAreFresh, Completed, TypeOK
<1>8. ASSUME NEW m \in ForeignReports, ForeignReport(m) PROVE TrackerInv'
  BY <1>8 DEF ForeignReport, TrackerInv, PendingIsAwaited, NumbersAreFresh, Completed
<1>9. CASE UNCHANGED vars
  BY <1>9 DEF vars, TrackerInv, PendingIsAwaited, NumbersAreFresh, Completed
<1> QED
  BY <1>1, <1>2, <1>3, <1>4, <1>5, <1>6, <1>7, <1>8, <1>9 DEF Next

(* The state of the tracker is in order in every reachable state, whatever *)
(* restarts, disconnects, timeouts and foreign reports do.                 *)
THEOREM Inductive == Spec => []IndInv
<1>1. Init => IndInv
  BY DEF Init, IndInv, TypeOK, TrackerInv, PendingIsAwaited, NumbersAreFresh, Completed
<1>2. IndInv /\ [Next]_vars => IndInv'
  BY TypeStep, TrackerStep DEF IndInv
<1> QED BY <1>1, <1>2, PTL DEF Spec

(* A settled future is never settled again: asyncio would raise            *)
(* InvalidStateError in the callback that tried.                           *)
THEOREM FuturesSettleOnce == Spec => SettledOnce
<1> DEFINE Stays ==
      \A c \in Calls : future[c] \notin {"none", "waiting"} => future'[c] = future[c]
<1>1. IndInv /\ [Next]_vars => Stays
  <2> SUFFICES ASSUME TypeOK, TrackerInv, [Next]_vars PROVE Stays
    BY DEF IndInv
  <2>1. ASSUME NEW c \in Calls, Command(c) PROVE Stays
    BY <2>1 DEF Command, TrackerInv, TypeOK
  <2>2. ASSUME NEW c \in Calls, Step(c) PROVE Stays
    BY <2>2 DEF Step, Published, PublishFails, Return, Timeout, Expired, Finish, Settle
  <2>3. ASSUME NEW m \in reports, Receive(m) PROVE Stays
    BY <2>3 DEF Receive, Resolve, Settle
  <2>4. CASE Disconnect \/ Restart
    BY <2>4 DEF Disconnect, Restart, Settle
  <2>5. CASE UNCHANGED future
    BY <2>5
  <2> QED
    BY <2>1, <2>2, <2>3, <2>4, <2>5 DEF Next, Transmit, Puback, Execute, ForeignReport, vars
<1>2. Stays => [Stays]_vars
  OBVIOUS
<1> QED BY <1>1, <1>2, Inductive, PTL DEF Spec, SettledOnce

(* A disconnect is final for whatever was pending: a call is only answered *)
(* on the connection it registered on.                                     *)
THEOREM FailClosed == Spec => AnsweredOnItsConnection
<1> DEFINE Answered ==
      \A c \in Calls :
        future[c] = "waiting" /\ future'[c] \in Verdicts => registered[c] = connection
<1>1. IndInv /\ [Next]_vars => Answered
  <2> SUFFICES ASSUME TypeOK, TrackerInv, [Next]_vars PROVE Answered
    BY DEF IndInv
  <2>1. ASSUME NEW c \in Calls, Command(c) PROVE Answered
    BY <2>1 DEF Command, TypeOK
  <2>2. ASSUME NEW c \in Calls, Step(c) PROVE Answered
    BY <2>2 DEF Step, Published, PublishFails, Return, Timeout, Expired, Finish, Settle
  <2>3. ASSUME NEW m \in reports, Receive(m) PROVE Answered
    BY <2>3 DEF Receive, Resolve, Settle, TrackerInv
  <2>4. CASE Disconnect \/ Restart
    BY <2>4 DEF Disconnect, Restart, Settle
  <2>5. CASE UNCHANGED future
    BY <2>5
  <2> QED
    BY <2>1, <2>2, <2>3, <2>4, <2>5 DEF Next, Transmit, Puback, Execute, ForeignReport, vars
<1> QED BY <1>1, Inductive, PTL DEF Spec, AnsweredOnItsConnection

(* A command that takes a number leaves shared numbers shared. *)
LEMMA SharedStays ==
  ASSUME NEW n, n # 0, Shared(n),
         NEW c \in Calls, number[c] = 0, NEW k, number \in [Calls -> Nat],
         number' = [number EXCEPT ![c] = k]
  PROVE  Shared(n)'
BY DEF Shared

LEMMA CorrelationStep == IndInv /\ CorrelationInv /\ [Next]_vars => CorrelationInv'
<1> SUFFICES ASSUME TypeOK, TrackerInv, CorrelationInv, [Next]_vars PROVE CorrelationInv'
  BY DEF IndInv
<1>0. ASSUME UNCHANGED number, NEW n PROVE Shared(n)' = Shared(n)
  BY <1>0 DEF Shared
<1>1. ASSUME NEW c \in Calls, Command(c) PROVE CorrelationInv'
  <2>1. number[c] = 0 /\ verdicts[c] = {} /\ future[c] = "none" /\ outcome[c] = "none"
    BY <1>1 DEF Command, TrackerInv
  <2>2. /\ number' = [number EXCEPT ![c] = sequence + 1]
        /\ future' = [future EXCEPT ![c] = "waiting"]
        /\ pc' = [pc EXCEPT ![c] = "publishing"]
        /\ UNCHANGED <<verdicts, reports, outcome>>
    BY <1>1 DEF Command
  <2>3. ASSUME NEW d \in Calls, d # c, number[d] # 0, ~Shared(number[d])'
        PROVE  ~Shared(number[d])
    BY <2>1, <2>2, <2>3, SharedStays DEF TypeOK
  <2>4. \A d \in Calls : pc'[d] # "idle" => number'[d] # 0
    BY <2>2 DEF CorrelationInv, TypeOK
  <2>5. \A m \in reports' :
          \/ m.number \in ForeignNumbers
          \/ m.of \in Calls /\ number'[m.of] = m.number /\ m.result \in verdicts'[m.of]
    BY <2>1, <2>2 DEF CorrelationInv, TypeOK, Verdicts
  <2>6. ASSUME NEW d \in Calls, future'[d] \in Verdicts \/ outcome'[d] \in Verdicts,
               ~Shared(number[d])'
        PROVE  (future'[d] \in Verdicts => future'[d] \in verdicts'[d])
               /\ (outcome'[d] \in Verdicts => outcome'[d] \in verdicts'[d])
    <3>1. d # c
      BY <2>1, <2>2, <2>6 DEF TypeOK, Verdicts
    <3>2. pc[d] # "idle" /\ number'[d] = number[d]
      BY <2>2, <2>6, <3>1 DEF TypeOK, TrackerInv, Verdicts
    <3>3. ~Shared(number[d])
      BY <2>3, <2>6, <3>1, <3>2 DEF CorrelationInv
    <3> QED
      BY <2>2, <3>1, <3>3 DEF CorrelationInv, ReturnsItsOwnAnswer, TypeOK
  <2> QED
    BY <2>4, <2>5, <2>6 DEF CorrelationInv, ReturnsItsOwnAnswer
<1>2. ASSUME NEW c \in Calls, Step(c) PROVE CorrelationInv'
  <2>1. UNCHANGED <<number, verdicts, reports>>
    BY <1>2 DEF Step, Published, PublishFails, Return, Timeout, Expired, Finish, network
  <2>2. \A d \in Calls : future'[d] = future[d] \/ future'[d] = "cancelled"
    BY <1>2 DEF Step, Published, PublishFails, Return, Timeout, Expired, Finish, Settle
  <2>3. \A d \in Calls : outcome'[d] = outcome[d] \/ outcome'[d] = "error"
                          \/ (outcome'[d] = future[d] /\ future[d] \in Verdicts)
    BY <1>2 DEF Step, Published, PublishFails, Return, Timeout, Expired, Finish, TypeOK
  <2>4. \A d \in Calls : pc'[d] # "idle" => pc[d] # "idle"
    BY <1>2 DEF Step, Published, PublishFails, Return, Timeout, Expired, Finish, TypeOK
  <2>5. ASSUME NEW d \in Calls, ~Shared(number[d])'
        PROVE  /\ future'[d] \in Verdicts => future'[d] \in verdicts'[d]
               /\ outcome'[d] \in Verdicts => outcome'[d] \in verdicts'[d]
    <3>1. ~Shared(number[d])
      BY <2>1, <2>5 DEF Shared
    <3> QED
      BY <2>1, <2>2, <2>3, <3>1 DEF CorrelationInv, ReturnsItsOwnAnswer, Verdicts
  <2>6. \A d \in Calls : pc'[d] # "idle" => number'[d] # 0
    BY <2>1, <2>4 DEF CorrelationInv
  <2>7. \A m \in reports' :
          \/ m.number \in ForeignNumbers
          \/ m.of \in Calls /\ number'[m.of] = m.number /\ m.result \in verdicts'[m.of]
    BY <2>1 DEF CorrelationInv
  <2> QED
    BY <2>5, <2>6, <2>7 DEF CorrelationInv, ReturnsItsOwnAnswer
<1>3. ASSUME NEW m \in reports, Receive(m) PROVE CorrelationInv'
  <2>0. UNCHANGED <<pc, number, outcome, verdicts, reports>>
    BY <1>3 DEF Receive, network
  <2>1. \A c \in Calls : future'[c] = future[c]
          \/ (m.number \in DOMAIN pending /\ c = pending[m.number] /\ future'[c] = m.result)
    BY <1>3 DEF Receive, Resolve, Settle
  <2>2. ASSUME NEW c \in Calls, m.number \in DOMAIN pending, c = pending[m.number],
               ~Shared(number[c])
        PROVE  m.result \in verdicts[c]
    <3>1. number[c] = m.number
      BY <2>2 DEF TrackerInv, PendingIsAwaited
    <3>2. m.of \in Calls /\ number[m.of] = m.number /\ m.result \in verdicts[m.of]
      BY <2>2, <3>1 DEF CorrelationInv, Shared
    <3> QED
      BY <2>2, <3>1, <3>2 DEF Shared
  <2> QED
    BY <1>0, <2>0, <2>1, <2>2 DEF CorrelationInv, ReturnsItsOwnAnswer
<1>4. CASE Disconnect \/ Restart
  <2>1. UNCHANGED <<number, verdicts>>
    BY <1>4 DEF Disconnect, Restart
  <2>2. reports' = {}
    BY <1>4 DEF Disconnect, Restart
  <2>3. \A d \in Calls : future'[d] = future[d] \/ future'[d] = "lost"
    BY <1>4 DEF Disconnect, Restart, Settle
  <2>4. \A d \in Calls : outcome'[d] = outcome[d] \/ outcome'[d] = "error"
    BY <1>4 DEF Disconnect, Restart
  <2>5. \A d \in Calls : pc'[d] # "idle" => number'[d] # 0
    BY <1>4, <2>1 DEF Disconnect, Restart, CorrelationInv, Active
  <2>6. ASSUME NEW d \in Calls, ~Shared(number[d])'
        PROVE  /\ future'[d] \in Verdicts => future'[d] \in verdicts'[d]
               /\ outcome'[d] \in Verdicts => outcome'[d] \in verdicts'[d]
    <3>1. ~Shared(number[d])
      BY <2>1, <2>6 DEF Shared
    <3> QED
      BY <2>1, <2>3, <2>4, <3>1 DEF CorrelationInv, ReturnsItsOwnAnswer, Verdicts
  <2> QED
    BY <2>2, <2>5, <2>6 DEF CorrelationInv, ReturnsItsOwnAnswer
<1>5. ASSUME NEW c \in Calls, Transmit(c) \/ Puback(c) PROVE CorrelationInv'
  BY <1>0, <1>5 DEF Transmit, Puback, CorrelationInv, ReturnsItsOwnAnswer, TypeOK, client, calls, Verdicts
<1>6. ASSUME NEW c \in Calls, NEW result \in Verdicts, Execute(c, result) PROVE CorrelationInv'
  BY <1>0, <1>6 DEF Execute, CorrelationInv, ReturnsItsOwnAnswer, TypeOK, client, calls, Verdicts
<1>7. ASSUME NEW m \in ForeignReports, ForeignReport(m) PROVE CorrelationInv'
  BY <1>0, <1>7 DEF ForeignReport, ForeignNumbers, CorrelationInv, ReturnsItsOwnAnswer, client, calls
<1>8. CASE UNCHANGED vars
  BY <1>0, <1>8 DEF vars, client, calls, network, CorrelationInv, ReturnsItsOwnAnswer
<1> QED
  BY <1>1, <1>2, <1>3, <1>4, <1>5, <1>6, <1>7, <1>8 DEF Next

(* A command whose number nobody else used returns what the printer did    *)
(* with a copy of it, through timeouts, disconnects, restarts, resends,    *)
(* duplicates and evictions from the cache, whatever other clients do.     *)
THEOREM Correlated == Spec => []ReturnsItsOwnAnswer
<1>1. Init => CorrelationInv
  BY DEF Init, CorrelationInv, ReturnsItsOwnAnswer, Verdicts
<1>2. IndInv /\ CorrelationInv /\ [Next]_vars => CorrelationInv'
  BY CorrelationStep
<1>3. CorrelationInv => ReturnsItsOwnAnswer
  BY DEF CorrelationInv
<1> QED BY <1>1, <1>2, <1>3, Inductive, PTL DEF Spec

-----------------------------------------------------------------------------
(* The refinement of CommandOutcome.                                       *)

LEMMA CommandMaps ==
  ASSUME TypeOK, TrackerInv, CorrelationInv, NEW c \in Calls, Command(c)
  PROVE  Abstract!Ask(c)
<1>1. /\ pc[c] = "idle" /\ pc' = [pc EXCEPT ![c] = "publishing"]
      /\ number' = [number EXCEPT ![c] = sequence + 1]
      /\ UNCHANGED <<outcome, copies, verdicts>>
  BY DEF Command
<1>2. Outcome[c] = "idle" /\ Outcome' = [Outcome EXCEPT ![c] = "pending"]
  BY <1>1 DEF Outcome, TypeOK
<1>4. SharedCalls \subseteq SharedCalls' /\ SharedCalls' \subseteq Calls
  <2> SUFFICES ASSUME NEW d \in SharedCalls PROVE d \in SharedCalls'
    BY DEF SharedCalls
  <2>1. d \in Calls /\ pc[d] # "idle" /\ Shared(number[d])
    BY DEF SharedCalls
  <2>2. d # c /\ number'[d] = number[d] /\ pc'[d] # "idle" /\ number[d] # 0
    BY <1>1, <2>1 DEF TypeOK, CorrelationInv
  <2>3. Shared(number[d])'
    <3>1. number[c] = 0
      BY <1>1 DEF TrackerInv
    <3>2. Shared(number[d]) /\ number[d] # 0 /\ number \in [Calls -> Nat]
      BY <2>1, <2>2 DEF TypeOK
    <3>3. \/ number[d] \in ForeignNumbers
          \/ \E e, f \in Calls : e # f /\ number[e] = number[d] /\ number[f] = number[d]
      BY <3>2 DEF Shared
    <3>4. \A e \in Calls : number[e] = number[d] => number'[e] = number'[d]
      BY <1>1, <2>2, <3>1, <3>2
    <3> QED BY <2>2, <3>3, <3>4 DEF Shared
  <2> QED BY <2>1, <2>2, <2>3 DEF SharedCalls
<1> QED BY <1>1, <1>2, <1>4 DEF Abstract!Ask

(* A call that ends in an error, or with what its future holds.            *)
LEMMA FinishMaps ==
  ASSUME TypeOK, CorrelationInv, NEW c \in Calls, NEW result, Finish(c, result),
         pc[c] \in Active, result = "error" \/ (result \in Verdicts /\ future[c] = result)
  PROVE  Abstract!Next
<1>1. /\ pc' = [pc EXCEPT ![c] = "done"] /\ outcome' = [outcome EXCEPT ![c] = result]
      /\ UNCHANGED <<number, copies, verdicts>>
  BY DEF Finish
<1>2. Outcome[c] = "pending" /\ Outcome' = [Outcome EXCEPT ![c] = result]
  BY <1>1 DEF Outcome, TypeOK
<1>3. Outcome' = [d \in Calls |-> IF d \in {c} THEN result ELSE Outcome[d]]
  BY <1>2 DEF Outcome
<1>4. SharedCalls' = SharedCalls
  BY <1>1 DEF SharedCalls, Shared, TypeOK
<1>5. CASE result = "error"
  <2>1. Abstract!Fail({c})
    BY <1>1, <1>2, <1>3, <1>4, <1>5 DEF Abstract!Fail
  <2>2. {c} \in SUBSET Calls
    OBVIOUS
  <2> QED BY <2>1, <2>2 DEF Abstract!Next
<1>6. CASE result \in Verdicts /\ future[c] = result
  <2>1. result \in verdicts[c] \/ c \in SharedCalls
    BY <1>6 DEF CorrelationInv, SharedCalls
  <2>2. Abstract!Answer(c, result)
    BY <1>1, <1>2, <1>4, <2>1 DEF Abstract!Answer
  <2> QED BY <1>6, <2>2 DEF Abstract!Next, Abstract!Answers
<1> QED BY <1>5, <1>6

LEMMA RestartMaps ==
  ASSUME TypeOK, Restart
  PROVE  Abstract!Fail({c \in Calls : pc[c] \in Active})
<1>1. /\ pc' = [c \in Calls |-> IF pc[c] \in Active THEN "done" ELSE pc[c]]
      /\ outcome' = [c \in Calls |-> IF pc[c] \in Active THEN "error" ELSE outcome[c]]
      /\ UNCHANGED <<number, copies, verdicts>>
  BY DEF Restart
<1>2. SharedCalls' = SharedCalls
  BY <1>1 DEF SharedCalls, Shared, TypeOK
<1>3. \A c \in Calls : Outcome[c] = "pending" \/ pc[c] \notin Active
  BY DEF Outcome
<1>4. Outcome' = [c \in Calls |-> IF c \in {d \in Calls : pc[d] \in Active}
                                   THEN "error" ELSE Outcome[c]]
  BY <1>1 DEF Outcome, TypeOK
<1> QED BY <1>1, <1>2, <1>3, <1>4 DEF Abstract!Fail

(* Paho sends only what has no answer: an answered call has its PUBACK.    *)
LEMMA TransmitMaps ==
  ASSUME TypeOK, TrackerInv, NEW c \in Calls, Transmit(c)
  PROVE  Abstract!Send(c)
<1>1. c \in outbox /\ copies' = [copies EXCEPT ![c] = @ + 1]
      /\ UNCHANGED <<pc, outcome, number, verdicts>>
  BY DEF Transmit
<1>2. pc[c] \in {"publishing", "done"} /\ outcome[c] \notin Verdicts
  BY <1>1 DEF TrackerInv
<1>3. pc[c] = "done" => outcome[c] = "error"
  BY <1>1, <1>2 DEF TrackerInv, TypeOK
<1>4. Outcome[c] \in {"pending", "error"}
  BY <1>2, <1>3 DEF Outcome
<1>5. Outcome' = Outcome /\ SharedCalls' = SharedCalls
  BY <1>1 DEF Outcome, SharedCalls, Shared
<1> QED BY <1>1, <1>4, <1>5 DEF Abstract!Send

LEMMA ExecuteMaps ==
  ASSUME NEW c \in Calls, NEW result \in Verdicts, Execute(c, result)
  PROVE  Abstract!Act(c, result)
<1>1. Outcome' = Outcome /\ SharedCalls' = SharedCalls
  BY DEF Execute, Outcome, SharedCalls, Shared
<1> QED BY <1>1 DEF Abstract!Act, Execute

(* The steps the caller does not see.                                      *)
LEMMA UnseenSteps ==
  ASSUME TypeOK, UNCHANGED <<number, outcome, copies, verdicts>>,
         \A c \in Calls : /\ pc'[c] = "idle" <=> pc[c] = "idle"
                          /\ pc'[c] \in Active <=> pc[c] \in Active
  PROVE  UNCHANGED Abstract!vars
<1>1. Outcome' = Outcome
  BY DEF Outcome
<1>2. SharedCalls' = SharedCalls
  BY DEF SharedCalls, Shared
<1> QED BY <1>1, <1>2 DEF Abstract!vars

(* The client gives what the caller of gateway.command relies on: one      *)
(* outcome, answers that are true unless their number is shared, and no    *)
(* copy sent after the answer, for any resends of paho.                    *)
THEOREM Implements == Spec => ImplementsOutcome
<1>1. Init => Abstract!Init
  BY DEF Init, Abstract!Init, Outcome, SharedCalls
<1>2. IndInv /\ CorrelationInv /\ [Next]_vars => [Abstract!Next]_(Abstract!vars)
  <2> SUFFICES ASSUME TypeOK, TrackerInv, CorrelationInv, [Next]_vars
               PROVE  Abstract!Next \/ UNCHANGED Abstract!vars
    BY DEF IndInv
  <2>1. ASSUME NEW c \in Calls, Command(c) PROVE Abstract!Next
    BY <2>1, CommandMaps DEF Abstract!Next
  <2>2. ASSUME NEW c \in Calls, PublishFails(c) \/ Return(c) \/ Expired(c)
        PROVE  Abstract!Next
    <3>1. pc[c] \in Active
      BY <2>2 DEF PublishFails, Return, Expired
    <3>2. CASE Finish(c, "error")
      BY <3>1, <3>2, FinishMaps
    <3>3. CASE Finish(c, future[c]) /\ future[c] \in Verdicts
      BY <3>1, <3>3, FinishMaps
    <3> QED
      BY <2>2, <3>2, <3>3 DEF PublishFails, Return, Expired
  <2>3. ASSUME NEW c \in Calls, Published(c) \/ Timeout(c) PROVE UNCHANGED Abstract!vars
    BY <2>3, UnseenSteps DEF Published, Timeout, TypeOK
  <2>4. ASSUME NEW c \in Calls, Transmit(c) PROVE Abstract!Next
    BY <2>4, TransmitMaps DEF Abstract!Next
  <2>5. ASSUME UNCHANGED <<pc, number, outcome, copies, verdicts>> PROVE UNCHANGED Abstract!vars
    BY <2>5, UnseenSteps
  <2>6. ASSUME NEW m \in reports, Receive(m) PROVE UNCHANGED Abstract!vars
    BY <2>5, <2>6 DEF Receive
  <2>7. CASE Disconnect
    BY <2>5, <2>7 DEF Disconnect
  <2>8. CASE Restart
    <3>1. {c \in Calls : pc[c] \in Active} \in SUBSET Calls
      OBVIOUS
    <3> QED BY <2>8, <3>1, RestartMaps DEF Abstract!Next
  <2>9. ASSUME NEW c \in Calls, NEW result \in Verdicts, Execute(c, result)
        PROVE  Abstract!Next
    BY <2>9, ExecuteMaps DEF Abstract!Next, Abstract!Answers
  <2>10. ASSUME NEW m \in ForeignReports, ForeignReport(m) PROVE UNCHANGED Abstract!vars
    BY <2>5, <2>10 DEF ForeignReport
  <2>11. ASSUME NEW c \in Calls, Puback(c) PROVE UNCHANGED Abstract!vars
    BY <2>5, <2>11 DEF Puback
  <2> QED
    BY <2>1, <2>2, <2>3, <2>4, <2>5, <2>6, <2>7, <2>8, <2>9, <2>10, <2>11 DEF Next, Step, vars
<1>3. Init => CorrelationInv
  BY DEF Init, CorrelationInv, ReturnsItsOwnAnswer, Verdicts
<1>4. IndInv /\ CorrelationInv /\ [Next]_vars => CorrelationInv'
  BY CorrelationStep
<1> QED BY <1>1, <1>2, <1>3, <1>4, Inductive, PTL DEF Spec, ImplementsOutcome, Abstract!Spec
=============================================================================
