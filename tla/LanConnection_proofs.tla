------------------------ MODULE LanConnection_proofs ------------------------
(***************************************************************************)
(* Proofs about LanConnection, for any requests, any tasks that close the  *)
(* gateway, any number of failures, and cancellations wherever a task      *)
(* waits: a connected gateway has a network thread until the call of a     *)
(* cancelled task disturbs it, the answers that are awaited can come, and  *)
(* commands go out on subscribed sessions only.                            *)
(***************************************************************************)
EXTENDS LanConnection, SequenceTheorems, TLAPS

USE ConstantsAssumption
USE DEF Tasks

-----------------------------------------------------------------------------
(* The queue of the event loop.                                            *)

LEMMA Events ==
  /\ \A ok \in BOOLEAN : Signal(ok) \in Event /\ Signal(ok).what = "signal"
  /\ Disconnected \in Event /\ Disconnected.what = "disconnected"
  /\ \A t \in Tasks, ok \in BOOLEAN :
       Resume(t, ok) \in Event /\ Resume(t, ok).what = "resume" /\ Resume(t, ok).of = t
BY DEF Event, Signal, Disconnected, Resume

LEMMA CallType ==
  ASSUME NEW q \in Seq(Event), NEW events \in Seq(Event)
  PROVE  /\ q \o events \in Seq(Event)
         /\ DOMAIN (q \o events) = 1..(Len(q) + Len(events))
         /\ Len(q) \in Nat /\ DOMAIN q = 1..Len(q)
         /\ \A i \in 1..Len(q) : (q \o events)[i] = q[i]
         /\ \A i \in 1..Len(events) : (q \o events)[Len(q) + i] = events[i]
OBVIOUS

LEMMA CallsType ==
  ASSUME NEW q \in Seq(Event), NEW e \in Event, NEW f \in Event, NEW g \in Event
  PROVE  /\ q \o <<e>> \in Seq(Event)
         /\ q \o <<e, f>> \in Seq(Event)
         /\ q \o <<e, f, g>> \in Seq(Event)
         /\ Append(q, e) \in Seq(Event)
OBVIOUS

LEMMA TailType ==
  ASSUME NEW q \in Seq(Event), q # <<>>
  PROVE  /\ Head(q) \in Event /\ Head(q) = q[1]
         /\ Tail(q) \in Seq(Event)
         /\ 1 \in DOMAIN q
         /\ \A i \in DOMAIN Tail(q) : i + 1 \in DOMAIN q /\ Tail(q)[i] = q[i + 1] /\ i # 0
OBVIOUS

LEMMA Sequence1 ==
  ASSUME NEW e \in Event
  PROVE  /\ <<e>> \in Seq(Event) /\ Len(<<e>>) = 1 /\ <<e>>[1] = e
         /\ DOMAIN <<e>> = 1..1
OBVIOUS

LEMMA Sequence2 ==
  ASSUME NEW e \in Event, NEW f \in Event
  PROVE  /\ <<e, f>> \in Seq(Event)
         /\ DOMAIN <<e, f>> = 1..2 /\ <<e, f>>[1] = e /\ <<e, f>>[2] = f
OBVIOUS

LEMMA Sequence3 ==
  ASSUME NEW e \in Event, NEW f \in Event, NEW g \in Event
  PROVE  /\ <<e, f, g>> \in Seq(Event) /\ Len(<<e, f, g>>) = 3
         /\ <<e, f, g>>[1] = e /\ <<e, f, g>>[2] = f /\ <<e, f, g>>[3] = g
OBVIOUS

LEMMA SequenceJoin ==
  ASSUME NEW e \in Event, NEW f \in Event, NEW g \in Event
  PROVE  <<e, f>> \o <<g>> = <<e, f, g>>
<1> DEFINE s == <<e, f>>
           q == <<g>>
           a == s \o q
           b == <<e, f, g>>
<1>1. /\ s \in Seq(Event) /\ Len(s) = 2 /\ s[1] = e /\ s[2] = f
      /\ q \in Seq(Event) /\ Len(q) = 1 /\ q[1] = g
  OBVIOUS
<1>2. b \in Seq(Event) /\ Len(b) = 3 /\ b[1] = e /\ b[2] = f /\ b[3] = g
  BY Sequence3
<1> HIDE DEF s, q, b
<1>3. a \in Seq(Event) /\ Len(a) = 3 /\ a[1] = e /\ a[2] = f /\ a[3] = g
  <2>1. /\ a \in Seq(Event) /\ Len(a) = 2 + 1
        /\ \A i \in 1..2 + 1 : a[i] = IF i <= 2 THEN s[i] ELSE q[i - 2]
    <3>1. /\ a \in Seq(Event) /\ Len(a) = Len(s) + Len(q)
          /\ \A i \in 1..Len(s) + Len(q) : a[i] = IF i <= Len(s) THEN s[i] ELSE q[i - Len(s)]
      BY <1>1, ConcatProperties, Zenon
    <3> QED BY <1>1, <3>1, Zenon
  <2> HIDE DEF a
  <2> QED BY <1>1, <2>1
<1> HIDE DEF a
<1>4. a = b
  <2>1. \A i \in 1..3 : a[i] = b[i]
    BY <1>2, <1>3
  <2> QED BY <1>2, <1>3, <2>1, SeqEqual
<1> QED BY <1>4 DEF a, b, s, q

LEMMA AppendType ==
  ASSUME NEW q \in Seq(Event), NEW e \in Event
  PROVE  /\ Len(q) \in Nat /\ DOMAIN q = 1..Len(q)
         /\ DOMAIN Append(q, e) = 1..(Len(q) + 1)
         /\ \A i \in 1..Len(q) : Append(q, e)[i] = q[i]
         /\ Append(q, e)[Len(q) + 1] = e
OBVIOUS

(* A callback that resumes nobody.                                         *)
LEMMA CallSilent ==
  ASSUME NEW q \in Seq(Event), NEW events \in Seq(Event),
         \A i \in DOMAIN events : events[i].what # "resume",
         NEW i \in DOMAIN (q \o events), (q \o events)[i].what = "resume"
  PROVE  i \in DOMAIN q /\ (q \o events)[i] = q[i]
<1>1. i \in 1..(Len(q) + Len(events)) /\ Len(q) \in Nat /\ Len(events) \in Nat
  BY CallType
<1>2. CASE i <= Len(q)
  BY <1>1, <1>2, CallType
<1>3. CASE ~(i <= Len(q))
  <2>1. i - Len(q) \in 1..Len(events) /\ Len(q) + (i - Len(q)) = i
    BY <1>1, <1>3
  <2>2. (q \o events)[i] = events[i - Len(q)]
    BY <2>1, CallType
  <2> QED BY <2>1, <2>2
<1> QED BY <1>2, <1>3

(* Callbacks of which the last one resumes a task.                         *)
LEMMA CallResume ==
  ASSUME NEW q \in Seq(Event), \A i \in DOMAIN q : q[i].what # "resume",
         NEW events \in Seq(Event), NEW t, Len(events) > 0,
         \A i \in 1..(Len(events) - 1) : events[i].what # "resume",
         events[Len(events)].of = t,
         NEW i \in DOMAIN (q \o events), (q \o events)[i].what = "resume"
  PROVE  i = Len(q) + Len(events) /\ (q \o events)[i].of = t
<1>1. i \in 1..(Len(q) + Len(events)) /\ Len(q) \in Nat /\ Len(events) \in Nat
  BY CallType
<1>2. CASE i <= Len(q)
  BY <1>1, <1>2, CallType
<1>3. CASE ~(i <= Len(q))
  <2>1. i - Len(q) \in 1..Len(events) /\ Len(q) + (i - Len(q)) = i
    BY <1>1, <1>3
  <2>2. (q \o events)[i] = events[i - Len(q)]
    BY <2>1, CallType
  <2>3. i - Len(q) = Len(events)
    BY <1>1, <2>1, <2>2
  <2> QED BY <1>1, <2>1, <2>2, <2>3
<1> QED BY <1>2, <1>3

(* What client.disconnect appends, for a task that waits or for nobody.    *)
LEMMA Says ==
  ASSUME queue \in Seq(Event), NEW t \in Tasks
  PROVE  /\ WorkerDisconnects(t) =>
              \/ queue' = queue \o <<Resume(t, TRUE)>>
              \/ queue' = queue \o <<Signal(FALSE), Disconnected, Resume(t, TRUE)>>
         /\ StrayDisconnects(t) =>
              \/ queue' = queue
              \/ queue' = queue \o <<Signal(FALSE), Disconnected>>
         /\ WorkerDisconnects(t) /\ ~(thread \/ link = "down") =>
              queue' = queue \o <<Signal(FALSE), Disconnected, Resume(t, TRUE)>>
         /\ StrayDisconnects(t) /\ ~(thread \/ link = "down") =>
              queue' = queue \o <<Signal(FALSE), Disconnected>>
<1>1. /\ Signal(FALSE) \in Event /\ Disconnected \in Event /\ Resume(t, TRUE) \in Event
  BY Events
<1>2. <<Signal(FALSE), Disconnected>> \o <<Resume(t, TRUE)>>
        = <<Signal(FALSE), Disconnected, Resume(t, TRUE)>>
  BY <1>1, SequenceJoin
<1>3. <<Signal(FALSE), Disconnected>> \o <<>> = <<Signal(FALSE), Disconnected>>
  BY <1>1
<1>4. queue \o <<>> = queue
  OBVIOUS
<1>5. ASSUME NEW returns, Disconnects(returns)
      PROVE  IF thread \/ link = "down"
               THEN queue' = queue \o returns
               ELSE queue' = queue \o (<<Signal(FALSE), Disconnected>> \o returns)
  BY <1>5, Zenon DEF Disconnects, Call
<1>6. WorkerDisconnects(t) => Disconnects(<<Resume(t, TRUE)>>)
  BY Zenon DEF WorkerDisconnects
<1>7. StrayDisconnects(t) => Disconnects(<<>>)
  BY Zenon DEF StrayDisconnects
<1> HIDE DEF Signal, Disconnected, Resume
<1> QED
  BY <1>2, <1>3, <1>4, <1>5, <1>6, <1>7, Zenon

(* What each step does to the queue.                                       *)
LEMMA QueueType ==
  ASSUME TypeOK, LockInv, [Next]_vars
  PROVE  queue' \in Seq(Event)
<1>0. queue \in Seq(Event)
  BY DEF TypeOK
<1> USE DEF loop, workers, transport, paho, history
<1>1. ASSUME NEW r \in Requests, HandshakeTimeout(r) PROVE queue' \in Seq(Event)
  <2>1. queue' = queue \o <<Resume(r, FALSE)>> \/ queue' = queue
    BY <1>1 DEF HandshakeTimeout, Call
  <2>2. Resume(r, FALSE) \in Event
    BY Events
  <2> QED BY <1>0, <2>1, <2>2, CallsType
<1>2. ASSUME NEW r \in Requests,
             Begin(r) \/ Acquire(r) \/ AcquireConnected(r) \/ AnswerTimeout(r) \/ CancelLocking(r)
             \/ Answer(r) \/ StrayConnects(r)
      PROVE  queue' \in Seq(Event)
  BY <1>0, <1>2
     DEF Begin, Acquire, AcquireConnected, AnswerTimeout, CancelLocking, Answer, StrayConnects
<1>3. ASSUME NEW c \in Closers, CloseBegin(c) PROVE queue' \in Seq(Event)
  BY <1>0, <1>3 DEF CloseBegin
<1>4. ASSUME NEW t \in Tasks, Work(t) PROVE queue' \in Seq(Event)
  <2>1. \/ queue' = queue
        \/ \E ok \in BOOLEAN : queue' = queue \o <<Resume(t, ok)>>
        \/ queue' = queue \o <<Signal(FALSE), Disconnected, Resume(t, TRUE)>>
    BY <1>0, <1>4, Says DEF Work, WorkerConnects, WorkerStops, WorkerJoins, Call
  <2>2. /\ \A ok \in BOOLEAN : Resume(t, ok) \in Event
        /\ Signal(FALSE) \in Event /\ Disconnected \in Event
    BY Events
  <2>3. ASSUME NEW ok \in BOOLEAN PROVE queue \o <<Resume(t, ok)>> \in Seq(Event)
    BY <1>0, <2>2, CallsType
  <2>4. queue \o <<Signal(FALSE), Disconnected, Resume(t, TRUE)>> \in Seq(Event)
    BY <1>0, <2>2, CallsType
  <2> QED BY <1>0, <2>1, <2>3, <2>4
<1>5. CASE Handle
  <2>1. queue # <<>>
    BY <1>5 DEF Handle, HandleResume, HandleSignal, HandleDisconnected
  <2>2. Tail(queue) \in Seq(Event)
    BY <1>0, <2>1, TailType
  <2>3. CASE HandleSignal /\ future = "pending" /\ pc[lock] = "handshaking"
    <3>1. Resume(lock, TRUE) \in Event
      BY <2>3, Events DEF LockInv
    <3> QED BY <2>2, <2>3, <3>1, CallsType DEF HandleSignal
  <2>4. CASE ~(HandleSignal /\ future = "pending" /\ pc[lock] = "handshaking")
    BY <1>5, <2>2, <2>4 DEF Handle, HandleResume, HandleSignal, HandleDisconnected
  <2> QED BY <2>3, <2>4
<1>6. CASE OnConnect \/ ReadSuback \/ ThreadExits \/ Reconnect \/ Lose \/ UNCHANGED vars
  BY <1>0, <1>6 DEF OnConnect, ReadSuback, ThreadExits, Reconnect, Lose, vars
<1>7. CASE OnConnectFails \/ OnSubscribe \/ OnSubscribeFails \/ OnDisconnect
  <2>1. \/ queue' = queue
        \/ \E ok \in BOOLEAN : queue' = queue \o <<Signal(ok)>>
        \/ queue' = queue \o <<Signal(FALSE), Disconnected>>
    BY <1>7 DEF OnConnectFails, OnSubscribe, OnSubscribeFails, OnDisconnect, Call
  <2>2. \A ok \in BOOLEAN : Signal(ok) \in Event
    BY Events
  <2>3. Disconnected \in Event
    BY Events
  <2>4. ASSUME NEW ok \in BOOLEAN PROVE queue \o <<Signal(ok)>> \in Seq(Event)
    BY <1>0, <2>2, CallsType
  <2>5. queue \o <<Signal(FALSE), Disconnected>> \in Seq(Event)
    BY <1>0, <2>2, <2>3, CallsType
  <2> QED BY <1>0, <2>1, <2>4, <2>5
<1>8. ASSUME NEW t \in Tasks, Cancel(t) \/ StrayDisconnects(t) \/ StrayStops(t)
      PROVE  queue' \in Seq(Event)
  <2>1. queue' = queue \/ queue' = queue \o <<Signal(FALSE), Disconnected>>
    BY <1>0, <1>8, Says DEF Cancel, StrayStops
  <2>2. queue \o <<Signal(FALSE), Disconnected>> \in Seq(Event)
    BY <1>0, Events, CallsType
  <2> QED BY <1>0, <2>1, <2>2
<1> QED
  BY <1>1, <1>2, <1>3, <1>4, <1>5, <1>6, <1>7, <1>8 DEF Next, Progress, Callback

(* The task that the event loop resumes is the holder of the lock.         *)
LEMMA HeadResumes ==
  ASSUME TypeOK, LockInv, ResumeInv, HandleResume
  PROVE  /\ lock \in Tasks /\ worker[lock] = "none" /\ \E ok \in BOOLEAN : Resumed(lock, ok)
         /\ pc[lock] = "handshaking" => future # "pending"
         /\ \A i \in DOMAIN queue' : queue'[i].what # "resume"
<1>1. /\ queue \in Seq(Event) /\ queue # <<>>
      /\ queue' = Tail(queue) /\ Head(queue).what = "resume"
      /\ Resumed(Head(queue).of, Head(queue).ok)
  BY DEF HandleResume, TypeOK
<1>2. Head(queue) \in Event /\ Head(queue) = queue[1] /\ 1 \in DOMAIN queue
  BY <1>1, TailType
<1>3. Head(queue).of = lock /\ lock \in Tasks /\ worker[lock] = "none"
      /\ (pc[lock] = "handshaking" => future # "pending")
  BY <1>1, <1>2 DEF ResumeInv
<1>4. Head(queue).ok \in BOOLEAN
  BY <1>2 DEF Event
<1>5. ASSUME NEW i \in DOMAIN queue' PROVE queue'[i].what # "resume"
  <2>1. i + 1 \in DOMAIN queue /\ queue'[i] = queue[i + 1] /\ i # 0 /\ i \in Nat
    BY <1>1, TailType
  <2>2. i + 1 # 1
    BY <2>1
  <2> QED BY <1>1, <1>2, <2>1, <2>2 DEF ResumeInv
<1> QED BY <1>1, <1>3, <1>4, <1>5

LEMMA TypeStep == TypeOK /\ LockInv /\ ResumeInv /\ [Next]_vars => TypeOK'
<1> SUFFICES ASSUME TypeOK, LockInv, ResumeInv, [Next]_vars PROVE TypeOK'
  OBVIOUS
<1>0. queue' \in Seq(Event)
  BY QueueType
<1> USE DEF TypeOK, loop, workers, transport, paho, history, Awaiting, Attempting, Closing, Live,
            Submit
<1>1. ASSUME NEW r \in Requests, Begin(r) \/ AcquireConnected(r) PROVE TypeOK'
  BY <1>0, <1>1 DEF Begin, AcquireConnected
<1>2. ASSUME NEW r \in Requests, Acquire(r) PROVE TypeOK'
  BY <1>0, <1>2 DEF Acquire
<1>3. ASSUME NEW r \in Requests, HandshakeTimeout(r) PROVE TypeOK'
  BY <1>0, <1>3 DEF HandshakeTimeout
<1>i. ASSUME NEW t \in Tasks, Interrupted(t)
      PROVE  /\ pc' \in [Tasks -> {"idle", "locking", "answered", "failed", "closed"}
                                  \cup Awaiting \cup Attempting \cup Closing]
             /\ worker' \in [Tasks -> {"none", "connect", "disconnect", "stop", "join"}]
             /\ lock' \in Tasks \cup {Nobody}
             /\ future' \in {"none", "pending", "ok", "error", "cancelled"}
             /\ connected' \in BOOLEAN /\ ready' \in BOOLEAN /\ disturbed' \in BOOLEAN
  BY <1>i DEF Interrupted, Cleanup
<1>4. ASSUME NEW t \in Tasks, Cancel(t) PROVE TypeOK'
  <2>1. stray' \in [Tasks -> SUBSET {"connect", "disconnect", "stop"}]
    <3>1. {worker[t]} \ {"join"} \subseteq {"connect", "disconnect", "stop"}
      BY <1>4 DEF Cancel
    <3> QED BY <1>4, <3>1 DEF Cancel
  <2> QED BY <1>0, <1>4, <1>i, <2>1 DEF Cancel
<1>5. ASSUME NEW r \in Requests, Answer(r) \/ AnswerTimeout(r) \/ CancelLocking(r) PROVE TypeOK'
  BY <1>0, <1>5 DEF Answer, AnswerTimeout, CancelLocking
<1>6. ASSUME NEW r \in Requests, StrayConnects(r) PROVE TypeOK'
  BY <1>0, <1>6 DEF StrayConnects, StrayEnds, Reopen, SessionReplaced
<1>d. ASSUME NEW returns, Disconnects(returns)
      PROVE  /\ pc' \in [Tasks -> {"idle", "locking", "answered", "failed", "closed"}
                                  \cup Awaiting \cup Attempting \cup Closing]
             /\ UNCHANGED <<lock, connected, future, thread, terminate, suback, failures>>
             /\ closing' = TRUE /\ link' \in Live \cup {"down", "lost"}
             /\ ready' \in BOOLEAN /\ subscribing' \in BOOLEAN /\ misled' \in BOOLEAN
  <2>1. CASE thread \/ link = "down"
    BY <1>d, <2>1 DEF Disconnects
  <2>2. CASE ~(thread \/ link = "down")
    BY <1>d, <2>2 DEF Disconnects, SessionEnds
  <2> QED BY <2>1, <2>2
<1>16. ASSUME NEW t \in Tasks, StrayDisconnects(t) PROVE TypeOK'
  <2>1. /\ Disconnects(<<>>) /\ disturbed' = TRUE
        /\ stray' = [stray EXCEPT ![t] = @ \ {"disconnect"}] /\ UNCHANGED worker
    BY <1>16 DEF StrayDisconnects, StrayEnds
  <2>2. stray' \in [Tasks -> SUBSET {"connect", "disconnect", "stop"}]
    BY <2>1
  <2> QED BY <1>0, <1>d, <2>1, <2>2
<1>17. ASSUME NEW t \in Tasks, StrayStops(t) PROVE TypeOK'
  BY <1>0, <1>17 DEF StrayStops, StrayEnds
<1>7. ASSUME NEW c \in Closers, CloseBegin(c) PROVE TypeOK'
  BY <1>0, <1>7 DEF CloseBegin
<1>8. ASSUME NEW t \in Tasks, Work(t) PROVE TypeOK'
  <2>1. CASE WorkerConnects(t)
    BY <1>0, <2>1 DEF WorkerConnects, Reopen, SessionEnds
  <2>2. CASE WorkerDisconnects(t)
    <3>1. /\ Disconnects(<<Resume(t, TRUE)>>) /\ UNCHANGED <<stray, disturbed>>
          /\ worker' = [worker EXCEPT ![t] = "none"]
      BY <2>2 DEF WorkerDisconnects
    <3> QED BY <1>0, <1>d, <3>1
  <2>3. CASE WorkerStops(t)
    BY <1>0, <2>3 DEF WorkerStops
  <2>4. CASE WorkerJoins(t)
    BY <1>0, <2>4 DEF WorkerJoins
  <2> QED BY <1>8, <2>1, <2>2, <2>3, <2>4 DEF Work
<1>9. CASE HandleResume
  <2>1. Head(queue) \in Event /\ Head(queue).of = lock /\ lock \in Tasks
    BY <1>9, TailType DEF HandleResume, ResumeInv
  <2>2. Head(queue).ok \in BOOLEAN
    BY <2>1 DEF Event
  <2> DEFINE ok == Head(queue).ok
  <2>a. ok \in BOOLEAN
    BY <2>2
  <2>b. HandleResume => Resumed(lock, ok)
    BY <2>1 DEF HandleResume
  <2> HIDE DEF ok
  <2>3. CASE ConnectReturns(lock, ok) /\ UNCHANGED disturbed
    <3>1. lock \in Requests
      BY <2>1, <2>3 DEF ConnectReturns, LockInv
    <3>2. CASE Cleanup(lock, "dropping")
      BY <1>0, <1>9, <2>1, <2>a, <2>3, <3>1, <3>2 DEF HandleResume, ConnectReturns, Cleanup
    <3>3. CASE HandshakeEnds(lock)
      <4>1. /\ UNCHANGED <<stray, subscribing, closing, link, suback, misled, disturbed, failures>>
            /\ thread' \in BOOLEAN /\ terminate' \in BOOLEAN
        BY <1>9, <2>a, <2>3 DEF HandleResume, ConnectReturns
      <4>2. CASE Enter(lock)
        BY <1>0, <2>1, <3>1, <4>1, <4>2 DEF Enter
      <4>3. CASE Cleanup(lock, "undoing")
        BY <1>0, <2>1, <3>1, <4>1, <4>3 DEF Cleanup
      <4> QED BY <3>3, <4>2, <4>3 DEF HandshakeEnds
    <3>4. CASE pc' = [pc EXCEPT ![lock] = "handshaking"] /\ UNCHANGED <<lock, connected, future, worker, ready>>
      BY <1>0, <1>9, <2>1, <2>a, <2>3, <3>1, <3>4 DEF HandleResume, ConnectReturns
    <3> QED
      BY <2>3, <3>2, <3>3, <3>4 DEF ConnectReturns
  <2>4. CASE HandshakeReturns(lock) /\ UNCHANGED disturbed
    <3>1. lock \in Requests
      BY <2>1, <2>4 DEF HandshakeReturns, LockInv
    <3> QED
      BY <1>0, <1>9, <2>1, <2>4, <3>1 DEF HandleResume, HandshakeReturns, HandshakeEnds, Enter, Cleanup
  <2>5. CASE CleanupReturns(lock) /\ UNCHANGED disturbed
    BY <1>0, <1>9, <2>1, <2>5 DEF HandleResume, CleanupReturns
  <2>6. CASE CloseReturns(lock) /\ UNCHANGED disturbed
    BY <1>0, <1>9, <2>1, <2>6 DEF HandleResume, CloseReturns
  <2>7. CASE Interrupted(lock) /\ UNCHANGED <<thread, terminate>>
    BY <1>0, <1>9, <1>i, <2>1, <2>7 DEF HandleResume
  <2>8. CASE UNCHANGED disturbed
    BY <1>9, <2>b, <2>3, <2>4, <2>5, <2>6, <2>7, <2>8 DEF Resumed
  <2>9. CASE ~UNCHANGED disturbed
    BY <1>9, <2>b, <2>7, <2>9 DEF Resumed
  <2> QED BY <2>8, <2>9
<1>10. CASE HandleSignal
  BY <1>0, <1>10 DEF HandleSignal
<1>11. CASE HandleDisconnected
  BY <1>0, <1>11 DEF HandleDisconnected
<1>12. CASE OnConnect \/ ReadSuback \/ ThreadExits \/ Reconnect
  BY <1>0, <1>12 DEF OnConnect, ReadSuback, ThreadExits, SessionReplaced, Reconnect
<1>13. CASE OnConnectFails \/ OnSubscribe \/ OnSubscribeFails \/ OnDisconnect
  <2>1. CASE OnConnectFails
    <3>1. failures' \in 0..MaxFailures
      BY <2>1 DEF OnConnectFails
    <3> QED BY <1>0, <2>1, <3>1 DEF OnConnectFails
  <2>2. CASE OnSubscribe
    BY <1>0, <2>2 DEF OnSubscribe
  <2>3. CASE OnSubscribeFails
    <3>1. failures' \in 0..MaxFailures
      BY <2>3 DEF OnSubscribeFails
    <3> QED BY <1>0, <2>3, <3>1 DEF OnSubscribeFails
  <2>4. CASE OnDisconnect
    BY <1>0, <2>4 DEF OnDisconnect, SessionEnds
  <2> QED BY <1>13, <2>1, <2>2, <2>3, <2>4
<1>14. CASE Lose
  BY <1>0, <1>14 DEF Lose, SessionEnds
<1>15. CASE UNCHANGED vars
  BY <1>15 DEF vars
<1> QED
  BY <1>1, <1>2, <1>3, <1>4, <1>5, <1>6, <1>7, <1>8, <1>9, <1>10, <1>11, <1>12, <1>13, <1>14, <1>15,
     <1>16, <1>17
     DEF Next, Progress, Handle, Callback

(* A request or a close holds the lock from its first blocking call to its *)
(* end, with the blocking call of its worker.                              *)
LEMMA LockStep == TypeOK /\ LockInv /\ ResumeInv /\ [Next]_vars => LockInv'
<1> SUFFICES ASSUME TypeOK, LockInv, ResumeInv, [Next]_vars PROVE LockInv'
  OBVIOUS
<1> USE DEF TypeOK, LockInv, loop, workers, transport, paho, history, Awaiting, Attempting, Closing,
            WorkerOf, Submit
<1>1. ASSUME NEW r \in Requests, Begin(r) \/ AcquireConnected(r) PROVE LockInv'
  BY <1>1 DEF Begin, AcquireConnected
<1>2. ASSUME NEW r \in Requests, Acquire(r) PROVE LockInv'
  BY <1>2 DEF Acquire
<1>3. ASSUME NEW r \in Requests, HandshakeTimeout(r) PROVE LockInv'
  BY <1>3 DEF HandshakeTimeout
<1>i. ASSUME NEW t \in Tasks, Interrupted(t) PROVE LockInv'
  <2>1. CASE pc[t] = "connecting"
    BY <1>i, <2>1 DEF Interrupted, Cleanup
  <2>2. CASE pc[t] = "closing"
    BY <1>i, <2>2 DEF Interrupted
  <2>3. CASE pc[t] \in {"dropping", "undoing", "stopping", "joining", "leaving"}
    BY <1>i, <2>3 DEF Interrupted
  <2> QED BY <1>i, <2>1, <2>2, <2>3 DEF Interrupted
<1>4. ASSUME NEW t \in Tasks, Cancel(t) PROVE LockInv'
  BY <1>4, <1>i DEF Cancel
<1>5. ASSUME NEW r \in Requests, Answer(r) \/ AnswerTimeout(r) \/ CancelLocking(r) PROVE LockInv'
  BY <1>5 DEF Answer, AnswerTimeout, CancelLocking
<1>6. ASSUME NEW r \in Requests, StrayConnects(r) PROVE LockInv'
  BY <1>6 DEF StrayConnects, StrayEnds, SessionReplaced
<1>15. ASSUME NEW t \in Tasks, StrayDisconnects(t) PROVE LockInv'
  BY <1>15 DEF StrayDisconnects, StrayEnds, Disconnects, SessionEnds
<1>16. ASSUME NEW t \in Tasks, StrayStops(t) PROVE LockInv'
  BY <1>16 DEF StrayStops, StrayEnds
<1>7. ASSUME NEW c \in Closers, CloseBegin(c) PROVE LockInv'
  BY <1>7 DEF CloseBegin
<1>8. ASSUME NEW t \in Tasks, Work(t) PROVE LockInv'
  <2>1. CASE WorkerConnects(t)
    BY <2>1 DEF WorkerConnects, SessionEnds
  <2>2. CASE WorkerDisconnects(t)
    BY <2>2 DEF WorkerDisconnects, Disconnects, SessionEnds
  <2>3. CASE WorkerStops(t)
    BY <2>3 DEF WorkerStops
  <2>4. CASE WorkerJoins(t)
    BY <2>4 DEF WorkerJoins
  <2> QED BY <1>8, <2>1, <2>2, <2>3, <2>4 DEF Work
<1>9. CASE HandleResume
  <2>1. lock \in Tasks /\ worker[lock] = "none" /\ \E ok \in BOOLEAN : Resumed(lock, ok)
    BY <1>9, HeadResumes
  <2>2. PICK ok \in BOOLEAN : Resumed(lock, ok)
    BY <2>1
  <2>3. CASE ConnectReturns(lock, ok)
    <3>1. lock \in Requests
      BY <2>1, <2>3 DEF ConnectReturns
    <3>2. CASE Cleanup(lock, "dropping")
      BY <2>1, <2>3, <3>1, <3>2 DEF ConnectReturns, Cleanup
    <3>3. CASE HandshakeEnds(lock)
      BY <2>1, <2>3, <3>1, <3>3 DEF ConnectReturns, HandshakeEnds, Enter, Cleanup
    <3>4. CASE pc' = [pc EXCEPT ![lock] = "handshaking"] /\ UNCHANGED <<lock, connected, future, worker, ready>>
      BY <2>1, <2>3, <3>1, <3>4 DEF ConnectReturns
    <3> QED
      BY <2>3, <3>2, <3>3, <3>4 DEF ConnectReturns
  <2>4. CASE HandshakeReturns(lock)
    <3>1. lock \in Requests
      BY <2>1, <2>4 DEF HandshakeReturns
    <3> QED
      BY <2>1, <2>4, <3>1 DEF HandshakeReturns, HandshakeEnds, Enter, Cleanup
  <2>5. CASE CleanupReturns(lock)
    BY <2>1, <2>5 DEF CleanupReturns
  <2>6. CASE CloseReturns(lock)
    BY <2>1, <2>6 DEF CloseReturns
  <2>7. CASE Interrupted(lock)
    BY <1>i, <2>1, <2>7
  <2> QED BY <2>2, <2>3, <2>4, <2>5, <2>6, <2>7 DEF Resumed
<1>10. CASE HandleSignal
  BY <1>10 DEF HandleSignal
<1>11. CASE HandleDisconnected
  <2>1. /\ UNCHANGED <<lock, future, worker>> /\ ~connected'
        /\ \A t \in Tasks : pc'[t] = pc[t] \/ (pc[t] \in Awaiting /\ pc'[t] = "failed")
    BY <1>11 DEF HandleDisconnected
  <2> QED BY <2>1
<1>12. CASE OnConnect \/ OnConnectFails \/ ReadSuback \/ OnSubscribe \/ OnSubscribeFails \/ Reconnect
  BY <1>12 DEF OnConnect, OnConnectFails, ReadSuback, OnSubscribe, OnSubscribeFails, Reconnect
<1>13. CASE OnDisconnect \/ Lose
  BY <1>13 DEF OnDisconnect, Lose, SessionEnds
<1>17. CASE ThreadExits
  BY <1>17 DEF ThreadExits, SessionReplaced
<1>14. CASE UNCHANGED vars
  BY <1>14 DEF vars
<1> QED
  BY <1>1, <1>2, <1>3, <1>4, <1>5, <1>6, <1>7, <1>8, <1>9, <1>10, <1>11, <1>12, <1>13, <1>14,
     <1>15, <1>16, <1>17
     DEF Next, Progress, Handle, Callback

-----------------------------------------------------------------------------
(* Nobody is about to be resumed in a queue.                               *)
Silent(q) == \A i \in DOMAIN q : q[i].what # "resume"

LEMMA NobodyResumes ==
  ASSUME TypeOK, ResumeInv,
         lock \notin Tasks \/ worker[lock] # "none" \/ (pc[lock] = "handshaking" /\ future = "pending")
  PROVE  Silent(queue)
BY DEF Silent, ResumeInv

(* The queue loses its head or nothing, and gains callbacks that resume    *)
(* nobody.                                                                 *)
LEMMA ResumeKept ==
  ASSUME TypeOK, ResumeInv, lock' = lock, NEW k \in {0, 1},
         queue' \in Seq(Event),
         \A i \in DOMAIN queue' :
           queue'[i].what = "resume" => i + k \in DOMAIN queue /\ queue'[i] = queue[i + k],
         lock \in Tasks => worker'[lock] = worker[lock],
         lock \in Tasks /\ pc'[lock] = "handshaking" =>
           future' # "pending" \/ (pc[lock] = "handshaking" /\ future = "pending")
  PROVE  ResumeInv'
<1>1. ASSUME NEW i \in DOMAIN queue', queue'[i].what = "resume"
      PROVE  /\ queue'[i].of = lock' /\ lock' \in Tasks
             /\ worker'[lock'] = "none"
             /\ pc'[lock'] = "handshaking" => future' # "pending"
  BY <1>1 DEF ResumeInv
<1>2. ASSUME NEW i \in DOMAIN queue', NEW m \in DOMAIN queue',
             queue'[i].what = "resume", queue'[m].what = "resume"
      PROVE  i = m
  <2>1. i \in Int /\ m \in Int
    BY DEF TypeOK
  <2>2. i + k \in DOMAIN queue /\ m + k \in DOMAIN queue
        /\ queue[i + k].what = "resume" /\ queue[m + k].what = "resume"
    BY <1>2
  <2>3. i + k = m + k
    BY <2>2 DEF ResumeInv
  <2> QED BY <2>1, <2>3
<1> QED BY <1>1, <1>2 DEF ResumeInv

LEMMA ResumeSilent ==
  ASSUME Silent(queue')
  PROVE  ResumeInv'
BY DEF ResumeInv, Silent

(* A task is resumed once for each await.                                  *)
LEMMA ResumeStep == TypeOK /\ LockInv /\ ResumeInv /\ [Next]_vars => ResumeInv'
<1> SUFFICES ASSUME TypeOK, LockInv, ResumeInv, [Next]_vars PROVE ResumeInv'
  OBVIOUS
<1>0. queue \in Seq(Event) /\ queue' \in Seq(Event)
  BY QueueType DEF TypeOK
<1> USE DEF loop, workers, transport, paho, history
(* Steps that leave the queue and the workers alone.                       *)
<1>a. ASSUME UNCHANGED <<lock, queue>>, lock \in Tasks => worker'[lock] = worker[lock],
             lock \in Tasks /\ pc'[lock] = "handshaking" =>
               future' # "pending" \/ (pc[lock] = "handshaking" /\ future = "pending")
      PROVE  ResumeInv'
  <2>1. \A i \in DOMAIN queue' :
          queue'[i].what = "resume" => i + 0 \in DOMAIN queue /\ queue'[i] = queue[i + 0]
    BY <1>0, <1>a
  <2> QED BY <1>0, <1>a, <2>1, ResumeKept
(* Steps that only append callbacks that resume nobody.                    *)
<1>b. ASSUME NEW events \in Seq(Event), Silent(events), queue' = queue \o events,
             UNCHANGED <<lock, worker, future>>,
             lock \in Tasks /\ pc'[lock] = "handshaking" => pc[lock] = "handshaking"
      PROVE  ResumeInv'
  <2>1. ASSUME NEW i \in DOMAIN queue', queue'[i].what = "resume"
        PROVE  i \in DOMAIN queue /\ queue'[i] = queue[i]
    BY <1>0, <1>b, <2>1, CallSilent DEF Silent
  <2>2. \A i \in DOMAIN queue' :
          queue'[i].what = "resume" => i + 0 \in DOMAIN queue /\ queue'[i] = queue[i + 0]
    BY <1>0, <2>1
  <2>3. lock \in Tasks /\ pc'[lock] = "handshaking" =>
          future' # "pending" \/ (pc[lock] = "handshaking" /\ future = "pending")
    BY <1>b
  <2> QED BY <1>0, <1>b, <2>2, <2>3, ResumeKept
(* Steps that append callbacks of which the last resumes the holder.       *)
<1>c. ASSUME NEW events \in Seq(Event), Len(events) > 0,
             \A i \in 1..(Len(events) - 1) : events[i].what # "resume",
             events[Len(events)].of = lock,
             Silent(queue), queue' = queue \o events,
             lock \in Tasks, lock' = lock, worker'[lock] = "none",
             pc'[lock] = "handshaking" => future' # "pending"
      PROVE  ResumeInv'
  <2> DEFINE n == Len(queue) + Len(events)
  <2>1. \A i \in DOMAIN queue : queue[i].what # "resume"
    BY <1>c DEF Silent
  <2>2. ASSUME NEW i \in DOMAIN queue', queue'[i].what = "resume"
        PROVE  i = n /\ queue'[i].of = lock
    BY <1>0, <1>c, <2>1, <2>2, CallResume
  <2> HIDE DEF n
  <2> QED BY <1>c, <2>2 DEF ResumeInv
<1>1. ASSUME NEW r \in Requests, Begin(r) \/ AcquireConnected(r) PROVE ResumeInv'
  BY <1>1, <1>a DEF Begin, AcquireConnected, Submit, TypeOK, LockInv, Attempting
<1>2. ASSUME NEW r \in Requests, Acquire(r) PROVE ResumeInv'
  <2>1. Silent(queue)
    BY <1>2, NobodyResumes DEF Acquire
  <2> QED BY <1>2, <2>1, ResumeSilent DEF Acquire, Silent
<1>3. ASSUME NEW r \in Requests, HandshakeTimeout(r) PROVE ResumeInv'
  <2>1. lock = r /\ worker[r] = "none"
    BY <1>3 DEF HandshakeTimeout, LockInv, Attempting, WorkerOf, TypeOK
  <2>2. CASE future = "pending"
    <3>1. Silent(queue)
      BY <1>3, <2>1, <2>2, NobodyResumes DEF HandshakeTimeout
    <3> DEFINE events == <<Resume(r, FALSE)>>
    <3>a. Resume(r, FALSE) \in Event /\ Resume(r, FALSE).of = r
      BY Events
    <3>b. events \in Seq(Event) /\ Len(events) = 1 /\ events[1].of = r
      BY <3>a, Sequence1
    <3>2. \A i \in 1..(Len(events) - 1) : events[i].what # "resume"
      BY <3>b
    <3>3. queue' = queue \o events /\ lock' = r /\ worker'[r] = "none" /\ future' # "pending"
      BY <1>3, <2>1, <2>2 DEF HandshakeTimeout, Call
    <3> HIDE DEF events
    <3>4. /\ events[Len(events)].of = lock /\ Len(events) > 0
          /\ lock \in Tasks /\ lock' = lock /\ worker'[lock] = "none" /\ future' # "pending"
      BY <2>1, <3>b, <3>3
    <3> QED BY <3>1, <3>b, <3>2, <3>3, <3>4, <1>c
  <2>3. CASE future # "pending"
    BY <1>3, <1>a, <2>3 DEF HandshakeTimeout
  <2> QED BY <2>2, <2>3
<1>4. ASSUME NEW t \in Tasks, Cancel(t) PROVE ResumeInv'
  <2>1. lock = t /\ worker[t] # "none"
    BY <1>4 DEF Cancel, LockInv, TypeOK, WorkerOf, Attempting, Closing
  <2>2. Silent(queue)
    BY <2>1, NobodyResumes
  <2> QED BY <1>4, <2>2, ResumeSilent DEF Cancel, Silent
<1>5. ASSUME NEW r \in Requests, Answer(r) \/ AnswerTimeout(r) \/ CancelLocking(r) PROVE ResumeInv'
  BY <1>5, <1>a DEF Answer, AnswerTimeout, CancelLocking, TypeOK
<1>6. ASSUME NEW r \in Requests, StrayConnects(r) PROVE ResumeInv'
  BY <1>6, <1>a DEF StrayConnects, StrayEnds, SessionReplaced
<1>16. ASSUME NEW t \in Tasks, StrayStops(t) PROVE ResumeInv'
  BY <1>16, <1>a DEF StrayStops, StrayEnds
<1>s. <<Signal(FALSE), Disconnected>> \in Seq(Event) /\ Silent(<<Signal(FALSE), Disconnected>>)
  <2>a. /\ Signal(FALSE) \in Event /\ Disconnected \in Event
        /\ Signal(FALSE).what # "resume" /\ Disconnected.what # "resume"
    BY Events
  <2> DEFINE events == <<Signal(FALSE), Disconnected>>
  <2>1. /\ events \in Seq(Event) /\ DOMAIN events = 1..2
        /\ events[1].what # "resume" /\ events[2].what # "resume"
    BY <2>a, Sequence2
  <2> HIDE DEF events
  <2>2. Silent(events)
    BY <2>1 DEF Silent
  <2> QED BY <2>1, <2>2 DEF events
<1>17. ASSUME NEW t \in Tasks, StrayDisconnects(t) PROVE ResumeInv'
  <2>1. queue' = queue \/ queue' = queue \o <<Signal(FALSE), Disconnected>>
    BY <1>0, <1>17, Says
  <2>2. /\ UNCHANGED <<lock, worker, future>>
        /\ lock \in Tasks /\ pc'[lock] = "handshaking" => pc[lock] = "handshaking"
    BY <1>17 DEF StrayDisconnects, StrayEnds, Disconnects, SessionEnds
  <2>3. CASE queue' = queue
    BY <1>a, <2>2, <2>3
  <2> QED BY <1>b, <1>s, <2>1, <2>2, <2>3
<1>7. ASSUME NEW c \in Closers, CloseBegin(c) PROVE ResumeInv'
  <2>1. Silent(queue)
    BY <1>7, NobodyResumes DEF CloseBegin
  <2> QED BY <1>7, <2>1, ResumeSilent DEF CloseBegin, Silent
<1>8. ASSUME NEW t \in Tasks, Work(t) PROVE ResumeInv'
  <2>1. /\ worker[t] # "none" /\ lock = t
        /\ pc[t] # "handshaking" /\ lock' = lock
        /\ pc'[t] = "handshaking" => pc[t] = "handshaking"
    BY <1>8 DEF Work, WorkerConnects, WorkerDisconnects, Disconnects, WorkerStops, WorkerJoins,
                LockInv, TypeOK, WorkerOf, Attempting, Closing, SessionEnds
  <2>2. Silent(queue)
    BY <2>1, NobodyResumes
  <2>3. ASSUME NEW ok \in BOOLEAN, queue' = queue \o <<Resume(t, ok)>>, worker'[t] = "none"
        PROVE  ResumeInv'
    <3> DEFINE events == <<Resume(t, ok)>>
    <3>a. Resume(t, ok) \in Event /\ Resume(t, ok).of = t
      BY Events
    <3>b. events \in Seq(Event) /\ Len(events) = 1 /\ events[1].of = t
      BY <3>a, Sequence1
    <3>1. \A i \in 1..(Len(events) - 1) : events[i].what # "resume"
      BY <3>b
    <3>2. queue' = queue \o events
      BY <2>3
    <3> HIDE DEF events
    <3> QED BY <2>1, <2>2, <2>3, <3>b, <3>1, <3>2, <1>c
  <2>4. ASSUME queue' = queue \o <<Signal(FALSE), Disconnected, Resume(t, TRUE)>>, worker'[t] = "none"
        PROVE  ResumeInv'
    <3> DEFINE events == <<Signal(FALSE), Disconnected, Resume(t, TRUE)>>
    <3>a. /\ Signal(FALSE) \in Event /\ Disconnected \in Event /\ Resume(t, TRUE) \in Event
          /\ Signal(FALSE).what = "signal" /\ Disconnected.what = "disconnected" /\ Resume(t, TRUE).of = t
      BY Events
    <3>1. /\ events \in Seq(Event) /\ Len(events) = 3 /\ events[3].of = t
          /\ events[1].what = "signal" /\ events[2].what = "disconnected"
      BY <3>a, Sequence3
    <3> HIDE DEF events
    <3>2. \A i \in 1..(Len(events) - 1) : events[i].what # "resume"
      BY <3>1
    <3>3. queue' = queue \o events
      BY <2>4 DEF events
    <3>4. /\ events[Len(events)].of = lock /\ Len(events) > 0
          /\ lock \in Tasks /\ lock' = lock /\ worker'[lock] = "none" /\ pc'[lock] # "handshaking"
      BY <2>1, <2>4, <3>1
    <3> QED BY <2>2, <3>1, <3>2, <3>3, <3>4, <1>c
  <2>5. CASE WorkerConnects(t)
    <3>1. \E ok \in BOOLEAN : queue' = queue \o <<Resume(t, ok)>>
      BY <2>5 DEF WorkerConnects, Call
    <3>2. worker'[t] = "none"
      BY <2>5 DEF WorkerConnects, TypeOK
    <3> QED BY <2>3, <3>1, <3>2
  <2>6. CASE WorkerDisconnects(t)
    <3>1. \/ queue' = queue \o <<Resume(t, TRUE)>>
          \/ queue' = queue \o <<Signal(FALSE), Disconnected, Resume(t, TRUE)>>
      BY <1>0, <2>6, Says
    <3>2. worker'[t] = "none"
      BY <2>6 DEF WorkerDisconnects, TypeOK
    <3> QED BY <2>3, <2>4, <3>1, <3>2
  <2>7. CASE WorkerStops(t)
    <3>1. CASE thread
      BY <2>2, <2>7, <3>1, ResumeSilent DEF WorkerStops, Silent
    <3>2. CASE ~thread
      <4>1. queue' = queue \o <<Resume(t, TRUE)>>
        BY <2>7, <3>2 DEF WorkerStops, Call
      <4>2. worker'[t] = "none"
        BY <2>7, <3>2 DEF WorkerStops, TypeOK
      <4> QED BY <2>3, <4>1, <4>2
    <3> QED BY <3>1, <3>2
  <2>8. CASE WorkerJoins(t)
    <3>1. queue' = queue \o <<Resume(t, TRUE)>>
      BY <2>8 DEF WorkerJoins, Call
    <3>2. worker'[t] = "none"
      BY <2>8 DEF WorkerJoins, TypeOK
    <3> QED BY <2>3, <3>1, <3>2
  <2> QED BY <1>8, <2>5, <2>6, <2>7, <2>8 DEF Work
<1>9. CASE HandleResume
  BY <1>9, HeadResumes, ResumeSilent DEF Silent
<1>10. CASE HandleSignal \/ HandleDisconnected
  <2>1. queue # <<>>
    BY <1>10 DEF HandleSignal, HandleDisconnected
  <2>2. CASE HandleSignal /\ future = "pending" /\ pc[lock] = "handshaking"
    <3>1. lock \in Tasks /\ worker[lock] = "none"
      BY <2>2 DEF LockInv, TypeOK, WorkerOf
    <3>2. Silent(queue)
      BY <2>2, NobodyResumes
    <3>3. Tail(queue) \in Seq(Event) /\ Silent(Tail(queue))
      BY <1>0, <2>1, <3>2, TailType DEF Silent
    <3> DEFINE n == Len(Tail(queue)) + 1
    <3>4. queue' = Append(Tail(queue), Resume(lock, TRUE)) /\ lock' = lock /\ worker' = worker /\ future' # "pending"
      BY <2>2 DEF HandleSignal
    <3>5. Resume(lock, TRUE).of = lock /\ Resume(lock, TRUE) \in Event
      BY <3>1, Events
    <3>6. ASSUME NEW i \in DOMAIN queue', queue'[i].what = "resume"
          PROVE  i = n /\ queue'[i].of = lock
      <4> DEFINE q == Tail(queue)
                 e == Resume(lock, TRUE)
      <4>1. q \in Seq(Event) /\ Silent(q) /\ queue' = Append(q, e) /\ n = Len(q) + 1 /\ e \in Event
        BY <3>3, <3>4, <3>5
      <4> HIDE DEF q, n, e
      <4>a. /\ Len(q) \in Nat /\ DOMAIN q = 1..Len(q)
            /\ DOMAIN Append(q, e) = 1..(Len(q) + 1)
            /\ \A m \in 1..Len(q) : Append(q, e)[m] = q[m]
            /\ Append(q, e)[Len(q) + 1] = e
        BY <4>1, AppendType
      <4>2. /\ i \in 1..n /\ Len(q) \in Nat /\ DOMAIN q = 1..Len(q)
            /\ \A m \in 1..Len(q) : queue'[m] = q[m]
            /\ queue'[n] = Resume(lock, TRUE)
        BY <3>6, <4>1, <4>a, Zenon DEF e
      <4>3. i \notin 1..Len(q)
        BY <3>6, <4>1, <4>2 DEF Silent
      <4>4. i = n
        BY <4>1, <4>2, <4>3
      <4> QED BY <3>5, <4>2, <4>4
    <3> HIDE DEF n
    <3> QED BY <3>1, <3>4, <3>6 DEF ResumeInv
  <2>3. CASE ~(HandleSignal /\ future = "pending" /\ pc[lock] = "handshaking")
    <3>1. queue' = Tail(queue) /\ lock' = lock /\ worker' = worker
      BY <1>10, <2>3 DEF HandleSignal, HandleDisconnected
    <3>2. \A i \in DOMAIN queue' :
            queue'[i].what = "resume" => i + 1 \in DOMAIN queue /\ queue'[i] = queue[i + 1]
      BY <1>0, <2>1, <3>1, TailType
    <3>3. lock \in Tasks /\ pc'[lock] = "handshaking" =>
            future' # "pending" \/ (pc[lock] = "handshaking" /\ future = "pending")
      BY <1>10, <2>3 DEF HandleSignal, HandleDisconnected, TypeOK
    <3> QED BY <1>0, <3>1, <3>2, <3>3, ResumeKept
  <2> QED BY <2>2, <2>3
<1>11. CASE OnConnect \/ ReadSuback \/ Reconnect \/ ThreadExits
  BY <1>11, <1>a DEF OnConnect, ReadSuback, Reconnect, ThreadExits, SessionReplaced
<1>12. CASE OnConnectFails \/ OnSubscribe \/ OnSubscribeFails
  <2>1. \/ queue' = queue \/ \E ok \in BOOLEAN : queue' = queue \o <<Signal(ok)>>
    BY <1>12 DEF OnConnectFails, OnSubscribe, OnSubscribeFails, Call
  <2>2. UNCHANGED <<pc, lock, worker, future>>
    BY <1>12 DEF OnConnectFails, OnSubscribe, OnSubscribeFails
  <2>3. ASSUME NEW ok \in BOOLEAN PROVE <<Signal(ok)>> \in Seq(Event) /\ Silent(<<Signal(ok)>>)
    BY Events DEF Silent
  <2>4. CASE queue' = queue
    BY <1>a, <2>2, <2>4
  <2> QED BY <1>b, <2>1, <2>2, <2>3, <2>4
<1>13. CASE OnDisconnect
  <2>2. queue' = queue \o <<Signal(FALSE), Disconnected>> /\ UNCHANGED <<lock, worker, future>>
        /\ (lock \in Tasks /\ pc'[lock] = "handshaking" => pc[lock] = "handshaking")
    BY <1>13 DEF OnDisconnect, Call, SessionEnds
  <2> QED BY <1>b, <1>s, <2>2
<1>14. CASE Lose
  BY <1>14, <1>a DEF Lose, SessionEnds
<1>15. CASE UNCHANGED vars
  BY <1>15, <1>a DEF vars
<1> QED
  BY <1>1, <1>2, <1>3, <1>4, <1>5, <1>6, <1>7, <1>8, <1>9, <1>10, <1>11, <1>12, <1>13, <1>14, <1>15,
     <1>16, <1>17
     DEF Next, Progress, Handle, Callback

-----------------------------------------------------------------------------
(* What the lock says of who is where.                                     *)
LEMMA Holders ==
  ASSUME TypeOK, LockInv
  PROVE  /\ \A t \in Tasks : lock = t <=> pc[t] \in Attempting \cup Closing
         /\ \A t \in Tasks : worker[t] # "none" => lock = t /\ pc[t] \in WorkerOf[worker[t]]
         /\ lock \in Requests => ~connected
         /\ \A c \in Closers : pc[c] \notin Attempting
         /\ \A r \in Requests : pc[r] \notin Closing
<1>1. /\ \A t \in Tasks : lock = t <=> pc[t] \in Attempting \cup Closing
      /\ \A t \in Tasks : worker[t] # "none" => pc[t] \in WorkerOf[worker[t]]
      /\ lock \in Requests => ~connected
      /\ \A t \in Tasks : pc[t] \in Closing => t \in Closers
      /\ \A t \in Tasks : pc[t] \in Attempting => t \in Requests
  BY DEF LockInv
<1>2. \A t \in Tasks : worker[t] \in {"none", "connect", "disconnect", "stop", "join"}
  BY DEF TypeOK
<1>3. \A t \in Tasks : worker[t] # "none" => pc[t] \in Attempting \cup Closing
  BY <1>1, <1>2 DEF WorkerOf, Attempting, Closing
<1>4. \A c \in Closers : pc[c] \notin Attempting
  BY <1>1
<1>5. \A r \in Requests : pc[r] \notin Closing
  BY <1>1
<1> QED BY <1>1, <1>3, <1>4, <1>5

(* Unless a stray call or a cancelled close disturbs it, only the holder   *)
(* of the lock tells the network thread to stop, and it holds the lock     *)
(* until the gateway no longer counts on the thread.                       *)
LEMMA ThreadStep == TypeOK /\ LockInv /\ ResumeInv /\ ThreadInv /\ [Next]_vars => ThreadInv'
<1> SUFFICES ASSUME TypeOK, LockInv, ResumeInv, ThreadInv, [Next]_vars, ~disturbed' PROVE ThreadInv'
  BY DEF ThreadInv
<1> USE DEF TypeOK, ThreadInv, Unstopped, loop, workers, transport, paho, history, Awaiting,
            Attempting, Closing, Submit
<1>0. /\ \A t \in Tasks : lock = t <=> pc[t] \in Attempting \cup Closing
      /\ \A t \in Tasks : worker[t] # "none" => lock = t /\ pc[t] \in WorkerOf[worker[t]]
      /\ lock \in Requests => ~connected
      /\ \A c \in Closers : pc[c] \notin Attempting
      /\ \A r \in Requests : pc[r] \notin Closing
  BY Holders
<1>1. ASSUME NEW r \in Requests, Begin(r) \/ AcquireConnected(r) PROVE ThreadInv'
  BY <1>1 DEF Begin, AcquireConnected
<1>2. ASSUME NEW r \in Requests, Acquire(r) PROVE ThreadInv'
  <2>1. /\ \A t \in Tasks : pc[t] \notin Attempting \cup Closing
        /\ pc' = [pc EXCEPT ![r] = "connecting"] /\ worker' = [worker EXCEPT ![r] = "connect"]
        /\ ~connected'
    BY <1>0, <1>2 DEF Acquire
  <2> QED BY <2>1
<1>3. ASSUME NEW r \in Requests, HandshakeTimeout(r) PROVE ThreadInv'
  BY <1>3 DEF HandshakeTimeout
(* The holder of the lock is interrupted.                                  *)
<1>i. ASSUME NEW t \in Tasks, lock = t, Interrupted(t), UNCHANGED <<thread, terminate, closing>>
      PROVE  ThreadInv'
  <2>1. t \in Requests
    <3>1. CASE pc[t] = "closing"
      BY <1>i, <3>1 DEF Interrupted
    <3>2. CASE pc[t] # "closing"
      BY <1>0, <1>i, <3>2 DEF Interrupted
    <3> QED BY <3>1, <3>2
  <2>2. /\ \A q \in Tasks : q # t => pc[q] \notin Attempting \cup Closing
        /\ ~connected /\ UNCHANGED connected
    BY <1>0, <1>i, <2>1 DEF Interrupted, Cleanup
  <2>3. /\ pc'[t] \in {"dropping", "failed"} /\ \A q \in Tasks : q # t => pc'[q] = pc[q]
    BY <1>0, <1>i, <2>1 DEF Interrupted, Cleanup
  <2> QED BY <2>1, <2>2, <2>3
<1>4. ASSUME NEW t \in Tasks, Cancel(t) PROVE ThreadInv'
  BY <1>0, <1>4, <1>i DEF Cancel
<1>5. ASSUME NEW r \in Requests, Answer(r) \/ AnswerTimeout(r) \/ CancelLocking(r) PROVE ThreadInv'
  BY <1>5 DEF Answer, AnswerTimeout, CancelLocking
<1>6. ASSUME NEW r \in Requests, StrayConnects(r) PROVE ThreadInv'
  <2>1. /\ UNCHANGED <<lock, connected, worker, thread, terminate, disturbed>> /\ ~closing'
        /\ lock \notin Closers
        /\ \A q \in Tasks : pc'[q] \in Attempting \cup Closing => pc'[q] = pc[q]
    BY <1>6 DEF StrayConnects, StrayEnds, Reopen, SessionReplaced
  <2> QED BY <2>1
<1>16. ASSUME NEW t \in Tasks, StrayDisconnects(t) \/ StrayStops(t) PROVE ThreadInv'
  BY <1>16 DEF StrayDisconnects, StrayStops
<1>7. ASSUME NEW c \in Closers, CloseBegin(c) PROVE ThreadInv'
  BY <1>0, <1>7 DEF CloseBegin
<1>8. ASSUME NEW t \in Tasks, Work(t) PROVE ThreadInv'
  <2>1. lock = t /\ worker[t] # "none" /\ pc[t] \in WorkerOf[worker[t]] /\ UNCHANGED disturbed
    BY <1>0, <1>8 DEF Work, WorkerConnects, WorkerDisconnects, WorkerStops, WorkerJoins
  <2>2. CASE WorkerConnects(t)
    <3>1. /\ ~closing' /\ UNCHANGED <<lock, connected>>
          /\ \A q \in Tasks : pc'[q] \in Attempting \cup Closing => pc'[q] = pc[q]
      BY <2>2 DEF WorkerConnects, Reopen, SessionEnds
    <3>2. pc[t] = "connecting" /\ t \in Requests /\ ~connected
      BY <1>0, <2>1, <2>2 DEF WorkerConnects, WorkerOf
    <3>3. \A q \in Tasks : q # t => pc[q] \notin Attempting \cup Closing
      BY <1>0, <2>1
    <3> QED BY <2>1, <3>1, <3>2, <3>3
  <2>3. ASSUME pc[t] \notin {"connecting", "handshaking"}
        PROVE  /\ \A r \in Requests : pc[r] \notin {"connecting", "handshaking"}
               /\ connected => lock \in Closers
    BY <1>0, <2>1, <2>3
  <2>4. CASE WorkerDisconnects(t)
    <3>1. pc[t] \in {"dropping", "undoing", "closing"}
      BY <2>1, <2>4 DEF WorkerDisconnects, WorkerOf
    <3>2. \A q \in Tasks : pc'[q] \in Attempting \cup Closing => pc'[q] = pc[q]
      BY <2>4 DEF WorkerDisconnects, Disconnects, SessionEnds
    <3>3. closing' /\ UNCHANGED <<lock, connected>> /\ worker' = [worker EXCEPT ![t] = "none"]
      BY <2>4 DEF WorkerDisconnects, Disconnects
    <3> QED BY <2>1, <2>3, <3>1, <3>2, <3>3
  <2>5. CASE WorkerStops(t) \/ WorkerJoins(t)
    <3>1. pc[t] \in {"stopping", "joining", "leaving"} /\ worker[t] # "disconnect"
      BY <2>1, <2>5 DEF WorkerStops, WorkerJoins, WorkerOf
    <3>2. UNCHANGED <<pc, lock, connected, closing>> /\ worker'[t] # "disconnect"
      BY <2>5 DEF WorkerStops, WorkerJoins
    <3> QED BY <2>1, <2>3, <3>1, <3>2
  <2> QED BY <1>8, <2>2, <2>4, <2>5 DEF Work
<1>9. CASE HandleResume
  <2>1. lock \in Tasks /\ worker[lock] = "none" /\ \E ok \in BOOLEAN : Resumed(lock, ok)
    BY <1>9, HeadResumes
  <2>2. PICK ok \in BOOLEAN : Resumed(lock, ok)
    BY <2>1
  <2>3. UNCHANGED closing /\ \A q \in Tasks : q # lock => pc[q] \notin Attempting \cup Closing
    BY <1>0, <1>9 DEF HandleResume
  <2>4. CASE ConnectReturns(lock, ok) /\ UNCHANGED disturbed
    <3>1. lock \in Requests /\ pc[lock] = "connecting" /\ ~closing /\ ~connected
      BY <1>0, <2>1, <2>4 DEF ConnectReturns
    <3>2. CASE Cleanup(lock, "dropping")
      BY <2>3, <3>1, <3>2 DEF Cleanup
    <3>3. CASE ok /\ ~thread
      <4>1. Unstopped'
        BY <2>3, <2>4, <3>1, <3>3 DEF ConnectReturns
      <4>2. /\ \A q \in Tasks : q # lock => pc'[q] = pc[q]
            /\ pc'[lock] # "leaving"
            /\ connected' => lock' = Nobody
        BY <2>1, <2>4, <3>1, <3>3 DEF ConnectReturns, HandshakeEnds, Enter, Cleanup
      <4> QED BY <2>3, <3>1, <4>1, <4>2
    <3> QED BY <2>4, <3>2, <3>3 DEF ConnectReturns
  <2>5. CASE HandshakeReturns(lock) /\ UNCHANGED disturbed
    <3>1. lock \in Requests /\ Unstopped /\ Unstopped' /\ ~connected
      BY <1>0, <2>1, <2>3, <2>5 DEF HandshakeReturns
    <3>2. /\ \A q \in Tasks : q # lock => pc'[q] = pc[q]
          /\ pc'[lock] # "leaving"
          /\ connected' => lock' = Nobody
      BY <2>1, <2>5, <3>1 DEF HandshakeReturns, HandshakeEnds, Enter, Cleanup
    <3> QED BY <2>3, <3>1, <3>2
  <2>6. CASE CleanupReturns(lock) /\ UNCHANGED disturbed
    <3>1. lock \in Requests /\ ~connected
      BY <1>0, <2>1, <2>6 DEF CleanupReturns
    <3> QED BY <2>3, <2>6, <3>1 DEF CleanupReturns
  <2>7. CASE CloseReturns(lock) /\ UNCHANGED disturbed
    <3>1. lock \in Closers /\ pc[lock] # "leaving"
      BY <1>0, <2>1, <2>7 DEF CloseReturns
    <3>2. CASE pc[lock] = "closing"
      BY <2>1, <2>3, <2>7, <3>1, <3>2 DEF CloseReturns
    <3>3. CASE pc[lock] = "joining"
      BY <2>1, <2>3, <2>7, <3>1, <3>3 DEF CloseReturns
    <3> QED BY <2>7, <3>1, <3>2, <3>3 DEF CloseReturns
  <2>8. CASE Interrupted(lock) /\ UNCHANGED <<thread, terminate>>
    BY <1>i, <2>1, <2>3, <2>8
  <2> QED BY <2>2, <2>4, <2>5, <2>6, <2>7, <2>8 DEF Resumed
<1>10. CASE HandleSignal
  BY <1>10 DEF HandleSignal
<1>11. CASE HandleDisconnected
  BY <1>11 DEF HandleDisconnected
<1>12. CASE OnConnect \/ OnConnectFails \/ ReadSuback \/ OnSubscribe \/ OnSubscribeFails \/ Reconnect
  BY <1>12 DEF OnConnect, OnConnectFails, ReadSuback, OnSubscribe, OnSubscribeFails, Reconnect
<1>13. CASE OnDisconnect \/ Lose
  BY <1>13 DEF OnDisconnect, Lose, SessionEnds
<1>14. CASE ThreadExits
  <2>1. UNCHANGED <<pc, lock, connected, worker, closing, disturbed>> /\ ~Unstopped
    BY <1>14 DEF ThreadExits
  <2> QED BY <2>1
<1>15. CASE UNCHANGED vars
  BY <1>15 DEF vars
<1> QED
  BY <1>1, <1>2, <1>3, <1>4, <1>5, <1>6, <1>7, <1>8, <1>9, <1>10, <1>11, <1>12, <1>13, <1>14, <1>15,
     <1>16
     DEF Next, Progress, Handle, Callback

(* A close goes on when the network thread is gone, and no attempt makes a  *)
(* new one before it gives the lock back.                                  *)
LEMMA StopStep == TypeOK /\ LockInv /\ ResumeInv /\ StopInv /\ [Next]_vars => StopInv'
<1> SUFFICES ASSUME TypeOK, LockInv, ResumeInv, StopInv, [Next]_vars PROVE StopInv'
  OBVIOUS
<1> USE DEF TypeOK, StopInv, loop, workers, transport, paho, history, Attempting, Closing, Awaiting,
            Submit
<1>0. /\ \A t \in Tasks : lock = t <=> pc[t] \in Attempting \cup Closing
      /\ \A t \in Tasks : worker[t] # "none" => lock = t /\ pc[t] \in WorkerOf[worker[t]]
      /\ \A c \in Closers : pc[c] \notin Attempting
      /\ \A r \in Requests : pc[r] \notin Closing
  BY Holders
(* Steps that neither start a thread nor let a close begin to wait.        *)
<1>k. ASSUME thread' => thread,
             \A c \in Closers : pc'[c] = "joining" => pc[c] = "joining" /\ worker'[c] = worker[c]
      PROVE  StopInv'
  BY <1>k
<1>1. ASSUME NEW r \in Requests, Begin(r) \/ AcquireConnected(r) PROVE StopInv'
  BY <1>1 DEF Begin, AcquireConnected
<1>2. ASSUME NEW r \in Requests, Acquire(r) PROVE StopInv'
  BY <1>2 DEF Acquire
<1>3. ASSUME NEW r \in Requests, HandshakeTimeout(r) PROVE StopInv'
  BY <1>3 DEF HandshakeTimeout
<1>i. ASSUME NEW t \in Tasks, Interrupted(t)
      PROVE  \A c \in Closers : pc'[c] = "joining" => pc[c] = "joining" /\ worker'[c] = worker[c]
  BY <1>i DEF Interrupted, Cleanup
<1>4. ASSUME NEW t \in Tasks, Cancel(t) PROVE StopInv'
  BY <1>4, <1>i, <1>k DEF Cancel
<1>5. ASSUME NEW r \in Requests, Answer(r) \/ AnswerTimeout(r) \/ CancelLocking(r) PROVE StopInv'
  BY <1>5 DEF Answer, AnswerTimeout, CancelLocking
<1>6. ASSUME NEW r \in Requests, StrayConnects(r) PROVE StopInv'
  BY <1>6 DEF StrayConnects, StrayEnds, Reopen, SessionReplaced
<1>16. ASSUME NEW t \in Tasks, StrayDisconnects(t) \/ StrayStops(t) PROVE StopInv'
  BY <1>16, <1>k DEF StrayDisconnects, Disconnects, SessionEnds, StrayStops, StrayEnds
<1>7. ASSUME NEW c \in Closers, CloseBegin(c) PROVE StopInv'
  BY <1>7 DEF CloseBegin
<1>8. ASSUME NEW t \in Tasks, Work(t) PROVE StopInv'
  <2>1. lock = t /\ worker[t] # "none" /\ pc[t] \in WorkerOf[worker[t]]
    BY <1>0, <1>8 DEF Work, WorkerConnects, WorkerDisconnects, WorkerStops, WorkerJoins
  <2>2. CASE WorkerConnects(t)
    BY <2>1, <2>2 DEF WorkerConnects, Reopen, SessionEnds, WorkerOf
  <2>3. CASE WorkerDisconnects(t)
    <3>1. /\ pc[t] # "joining" /\ worker' = [worker EXCEPT ![t] = "none"] /\ UNCHANGED thread
          /\ \A c \in Tasks : pc'[c] = "joining" => pc[c] = "joining"
      BY <2>1, <2>3 DEF WorkerDisconnects, Disconnects, SessionEnds, WorkerOf
    <3> QED BY <3>1, <1>k
  <2>4. CASE WorkerStops(t)
    BY <2>1, <2>4 DEF WorkerStops
  <2>5. CASE WorkerJoins(t)
    BY <2>1, <2>5 DEF WorkerJoins
  <2> QED BY <1>8, <2>2, <2>3, <2>4, <2>5 DEF Work
<1>9. CASE HandleResume
  <2>1. lock \in Tasks /\ worker[lock] = "none" /\ \E ok \in BOOLEAN : Resumed(lock, ok)
    BY <1>9, HeadResumes
  <2>2. PICK ok \in BOOLEAN : Resumed(lock, ok)
    BY <2>1
  <2>3. CASE ConnectReturns(lock, ok) \/ HandshakeReturns(lock) \/ CleanupReturns(lock)
    <3>1. lock \in Requests
      BY <1>0, <2>1, <2>3 DEF ConnectReturns, HandshakeReturns, CleanupReturns
    <3>2. \A c \in Closers : pc[c] # "joining" /\ pc'[c] = pc[c]
      BY <1>0, <2>3, <3>1
         DEF ConnectReturns, HandshakeReturns, HandshakeEnds, Enter, Cleanup, CleanupReturns
    <3> QED BY <3>2
  <2>4. CASE CloseReturns(lock)
    BY <2>1, <2>4 DEF CloseReturns
  <2>5. CASE Interrupted(lock) /\ UNCHANGED <<thread, terminate>>
    BY <1>i, <1>k, <2>1, <2>5
  <2> QED BY <2>2, <2>3, <2>4, <2>5 DEF Resumed
<1>10. CASE HandleSignal
  BY <1>10 DEF HandleSignal
<1>11. CASE HandleDisconnected
  BY <1>11 DEF HandleDisconnected
<1>12. CASE OnConnect \/ OnConnectFails \/ ReadSuback \/ OnSubscribe \/ OnSubscribeFails \/ Reconnect
  BY <1>12 DEF OnConnect, OnConnectFails, ReadSuback, OnSubscribe, OnSubscribeFails, Reconnect
<1>13. CASE OnDisconnect \/ Lose
  BY <1>13 DEF OnDisconnect, Lose, SessionEnds
<1>14. CASE ThreadExits
  BY <1>14 DEF ThreadExits
<1>15. CASE UNCHANGED vars
  BY <1>15 DEF vars
<1> QED
  BY <1>1, <1>2, <1>3, <1>4, <1>5, <1>6, <1>7, <1>8, <1>9, <1>10, <1>11, <1>12, <1>13, <1>14, <1>15,
     <1>16
     DEF Next, Progress, Handle, Callback

(* The transport's flags, its session and its thread.                      *)
LEMMA ReadyStep ==
  TypeOK /\ LockInv /\ ResumeInv /\ ThreadInv /\ ReadyInv /\ [Next]_vars => ReadyInv'
<1> SUFFICES ASSUME TypeOK, LockInv, ResumeInv, ThreadInv, ReadyInv, [Next]_vars
             PROVE  ReadyInv'
  OBVIOUS
<1> USE DEF TypeOK, ReadyInv, loop, workers, transport, paho, history, Submit
(* Steps that do not make the transport ready nor touch its session.       *)
<1>k. ASSUME UNCHANGED <<subscribing, thread, link, suback, misled>>, ready' => ready,
             connected' /\ ~disturbed' => connected /\ ~disturbed
      PROVE  ReadyInv'
  BY <1>k
<1>1. ASSUME NEW r \in Requests, Begin(r) \/ AcquireConnected(r) PROVE ReadyInv'
  BY <1>1 DEF Begin, AcquireConnected
<1>2. ASSUME NEW r \in Requests, Acquire(r) PROVE ReadyInv'
  BY <1>2 DEF Acquire
<1>3. ASSUME NEW r \in Requests, HandshakeTimeout(r) PROVE ReadyInv'
  BY <1>3 DEF HandshakeTimeout
<1>i. ASSUME NEW t \in Tasks, Interrupted(t)
      PROVE  (ready' => ready) /\ connected' = connected /\ (~disturbed' => ~disturbed)
  BY <1>i DEF Interrupted, Cleanup
<1>4. ASSUME NEW t \in Tasks, Cancel(t) PROVE ReadyInv'
  BY <1>4, <1>i, <1>k DEF Cancel
<1>5. ASSUME NEW r \in Requests, Answer(r) \/ AnswerTimeout(r) \/ CancelLocking(r) PROVE ReadyInv'
  BY <1>5 DEF Answer, AnswerTimeout, CancelLocking
<1>6. ASSUME NEW r \in Requests, StrayConnects(r) PROVE ReadyInv'
  BY <1>6 DEF StrayConnects, Reopen, SessionReplaced
<1>d. ASSUME NEW returns, Disconnects(returns), ~disturbed' => ~disturbed
      PROVE  ReadyInv'
  <2>1. CASE thread \/ link = "down"
    BY <1>d, <2>1 DEF Disconnects
  <2>2. CASE ~(thread \/ link = "down")
    BY <1>d, <2>2 DEF Disconnects
  <2> QED BY <2>1, <2>2
<1>20. ASSUME NEW t \in Tasks, StrayDisconnects(t) PROVE ReadyInv'
  BY <1>20, <1>d DEF StrayDisconnects
<1>21. ASSUME NEW t \in Tasks, StrayStops(t) PROVE ReadyInv'
  BY <1>21, <1>k DEF StrayStops
<1>7. ASSUME NEW c \in Closers, CloseBegin(c) PROVE ReadyInv'
  BY <1>7 DEF CloseBegin
<1>8. ASSUME NEW t \in Tasks, Work(t) PROVE ReadyInv'
  <2>2. CASE WorkerConnects(t)
    BY <2>2 DEF WorkerConnects, Reopen
  <2>3. CASE WorkerDisconnects(t)
    BY <1>d, <2>3 DEF WorkerDisconnects
  <2>4. CASE WorkerStops(t) \/ WorkerJoins(t)
    BY <2>4, <1>k DEF WorkerStops, WorkerJoins
  <2> QED BY <1>8, <2>2, <2>3, <2>4 DEF Work
<1>9. CASE HandleResume
  <2>1. lock \in Tasks /\ worker[lock] = "none" /\ \E ok \in BOOLEAN : Resumed(lock, ok)
    BY <1>9, HeadResumes
  <2>2. PICK ok \in BOOLEAN : Resumed(lock, ok)
    BY <2>1
  <2>3. UNCHANGED <<suback, subscribing, link, misled>>
    BY <1>9 DEF HandleResume
  <2>4. CASE ConnectReturns(lock, ok) /\ UNCHANGED disturbed
    <3>1. thread' = (thread \/ ok)
      BY <2>4 DEF ConnectReturns
    <3>2. CASE Cleanup(lock, "dropping")
      BY <2>2, <2>3, <3>1, <3>2 DEF Cleanup
    <3>3. CASE ok /\ ~thread
      <4>1. ready' => ready
        BY <2>4 DEF ConnectReturns, HandshakeEnds, Enter, Cleanup
      <4> QED BY <2>3, <3>1, <3>3, <4>1
    <3> QED BY <2>4, <3>2, <3>3 DEF ConnectReturns
  <2>5. CASE HandshakeReturns(lock) /\ UNCHANGED disturbed
    <3>1. lock \in Requests /\ (~disturbed => thread) /\ UNCHANGED thread
      BY <2>1, <2>5, Holders DEF HandshakeReturns, ThreadInv, Unstopped, Attempting
    <3>2. ready' => ready
      BY <2>5 DEF HandshakeReturns, HandshakeEnds, Enter, Cleanup
    <3> QED BY <2>3, <2>5, <3>1, <3>2
  <2>6. CASE (CleanupReturns(lock) \/ CloseReturns(lock)) /\ UNCHANGED disturbed
    <3>1. UNCHANGED <<ready, thread>> /\ (connected' => connected)
      BY <2>6 DEF CleanupReturns, CloseReturns
    <3> QED BY <1>k, <2>3, <2>6, <3>1
  <2>7. CASE Interrupted(lock) /\ UNCHANGED <<thread, terminate>>
    BY <1>i, <1>k, <2>1, <2>3, <2>7
  <2> QED BY <2>2, <2>4, <2>5, <2>6, <2>7 DEF Resumed
<1>10. CASE HandleSignal
  BY <1>10 DEF HandleSignal
<1>11. CASE HandleDisconnected
  BY <1>11 DEF HandleDisconnected
<1>12. CASE OnConnect \/ OnConnectFails
  BY <1>12 DEF OnConnect, OnConnectFails, Idle
<1>13. CASE ReadSuback \/ Reconnect
  BY <1>13 DEF ReadSuback, Reconnect, Idle
<1>14. CASE OnSubscribe
  BY <1>14 DEF OnSubscribe
<1>15. CASE OnSubscribeFails
  BY <1>15 DEF OnSubscribeFails, Idle
<1>16. CASE OnDisconnect
  BY <1>16 DEF OnDisconnect, Idle
<1>17. CASE Lose
  BY <1>17 DEF Lose, SessionEnds
<1>18. CASE ThreadExits
  <2>1. ASSUME ready, ~misled, ~disturbed, connected PROVE FALSE
    <3>1. link \in {"subscribed", "lost"}
      BY <2>1
    <3>2. thread /\ terminate /\ ~closing
      BY <1>18, <3>1 DEF ThreadExits, Idle
    <3> QED BY <2>1, <3>2 DEF ThreadInv, Unstopped
  <2>2. UNCHANGED <<connected, ready, subscribing, link, suback, misled, disturbed>> /\ ~suback
    BY <1>18 DEF ThreadExits, Idle
  <2> QED BY <2>1, <2>2
<1>19. CASE UNCHANGED vars
  BY <1>19 DEF vars
<1> QED
  BY <1>1, <1>2, <1>3, <1>4, <1>5, <1>6, <1>7, <1>8, <1>9, <1>10, <1>11, <1>12, <1>13, <1>14, <1>15,
     <1>16, <1>17, <1>18, <1>19, <1>20, <1>21
     DEF Next, Progress, Handle, Callback

-----------------------------------------------------------------------------
(* What is in the queue.                                                   *)
LEMMA QueueMembers ==
  ASSUME NEW q \in Seq(Event), NEW events \in Seq(Event), NEW e \in Event
  PROVE  /\ ToSet(q) \cup ToSet(events) \subseteq ToSet(q \o events)
         /\ ToSet(q) \cup {e} \subseteq ToSet(Append(q, e))
         /\ q # <<>> => ToSet(q) \ {Head(q)} \subseteq ToSet(Tail(q))
<1>1. ToSet(q) \cup ToSet(events) \subseteq ToSet(q \o events)
  <2>1. ASSUME NEW i \in DOMAIN q PROVE q[i] \in ToSet(q \o events)
    <3>1. i \in DOMAIN (q \o events) /\ (q \o events)[i] = q[i]
      BY CallType
    <3> QED BY <3>1 DEF ToSet
  <2>2. ASSUME NEW i \in DOMAIN events PROVE events[i] \in ToSet(q \o events)
    <3>1. /\ Len(q) \in Nat /\ Len(events) \in Nat /\ DOMAIN events = 1..Len(events)
          /\ (q \o events)[Len(q) + i] = events[i]
      BY CallType
    <3>2. Len(q) + i \in DOMAIN (q \o events)
      BY <3>1, CallType
    <3> QED BY <3>1, <3>2 DEF ToSet
  <2> QED BY <2>1, <2>2 DEF ToSet
<1>2. ToSet(q) \cup {e} \subseteq ToSet(Append(q, e))
  <2>1. /\ DOMAIN q = 1..Len(q) /\ Len(q) \in Nat
        /\ DOMAIN Append(q, e) = 1..(Len(q) + 1)
        /\ \A i \in 1..Len(q) : Append(q, e)[i] = q[i]
        /\ Append(q, e)[Len(q) + 1] = e
    BY AppendType
  <2>2. \A i \in DOMAIN q : i \in DOMAIN Append(q, e) /\ Append(q, e)[i] = q[i]
    BY <2>1
  <2>3. Len(q) + 1 \in DOMAIN Append(q, e)
    BY <2>1
  <2> QED BY <2>1, <2>2, <2>3 DEF ToSet
<1>3. ASSUME q # <<>>, NEW i \in DOMAIN q, q[i] # Head(q) PROVE q[i] \in ToSet(Tail(q))
  <2>1. /\ Head(q) = q[1] /\ DOMAIN q = 1..Len(q) /\ Len(q) \in Nat
        /\ DOMAIN Tail(q) = 1..(Len(q) - 1)
        /\ \A k \in 1..(Len(q) - 1) : Tail(q)[k] = q[k + 1]
    BY <1>3
  <2>2. i - 1 \in DOMAIN Tail(q) /\ Tail(q)[i - 1] = q[(i - 1) + 1] /\ (i - 1) + 1 = i
    BY <1>3, <2>1
  <2> QED BY <2>2 DEF ToSet
<1> QED BY <1>1, <1>2, <1>3 DEF ToSet

(* Only its own handling takes _disconnected out of the queue.             *)
LEMMA ReportKept ==
  ASSUME TypeOK, LockInv, [Next]_vars, ~HandleDisconnected, Disconnected \in ToSet(queue)
  PROVE  Disconnected \in ToSet(queue')
<1>0. queue \in Seq(Event) /\ Disconnected \in Event /\ Disconnected.what = "disconnected"
  BY Events DEF TypeOK
<1> USE DEF loop, workers, transport, paho, history
<1>1. \/ queue' = queue
      \/ \E events \in Seq(Event) : queue' = queue \o events
      \/ /\ queue # <<>> /\ Head(queue).what # "disconnected"
         /\ queue' = Tail(queue) \/ \E e \in Event : queue' = Append(Tail(queue), e)
  <2>1. ASSUME NEW r \in Requests,
               Begin(r) \/ Progress(r) \/ CancelLocking(r) \/ Answer(r) \/ StrayConnects(r)
        PROVE  queue' = queue \/ queue' = queue \o <<Resume(r, FALSE)>>
    BY <2>1
       DEF Begin, Progress, Acquire, AcquireConnected, HandshakeTimeout, AnswerTimeout,
           CancelLocking, Answer, StrayConnects, Call
  <2>7. ASSUME NEW t \in Tasks, Cancel(t) \/ StrayDisconnects(t) \/ StrayStops(t)
        PROVE  queue' = queue \/ queue' = queue \o <<Signal(FALSE), Disconnected>>
    BY <1>0, <2>7, Says DEF Cancel, StrayStops
  <2>2. ASSUME NEW c \in Closers, CloseBegin(c) PROVE queue' = queue
    BY <2>2 DEF CloseBegin
  <2>3. ASSUME NEW t \in Tasks, Work(t)
        PROVE  \/ queue' = queue
               \/ \E ok \in BOOLEAN : queue' = queue \o <<Resume(t, ok)>>
               \/ queue' = queue \o <<Signal(FALSE), Disconnected, Resume(t, TRUE)>>
    BY <1>0, <2>3, Says DEF Work, WorkerConnects, WorkerStops, WorkerJoins, Call
  <2>4. CASE HandleResume \/ HandleSignal
    <3>1. lock \in Tasks => Resume(lock, TRUE) \in Event
      BY Events
    <3>2. HandleSignal /\ pc[lock] = "handshaking" /\ future = "pending" => lock \in Tasks
      BY DEF LockInv
    <3> QED BY <2>4, <3>1, <3>2 DEF HandleResume, HandleSignal
  <2>5. ASSUME \/ Callback \/ OnConnect \/ OnConnectFails \/ ReadSuback \/ OnSubscribeFails
               \/ Reconnect \/ Lose \/ UNCHANGED vars
        PROVE  \/ queue' = queue
               \/ \E ok \in BOOLEAN : queue' = queue \o <<Signal(ok)>>
               \/ queue' = queue \o <<Signal(FALSE), Disconnected>>
    BY <2>5
       DEF Callback, OnSubscribe, OnDisconnect, ThreadExits, OnConnect, OnConnectFails, ReadSuback,
           OnSubscribeFails, Reconnect, Lose, Call, vars
  <2>6. /\ \A t \in Tasks, ok \in BOOLEAN : <<Resume(t, ok)>> \in Seq(Event)
        /\ \A t \in Tasks : <<Signal(FALSE), Disconnected, Resume(t, TRUE)>> \in Seq(Event)
        /\ \A ok \in BOOLEAN : <<Signal(ok)>> \in Seq(Event)
        /\ <<Signal(FALSE), Disconnected>> \in Seq(Event)
    BY Events, Sequence1, Sequence2, Sequence3
  <2> QED BY <2>1, <2>2, <2>3, <2>4, <2>5, <2>6, <2>7 DEF Next, Handle
<1>2. ASSUME queue # <<>>, Head(queue).what # "disconnected"
      PROVE  Tail(queue) \in Seq(Event) /\ Disconnected \in ToSet(Tail(queue))
  <2>1. Disconnected # Head(queue)
    BY <1>0, <1>2
  <2> QED BY <1>0, <1>2, <2>1, QueueMembers, TailType
<1> QED BY <1>0, <1>1, <1>2, QueueMembers

(* What a command is published on.                                         *)
LEMMA Submitted ==
  ASSUME TypeOK, LockInv, ReadyInv, NEW r \in Requests,
         \/ Begin(r) \/ AcquireConnected(r)
  PROVE  /\ \A t \in Tasks \ {r} : pc'[t] = pc[t]
         /\ UNCHANGED <<connected, thread, link, misled>>
         /\ pc'[r] \in Awaiting => connected /\ (misled \/ link \in {"subscribed", "lost"})
         /\ pc'[r] = "awaiting" => thread /\ link = "subscribed"
         /\ pc'[r] = "bereft" => thread /\ link = "lost"
<1>1. /\ \A t \in Tasks \ {r} : pc'[t] = pc[t]
      /\ UNCHANGED <<connected, thread, link, misled>>
      /\ pc[r] \in {"idle", "locking"}
  BY DEF Begin, AcquireConnected, Submit, TypeOK, loop, workers, paho, history
<1>2. ASSUME pc'[r] \in Awaiting
      PROVE  /\ connected /\ (misled \/ link \in {"subscribed", "lost"})
             /\ pc'[r] = "awaiting" => thread /\ link = "subscribed"
             /\ pc'[r] = "bereft" => thread /\ link = "lost"
  <2>1. connected /\ Submit(r)
    BY <1>2 DEF Begin, AcquireConnected, Awaiting, TypeOK
  <2>2. ready /\ pc'[r] = IF link = "subscribed" /\ thread THEN "awaiting"
                          ELSE IF misled \/ disturbed THEN "stranded" ELSE "bereft"
    BY <1>1, <1>2, <2>1 DEF Submit, Awaiting, TypeOK
  <2> QED BY <2>1, <2>2 DEF ReadyInv
<1> QED BY <1>1, <1>2 DEF Awaiting

LEMMA Entered ==
  ASSUME TypeOK, LockInv, ThreadInv, ReadyInv, NEW r \in Requests, NEW ok \in BOOLEAN,
         ConnectReturns(r, ok) \/ HandshakeReturns(r), UNCHANGED <<link, misled, disturbed>>
  PROVE  /\ \A t \in Tasks \ {r} : pc'[t] = pc[t]
         /\ pc'[r] \in Awaiting => connected' /\ (misled \/ link \in {"subscribed", "lost"})
         /\ pc'[r] = "awaiting" => thread' /\ link = "subscribed"
         /\ pc'[r] = "bereft" => thread' /\ link = "lost"
<1>1. \A t \in Tasks \ {r} : pc'[t] = pc[t]
  BY DEF ConnectReturns, HandshakeReturns, HandshakeEnds, Enter, Cleanup, Submit, TypeOK
<1>2. ASSUME pc'[r] \in Awaiting
      PROVE  /\ connected' /\ (misled \/ link \in {"subscribed", "lost"})
             /\ pc'[r] = "awaiting" => thread' /\ link = "subscribed"
             /\ pc'[r] = "bereft" => thread' /\ link = "lost"
  <2>1. /\ Enter(r)
        /\ \/ pc[r] = "handshaking" /\ UNCHANGED thread
           \/ pc[r] = "connecting" /\ ~thread /\ thread'
    BY <1>2 DEF ConnectReturns, HandshakeReturns, HandshakeEnds, Cleanup, Awaiting, TypeOK
  <2>2. disturbed \/ thread'
    BY <2>1 DEF ThreadInv, Unstopped
  <2>3. ready /\ pc'[r] = IF link = "subscribed" /\ thread' THEN "awaiting"
                          ELSE IF misled \/ disturbed THEN "stranded" ELSE "bereft"
    BY <1>2, <2>1 DEF Enter, Submit, Awaiting, TypeOK
  <2> QED BY <2>1, <2>2, <2>3 DEF Enter, ReadyInv
<1> QED BY <1>1, <1>2 DEF Awaiting

(* A command that waits is watched until _disconnected has been reported.  *)
LEMMA AwaitStep ==
  TypeOK /\ LockInv /\ ResumeInv /\ ThreadInv /\ StopInv /\ ReadyInv /\ AwaitInv /\ [Next]_vars
    => AwaitInv'
<1> SUFFICES ASSUME TypeOK, LockInv, ResumeInv, ThreadInv, StopInv, ReadyInv, AwaitInv, [Next]_vars,
                    NEW r \in Requests, pc'[r] \in {"awaiting", "bereft"},
                    Disconnected \notin ToSet(queue')
             PROVE  WatchedBy(r)'
  BY DEF AwaitInv
<1> USE DEF TypeOK, loop, workers, transport, paho, history
<1>0. /\ \A t \in Tasks : lock = t <=> pc[t] \in Attempting \cup Closing
      /\ \A t \in Tasks : worker[t] # "none" => lock = t /\ pc[t] \in WorkerOf[worker[t]]
      /\ lock \in Requests => ~connected
      /\ \A c \in Closers : pc[c] \notin Attempting
      /\ \A q \in Requests : pc[q] \notin Closing
  BY Holders
<1>1. CASE HandleDisconnected
  BY <1>1 DEF HandleDisconnected, Awaiting
<1>a. CASE ~HandleDisconnected
  <2>0. Disconnected \notin ToSet(queue)
    BY <1>a, ReportKept
  <2>w. pc[r] \in {"awaiting", "bereft"} =>
          connected /\ thread /\ (link = "lost" \/ (pc[r] = "awaiting" /\ link = "subscribed"))
    BY <2>0 DEF AwaitInv, WatchedBy
  <2>k. ASSUME pc'[r] = pc[r], UNCHANGED <<connected, thread, link>>
        PROVE  WatchedBy(r)'
    BY <2>w, <2>k DEF WatchedBy
  <2>1. ASSUME NEW q \in Requests, Begin(q) \/ AcquireConnected(q) PROVE WatchedBy(r)'
    <3>1. CASE q = r
      BY <2>1, <3>1, Submitted DEF WatchedBy, Awaiting
    <3>2. CASE q # r
      BY <2>1, <2>k, <3>2, Submitted
    <3> QED BY <3>1, <3>2
  <2>2. ASSUME NEW q \in Requests, Acquire(q) PROVE WatchedBy(r)'
    BY <2>2, <2>w DEF Acquire
  <2>3. ASSUME NEW q \in Requests, HandshakeTimeout(q) PROVE WatchedBy(r)'
    BY <2>3, <2>k DEF HandshakeTimeout
  <2>i. ASSUME NEW t \in Tasks, Interrupted(t)
        PROVE  pc'[r] = pc[r] /\ UNCHANGED connected
    BY <2>i DEF Interrupted, Cleanup
  <2>4. ASSUME NEW t \in Tasks, Cancel(t) PROVE WatchedBy(r)'
    BY <2>4, <2>i, <2>k DEF Cancel
  <2>5. ASSUME NEW q \in Requests, Answer(q) \/ AnswerTimeout(q) \/ CancelLocking(q)
        PROVE  WatchedBy(r)'
    <3>1. q # r
      BY <2>5 DEF Answer, AnswerTimeout, CancelLocking
    <3> QED BY <2>5, <2>k, <3>1 DEF Answer, AnswerTimeout, CancelLocking
  <2>6. ASSUME NEW q \in Requests, StrayConnects(q) PROVE WatchedBy(r)'
    BY <2>6 DEF StrayConnects, SessionReplaced
  <2>7. ASSUME NEW c \in Closers, CloseBegin(c) PROVE WatchedBy(r)'
    <3>1. c # r /\ pc'[r] = pc[r] /\ UNCHANGED <<connected, thread, link>>
      BY <2>7 DEF CloseBegin
    <3> QED BY <2>k, <3>1
  <2>s. <<Signal(FALSE), Disconnected>> \in Seq(Event)
        /\ Disconnected \in ToSet(<<Signal(FALSE), Disconnected>>)
    <3>1. <<Signal(FALSE), Disconnected>> \in Seq(Event)
      BY Events, Sequence2
    <3>2. Disconnected \in ToSet(<<Signal(FALSE), Disconnected>>)
      BY DEF ToSet
    <3> QED BY <3>1, <3>2
  <2>17. ASSUME NEW t \in Tasks, StrayDisconnects(t) PROVE WatchedBy(r)'
    <3>1. CASE thread \/ link = "down"
      <4>1. pc' = pc /\ UNCHANGED <<connected, thread, link>>
        BY <2>17, <3>1 DEF StrayDisconnects, Disconnects
      <4> QED BY <2>k, <4>1
    <3>2. CASE ~(thread \/ link = "down")
      <4>1. queue' = queue \o <<Signal(FALSE), Disconnected>>
        BY <2>17, <3>2, Says
      <4> QED BY <2>s, <4>1, QueueMembers, Events
    <3> QED BY <3>1, <3>2
  <2>18. ASSUME NEW t \in Tasks, StrayStops(t) PROVE WatchedBy(r)'
    BY <2>18, <2>k DEF StrayStops
  <2>8. ASSUME NEW t \in Tasks, Work(t) PROVE WatchedBy(r)'
    <3>1. lock = t /\ worker[t] # "none" /\ pc[t] \in WorkerOf[worker[t]]
      BY <1>0, <2>8 DEF Work, WorkerConnects, WorkerDisconnects, WorkerStops, WorkerJoins
    <3>2. CASE WorkerConnects(t)
      <4>1. lock \in Requests
        BY <1>0, <3>1, <3>2 DEF WorkerConnects, WorkerOf, Attempting
      <4>2. pc[r] \in {"awaiting", "bereft"}
        BY <3>2 DEF WorkerConnects, SessionEnds
      <4> QED BY <1>0, <2>w, <4>1, <4>2
    <3>3. CASE WorkerDisconnects(t) /\ (thread \/ link = "down")
      <4>1. pc' = pc /\ UNCHANGED <<connected, thread, link>>
        BY <3>3 DEF WorkerDisconnects, Disconnects
      <4> QED BY <2>k, <4>1
    <3>4. CASE WorkerDisconnects(t) /\ ~(thread \/ link = "down")
      <4>1. queue' = queue \o <<Signal(FALSE), Disconnected, Resume(t, TRUE)>>
        BY <3>4, Says
      <4>2. <<Signal(FALSE), Disconnected, Resume(t, TRUE)>> \in Seq(Event)
        BY Events, Sequence3
      <4>3. Disconnected \in ToSet(<<Signal(FALSE), Disconnected, Resume(t, TRUE)>>)
        BY DEF ToSet
      <4> QED BY <4>1, <4>2, <4>3, QueueMembers, Events
    <3>5. CASE WorkerStops(t) \/ WorkerJoins(t)
      BY <2>k, <3>5 DEF WorkerStops, WorkerJoins
    <3> QED BY <2>8, <3>2, <3>3, <3>4, <3>5 DEF Work
  <2>9. CASE HandleResume
    <3>1. lock \in Tasks /\ worker[lock] = "none" /\ \E ok \in BOOLEAN : Resumed(lock, ok)
      BY <2>9, HeadResumes
    <3>2. PICK ok \in BOOLEAN : Resumed(lock, ok)
      BY <3>1
    <3>3. UNCHANGED <<link, misled>>
      BY <2>9 DEF HandleResume
    <3>4. CASE (ConnectReturns(lock, ok) \/ HandshakeReturns(lock)) /\ UNCHANGED disturbed
      <4>1. lock \in Requests /\ ~connected
        BY <1>0, <3>1, <3>4 DEF ConnectReturns, HandshakeReturns, Attempting
      <4>2. CASE r = lock
        BY <3>1, <3>3, <3>4, <4>1, <4>2, Entered DEF WatchedBy, Awaiting
      <4>3. CASE r # lock
        <5>1. pc'[r] = pc[r]
          BY <3>1, <3>3, <3>4, <4>1, <4>3, Entered
        <5> QED BY <2>w, <4>1, <5>1
      <4> QED BY <4>2, <4>3
    <3>5. CASE CleanupReturns(lock)
      <4>1. lock \in Requests /\ ~connected
        BY <1>0, <3>1, <3>5 DEF CleanupReturns, Attempting
      <4>2. pc'[r] = pc[r]
        BY <3>1, <3>5 DEF CleanupReturns
      <4> QED BY <2>w, <4>1, <4>2
    <3>6. CASE CloseReturns(lock)
      <4>1. lock \in Closers /\ r # lock
        BY <1>0, <3>1, <3>6 DEF CloseReturns, Closing
      <4>2. pc'[r] = pc[r] /\ UNCHANGED thread
        BY <3>6, <4>1 DEF CloseReturns
      <4>3. pc[lock] # "joining"
        BY <2>w, <3>1, <4>1, <4>2 DEF StopInv
      <4>4. UNCHANGED connected
        BY <3>6, <4>3 DEF CloseReturns
      <4> QED BY <2>k, <3>3, <4>2, <4>4
    <3>7. CASE Interrupted(lock) /\ UNCHANGED <<thread, terminate>>
      BY <2>i, <2>k, <3>1, <3>3, <3>7
    <3> QED BY <3>2, <3>4, <3>5, <3>6, <3>7 DEF Resumed
  <2>10. CASE HandleSignal
    BY <2>10, <2>k DEF HandleSignal
  <2>11. CASE OnConnect \/ OnConnectFails \/ ReadSuback \/ OnSubscribeFails \/ Reconnect
    <3>1. UNCHANGED pc /\ link \notin {"subscribed", "lost"}
      BY <2>11 DEF OnConnect, OnConnectFails, ReadSuback, OnSubscribeFails, Reconnect
    <3> QED BY <2>w, <3>1
  <2>12. CASE OnSubscribe
    BY <2>12, <2>k DEF OnSubscribe
  <2>13. CASE OnDisconnect
    <3>1. queue' = queue \o <<Signal(FALSE), Disconnected>>
      BY <2>13 DEF OnDisconnect, Call
    <3> QED BY <2>s, <3>1, QueueMembers, Events
  <2>14. CASE Lose
    <3>1. /\ pc[r] \in {"awaiting", "bereft"} /\ link' = "lost"
          /\ UNCHANGED <<connected, thread>>
      BY <2>14 DEF Lose, SessionEnds
    <3> QED BY <2>w, <3>1 DEF WatchedBy
  <2>15. CASE ThreadExits
    <3>1. ~disturbed /\ pc' = pc
      BY <2>15 DEF ThreadExits, SessionReplaced
    <3>2. link \in {"subscribed", "lost"} /\ connected
      BY <2>w, <3>1
    <3>3. thread /\ terminate /\ ~closing
      BY <2>15, <3>2 DEF ThreadExits, Idle
    <3> QED BY <3>1, <3>2, <3>3 DEF ThreadInv, Unstopped
  <2>16. CASE UNCHANGED vars
    BY <2>16, <2>k DEF vars
  <2> QED
    BY <1>a, <2>1, <2>2, <2>3, <2>4, <2>5, <2>6, <2>7, <2>8, <2>9, <2>10, <2>11, <2>12, <2>13,
       <2>14, <2>15, <2>16, <2>17, <2>18
       DEF Next, Progress, Handle, Callback
<1> QED BY <1>1, <1>a

-----------------------------------------------------------------------------
(* Attempts and closes are serialised by the gateway's lock, with their     *)
(* blocking calls and resumptions but for the calls that cancelled tasks   *)
(* leave behind; and until one of those, or a cancelled close, disturbs    *)
(* it, the network thread outlives what counts on it.                      *)
THEOREM Inductive == Spec => []IndInv
<1>1. Init => IndInv
  <2> SUFFICES ASSUME Init PROVE IndInv
    OBVIOUS
  <2>1. queue \in Seq(Event) /\ DOMAIN queue = {}
    BY DEF Init
  <2>2. TypeOK
    <3>1. failures \in 0..MaxFailures /\ lock \in Tasks \cup {Nobody} /\ link \in Live \cup {"down", "lost"}
      BY DEF Init
    <3>2. {ready, subscribing, thread, terminate, closing, suback, misled, disturbed} \subseteq BOOLEAN
          /\ connected \in BOOLEAN /\ stray \in [Tasks -> {{}}]
      BY DEF Init
    <3>3. stray \in [Tasks -> SUBSET {"connect", "disconnect", "stop"}]
      BY <3>2
    <3>4. pc \in [Tasks -> {"idle"}] /\ worker \in [Tasks -> {"none"}] /\ future = "none"
      BY DEF Init
    <3> QED BY <2>1, <3>1, <3>2, <3>3, <3>4 DEF TypeOK
  <2>3. LockInv
    BY DEF Init, LockInv, Awaiting, Attempting, Closing
  <2>4. ResumeInv
    BY <2>1 DEF ResumeInv
  <2>5. ThreadInv
    BY DEF Init, ThreadInv
  <2>6. StopInv /\ ReadyInv /\ AwaitInv
    BY DEF Init, StopInv, ReadyInv, AwaitInv
  <2> QED BY <2>2, <2>3, <2>4, <2>5, <2>6 DEF IndInv
<1>2. IndInv /\ [Next]_vars => IndInv'
  BY TypeStep, LockStep, ResumeStep, ThreadStep, StopStep, ReadyStep, AwaitStep DEF IndInv
<1> QED BY <1>1, <1>2, PTL DEF Spec

(* A gateway that believes itself connected has a network thread or is     *)
(* being closed, for any attempts and closes cancelled at any await, as    *)
(* long as no late disconnect or loop_stop of a cancelled task has run, no *)
(* late connect has crossed a close, and no close has been cancelled,      *)
(* since the last attempt began.                                           *)
THEOREM Watched == Spec => []ConnectedIsWatched
<1>1. IndInv => ConnectedIsWatched
  BY DEF IndInv, ThreadInv, Unstopped, ConnectedIsWatched
<1> QED BY <1>1, Inductive, PTL

(* No command waits for an answer that cannot come: the thread is about to *)
(* find its session lost, or the event loop is about to fail it.  The      *)
(* commands excepted are those whose session or thread the late call of a  *)
(* cancelled task has taken away, or that find it taken away.              *)
THEOREM AnswersCanCome == Spec => []AwaitedAnswersCanCome
<1>1. IndInv => AwaitedAnswersCanCome
  BY DEF IndInv, AwaitInv, WatchedBy, AwaitedAnswersCanCome
<1> QED BY <1>1, Inductive, PTL

(* A command goes out only on a session that has been subscribed, though   *)
(* it may just have been lost, however attempts, closes, their             *)
(* cancellations, late calls and the network thread interleave: unless a   *)
(* worker has replaced the session since the thread last reported.         *)
THEOREM SubscribedFirst == Spec => PublishedWhenSubscribed
<1>1. ASSUME IndInv, [Next]_vars, NEW r \in Requests,
             pc[r] \notin Awaiting, pc'[r] \in Awaiting
      PROVE  link \in {"subscribed", "lost"} \/ misled
  <2>0. TypeOK /\ LockInv /\ ResumeInv /\ ThreadInv /\ ReadyInv
    BY <1>1 DEF IndInv
  <2>1. ASSUME NEW q \in Requests, Begin(q) \/ AcquireConnected(q)
        PROVE  link \in {"subscribed", "lost"} \/ misled
    BY <1>1, <2>0, <2>1, Submitted DEF TypeOK
  <2>2. CASE HandleResume
    <3>1. lock \in Tasks /\ worker[lock] = "none" /\ \E ok \in BOOLEAN : Resumed(lock, ok)
      BY <2>0, <2>2, HeadResumes
    <3>2. PICK ok \in BOOLEAN : Resumed(lock, ok)
      BY <3>1
    <3>3. CASE (ConnectReturns(lock, ok) \/ HandshakeReturns(lock)) /\ UNCHANGED disturbed
      <4>1. lock \in Requests
        BY <2>0, <3>1, <3>3, Holders DEF ConnectReturns, HandshakeReturns, Attempting
      <4>2. UNCHANGED <<link, misled>>
        BY <2>2 DEF HandleResume
      <4>3. \A q \in Tasks \ {lock} : pc'[q] = pc[q]
        BY <2>0, <3>1, <3>3, <4>1, <4>2, Entered
      <4>4. r = lock
        BY <1>1, <4>3
      <4> QED BY <1>1, <2>0, <3>1, <3>3, <4>2, <4>4, Entered
    <3>4. CASE CleanupReturns(lock) \/ CloseReturns(lock)
      BY <1>1, <2>0, <3>1, <3>4 DEF CleanupReturns, CloseReturns, TypeOK, Awaiting
    <3>5. CASE Interrupted(lock)
      BY <1>1, <2>0, <3>1, <3>5 DEF Interrupted, Cleanup, TypeOK, Awaiting
    <3> QED BY <3>2, <3>3, <3>4, <3>5 DEF Resumed
  <2> USE DEF IndInv, TypeOK, Awaiting, loop, workers, transport, paho, history
  <2>3. ASSUME NEW q \in Requests,
               \/ Acquire(q) \/ HandshakeTimeout(q) \/ AnswerTimeout(q) \/ CancelLocking(q)
               \/ Answer(q) \/ StrayConnects(q)
        PROVE  FALSE
    BY <1>1, <2>3
       DEF Acquire, HandshakeTimeout, AnswerTimeout, CancelLocking, Answer, StrayConnects,
           SessionReplaced
  <2>7. ASSUME NEW t \in Tasks, Cancel(t) \/ StrayDisconnects(t) \/ StrayStops(t) PROVE FALSE
    BY <1>1, <2>7
       DEF Cancel, Interrupted, Cleanup, StrayDisconnects, Disconnects, SessionEnds, StrayStops
  <2>4. ASSUME NEW c \in Closers, CloseBegin(c) PROVE FALSE
    BY <1>1, <2>4 DEF CloseBegin
  <2>5. ASSUME NEW t \in Tasks, Work(t) PROVE FALSE
    BY <1>1, <2>5
       DEF Work, WorkerConnects, WorkerDisconnects, Disconnects, WorkerStops, WorkerJoins,
           SessionEnds
  <2>6. CASE \/ HandleSignal \/ HandleDisconnected \/ Callback \/ OnConnect \/ OnConnectFails
             \/ ReadSuback \/ OnSubscribeFails \/ Reconnect \/ Lose \/ UNCHANGED vars
    BY <1>1, <2>6
       DEF HandleSignal, HandleDisconnected, Callback, OnSubscribe, OnDisconnect, ThreadExits,
           OnConnect, OnConnectFails, ReadSuback, OnSubscribeFails, Reconnect, Lose, SessionEnds,
           SessionReplaced, vars
  <2> QED BY <1>1, <2>1, <2>2, <2>3, <2>4, <2>5, <2>6, <2>7 DEF Next, Progress, Handle
<1> DEFINE Step == \A r \in Requests :
             pc[r] \notin Awaiting /\ pc'[r] \in Awaiting => link \in {"subscribed", "lost"} \/ misled
<1>2. IndInv /\ [Next]_vars => Step
  BY <1>1
<1> QED BY <1>2, Inductive, PTL DEF Spec, PublishedWhenSubscribed
=============================================================================
