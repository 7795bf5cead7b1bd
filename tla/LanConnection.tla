---------------------------- MODULE LanConnection ----------------------------
(***************************************************************************)
(* The MQTT connection of a LanGateway: PahoTransport.connect, close and   *)
(* publish, its callbacks, and the gateway's lock and connected flag.      *)
(*                                                                         *)
(* Three kinds of threads share it.  The event loop runs one callback or   *)
(* one stretch of a task between two awaits at a time, in the order of its *)
(* queue.  Worker threads run paho's blocking calls for asyncio.to_thread. *)
(* Paho's network thread calls _on_connect, _on_subscribe and              *)
(* _on_disconnect, which set the transport's flags at once but reach the   *)
(* gateway only through the queue of the event loop.  Paho itself is       *)
(* modelled from how the transport uses it: its thread reopens a lost      *)
(* session until told to disconnect, loop_start fails while the thread     *)
(* lives, and a call of connect replaces the socket without a callback.    *)
(*                                                                         *)
(* A task can be cancelled wherever it waits.  Its worker cannot: the call *)
(* goes on, as a stray, while the task ends and gives the lock back.       *)
(***************************************************************************)
EXTENDS Naturals, Sequences, SequencesExt

CONSTANTS
  Requests,     \* requests that hold this gateway
  Closers,      \* GatewayPool.get with other credentials, GatewayPool.close
  MaxFailures,  \* bound on losses and refusals of sessions
  Cancels,      \* whether tasks are cancelled
  Nobody

ASSUME ConstantsAssumption ==
  /\ MaxFailures \in Nat
  /\ Cancels \in BOOLEAN
  /\ Requests \cap Closers = {}
  /\ Nobody \notin Requests \cup Closers

Tasks == Requests \cup Closers

VARIABLES
  pc,           \* where each task is
  lock,         \* LanGateway._connect_lock: its holder
  connected,    \* LanGateway.connected
  future,       \* PahoTransport._connect_future; "none" is None
  queue,        \* callbacks of the event loop, next first
  worker,       \* the blocking call a worker thread runs for each task
  stray,        \* the calls that workers of cancelled tasks still run
  ready,        \* PahoTransport._ready
  subscribing,  \* PahoTransport._subscription_mid is not None
  thread,       \* paho's network thread exists
  terminate,    \* paho was told to stop its thread
  closing,      \* paho was told to disconnect
  link,         \* the session as the printer and the network leave it
  suback,       \* the thread has read a SUBACK and not yet called _on_subscribe
  misled,       \* ready and what waits may concern a session a worker has replaced
  disturbed,    \* since the last attempt began, a stray has told paho to disconnect
                \* or stop, or undone a close, or a close was cancelled
  failures

loop      == <<pc, lock, connected, future, queue>>
workers   == <<worker, stray>>
transport == <<ready, subscribing>>
paho      == <<thread, terminate, closing, link, suback>>
history   == <<misled, disturbed, failures>>
vars == <<loop, workers, transport, paho, history>>

Live == {"connecting", "subscribing", "subscribed", "unsubscribed"}

(* A published command waits; its session may have ended since, or a stray *)
(* may have replaced it or stopped the thread that watches it.             *)
Awaiting == {"awaiting", "bereft", "stranded"}
Attempting == {"connecting", "handshaking", "dropping", "undoing", "stopping"}
Closing == {"closing", "joining", "leaving"}

Event == [what : {"signal", "disconnected", "resume"}, of : Tasks \cup {Nobody}, ok : BOOLEAN]

TypeOK ==
  /\ pc \in [Tasks -> {"idle", "locking", "answered", "failed", "closed"}
                       \cup Awaiting \cup Attempting \cup Closing]
  /\ lock \in Tasks \cup {Nobody}
  /\ connected \in BOOLEAN
  /\ future \in {"none", "pending", "ok", "error", "cancelled"}
  /\ queue \in Seq(Event)
  /\ worker \in [Tasks -> {"none", "connect", "disconnect", "stop", "join"}]
  /\ stray \in [Tasks -> SUBSET {"connect", "disconnect", "stop"}]
  /\ {ready, subscribing, thread, terminate, closing, suback, misled, disturbed} \subseteq BOOLEAN
  /\ link \in Live \cup {"down", "lost"}
  /\ failures \in 0..MaxFailures

Init ==
  /\ pc = [t \in Tasks |-> "idle"]
  /\ lock = Nobody /\ connected = FALSE /\ future = "none" /\ queue = <<>>
  /\ worker = [t \in Tasks |-> "none"] /\ stray = [t \in Tasks |-> {}]
  /\ ready = FALSE /\ subscribing = FALSE
  /\ thread = FALSE /\ terminate = FALSE /\ closing = FALSE
  /\ link = "down" /\ suback = FALSE
  /\ misled = FALSE /\ disturbed = FALSE /\ failures = 0

-----------------------------------------------------------------------------
(* call_soon_threadsafe.                                                   *)

Signal(ok) == [what |-> "signal", of |-> Nobody, ok |-> ok]
Disconnected == [what |-> "disconnected", of |-> Nobody, ok |-> FALSE]
Resume(t, ok) == [what |-> "resume", of |-> t, ok |-> ok]

Call(events) == queue' = queue \o events

(* The session ends, or is replaced, under the commands published on it.   *)
SessionEnds == pc' = [t \in Tasks |-> IF pc[t] = "awaiting" THEN "bereft" ELSE pc[t]]
SessionReplaced == pc' = [t \in Tasks |-> IF pc[t] \in {"awaiting", "bereft"} THEN "stranded" ELSE pc[t]]

-----------------------------------------------------------------------------
(* Requests.                                                               *)

(* A bug: publish does not look at _ready.                                 *)
SubmitUnready(r) ==
  pc' = [pc EXCEPT ![r] = IF link = "subscribed" THEN "awaiting" ELSE "bereft"]

(* command up to its publication, which goes out when the transport is     *)
(* ready.  On a socket that is gone paho refuses it, or queues it.         *)
Submit(r) ==
  \/ /\ ready
     /\ pc' = [pc EXCEPT ![r] =
          IF link = "subscribed" /\ thread' THEN "awaiting"
          ELSE IF misled \/ disturbed THEN "stranded" ELSE "bereft"]
  \/ /\ ~ready \/ link # "subscribed"
     /\ pc' = [pc EXCEPT ![r] = "failed"]

(* _ensure_connected, without waiting when the gateway is connected.  The  *)
(* request may have taken it from the pool before it was closed.           *)
Begin(r) ==
  /\ pc[r] = "idle"
  /\ UNCHANGED <<lock, connected, future, queue, workers, transport, paho, history>>
  /\ IF connected
       THEN Submit(r)
       ELSE pc' = [pc EXCEPT ![r] = "locking"]

(* _connect_once has the lock, and somebody else has connected meanwhile.  *)
AcquireConnected(r) ==
  /\ pc[r] = "locking" /\ lock = Nobody /\ connected
  /\ UNCHANGED <<lock, connected, future, queue, workers, transport, paho, history>>
  /\ Submit(r)

(* A bug: connect does not wait for the lock.                              *)
AcquireUnlocked(r) ==
  /\ pc[r] = "locking" /\ ~connected
  /\ lock' = r
  /\ ready' = FALSE
  /\ future' = "pending"
  /\ worker' = [worker EXCEPT ![r] = "connect"]
  /\ pc' = [pc EXCEPT ![r] = "connecting"]
  /\ disturbed' = FALSE
  /\ UNCHANGED <<connected, queue, stray, subscribing, paho, misled, failures>>

(* Or nobody has: connect, up to its first await.                          *)
Acquire(r) ==
  /\ pc[r] = "locking" /\ lock = Nobody /\ ~connected
  /\ lock' = r
  /\ ready' = FALSE
  /\ future' = "pending"
  /\ worker' = [worker EXCEPT ![r] = "connect"]
  /\ pc' = [pc EXCEPT ![r] = "connecting"]
  /\ disturbed' = FALSE
  /\ UNCHANGED <<connected, queue, stray, subscribing, paho, misled, failures>>

(* connect fails: its finally clause and _cleanup_failed_connect.          *)
Cleanup(r, next) ==
  /\ future' = "none"
  /\ ready' = FALSE
  /\ worker' = [worker EXCEPT ![r] = "disconnect"]
  /\ pc' = [pc EXCEPT ![r] = next]
  /\ UNCHANGED <<lock, connected>>

(* connect returns, and the request goes on.                               *)
Enter(r) ==
  /\ connected' = TRUE
  /\ future' = "none"
  /\ lock' = Nobody
  /\ Submit(r)
  /\ UNCHANGED <<worker, ready>>

(* The end of the wait for the subscription.                               *)
HandshakeEnds(r) == IF future = "ok" THEN Enter(r) ELSE Cleanup(r, "undoing")

(* client.connect has returned; loop_start, which fails while an earlier   *)
(* thread lives, and the wait for the subscription.                        *)
ConnectReturns(r, ok) ==
  /\ pc[r] = "connecting"
  /\ thread' = (thread \/ ok)
  /\ terminate' = (terminate /\ (thread \/ ~ok))
  /\ \/ (~ok \/ thread) /\ Cleanup(r, "dropping")
     \/ /\ ok /\ ~thread /\ future = "pending"
        /\ pc' = [pc EXCEPT ![r] = "handshaking"]
        /\ UNCHANGED <<lock, connected, future, worker, ready>>
     \/ ok /\ ~thread /\ future # "pending" /\ HandshakeEnds(r)

HandshakeReturns(r) ==
  /\ pc[r] = "handshaking"
  /\ UNCHANGED <<thread, terminate>>
  /\ HandshakeEnds(r)

(* A bug: the handshake has no timeout.                                    *)
NoHandshakeTimeout(r) == FALSE

(* wait_for's timer fires, or the request is cancelled.                    *)
HandshakeTimeout(r) ==
  /\ pc[r] = "handshaking" /\ future # "cancelled"
  /\ future' = "cancelled"
  /\ IF future = "pending" THEN Call(<<Resume(r, FALSE)>>) ELSE UNCHANGED queue
  /\ UNCHANGED <<pc, lock, connected, workers, transport, paho, history>>

(* _cleanup_failed_connect goes on, or the failed attempt ends.            *)
CleanupReturns(r) ==
  /\ pc[r] \in {"dropping", "undoing", "stopping"}
  /\ IF pc[r] = "undoing"
       THEN /\ worker' = [worker EXCEPT ![r] = "stop"]
            /\ pc' = [pc EXCEPT ![r] = "stopping"]
            /\ UNCHANGED lock
       ELSE /\ pc' = [pc EXCEPT ![r] = "failed"]
            /\ lock' = Nobody
            /\ UNCHANGED worker
  /\ UNCHANGED <<connected, future, ready, thread, terminate>>

(* A report answers a command, on the session it was published on.         *)
Answer(r) ==
  /\ pc[r] = "awaiting" /\ thread /\ link = "subscribed"
  /\ pc' = [pc EXCEPT ![r] = "answered"]
  /\ UNCHANGED <<lock, connected, future, queue, workers, transport, paho, history>>

(* Neither PUBACK nor report in time.                                      *)
AnswerTimeout(r) ==
  /\ pc[r] \in Awaiting
  /\ pc' = [pc EXCEPT ![r] = "failed"]
  /\ UNCHANGED <<lock, connected, future, queue, workers, transport, paho, history>>

-----------------------------------------------------------------------------
(* LanGateway.close.                                                       *)

CloseBegin(c) ==
  /\ pc[c] = "idle" /\ lock = Nobody
  /\ IF connected
       THEN /\ lock' = c
            /\ ready' = FALSE /\ subscribing' = FALSE
            /\ worker' = [worker EXCEPT ![c] = "disconnect"]
            /\ pc' = [pc EXCEPT ![c] = "closing"]
       ELSE /\ pc' = [pc EXCEPT ![c] = "closed"]
            /\ UNCHANGED <<lock, transport, worker>>
  /\ UNCHANGED <<connected, future, queue, stray, paho, history>>

(* A bug: a close leaves the gateway marked as connected.                  *)
CloseStaysConnected(c) ==
  /\ pc[c] \in Closing
  /\ lock' = IF pc[c] = "closing" THEN lock ELSE Nobody
  /\ worker' = [worker EXCEPT ![c] = IF pc[c] = "closing" THEN "stop" ELSE "none"]
  /\ pc' = [pc EXCEPT ![c] = IF pc[c] = "closing" THEN "joining" ELSE "closed"]
  /\ UNCHANGED <<connected, future, ready, thread, terminate>>

(* A cancelled close still stops the thread, in its finally clause, and    *)
(* then raises: the gateway stays connected.                               *)
CloseReturns(c) ==
  /\ \/ /\ pc[c] = "closing"
        /\ worker' = [worker EXCEPT ![c] = "stop"]
        /\ pc' = [pc EXCEPT ![c] = "joining"]
        /\ UNCHANGED <<lock, connected>>
     \/ /\ pc[c] \in {"joining", "leaving"}
        /\ connected' = (connected /\ pc[c] = "leaving")
        /\ lock' = Nobody
        /\ pc' = [pc EXCEPT ![c] = IF pc[c] = "leaving" THEN "failed" ELSE "closed"]
        /\ UNCHANGED worker
  /\ UNCHANGED <<future, ready, thread, terminate>>

-----------------------------------------------------------------------------
(* Cancellation.  CancelledError is no Exception: _cleanup_failed_connect  *)
(* does not catch it, and neither it nor a close goes on to what is left.  *)

(* It is raised where t waits for its worker.                              *)
Interrupted(t) ==
  \/ /\ pc[t] = "connecting"
     /\ Cleanup(t, "dropping")
     /\ UNCHANGED disturbed
  \/ /\ pc[t] = "closing"
     /\ worker' = [worker EXCEPT ![t] = "stop"]
     /\ pc' = [pc EXCEPT ![t] = "leaving"]
     /\ disturbed' = TRUE
     /\ UNCHANGED <<lock, connected, future, ready>>
  \/ /\ pc[t] \in {"dropping", "undoing", "stopping", "joining", "leaving"}
     /\ worker' = [worker EXCEPT ![t] = "none"]
     /\ pc' = [pc EXCEPT ![t] = "failed"]
     /\ lock' = Nobody
     /\ disturbed' = (disturbed \/ t \in Closers)
     /\ UNCHANGED <<connected, future, ready>>

(* The worker goes on with its call, or never runs it; a loop_stop that    *)
(* waits for the thread has nothing left to do.                            *)
Cancel(t) ==
  /\ Cancels /\ worker[t] # "none"
  /\ stray' = [stray EXCEPT ![t] = @ \cup ({worker[t]} \ {"join"})]
  /\ Interrupted(t)
  /\ UNCHANGED <<queue, subscribing, paho, misled, failures>>

CancelLocking(r) ==
  /\ Cancels /\ pc[r] = "locking"
  /\ pc' = [pc EXCEPT ![r] = "failed"]
  /\ UNCHANGED <<lock, connected, future, queue, workers, transport, paho, history>>

-----------------------------------------------------------------------------
(* The event loop takes the next callback.                                 *)

(* A task goes on, unless it was cancelled after its worker had finished.  *)
Resumed(t, ok) ==
  \/ /\ UNCHANGED disturbed
     /\ \/ ConnectReturns(t, ok) \/ HandshakeReturns(t) \/ CleanupReturns(t) \/ CloseReturns(t)
  \/ Cancels /\ Interrupted(t) /\ UNCHANGED <<thread, terminate>>

HandleResume ==
  /\ queue # <<>> /\ Head(queue).what = "resume"
  /\ queue' = Tail(queue)
  /\ Resumed(Head(queue).of, Head(queue).ok)
  /\ UNCHANGED <<stray, subscribing, closing, link, suback, misled, failures>>

(* _complete_connection: whatever future is current takes the signal.      *)
HandleSignal ==
  /\ queue # <<>> /\ Head(queue).what = "signal"
  /\ IF future = "pending"
       THEN /\ future' = IF Head(queue).ok THEN "ok" ELSE "error"
            /\ queue' = IF pc[lock] = "handshaking"
                          THEN Append(Tail(queue), Resume(lock, TRUE)) ELSE Tail(queue)
       ELSE /\ queue' = Tail(queue)
            /\ UNCHANGED future
  /\ UNCHANGED <<pc, lock, connected, workers, transport, paho, history>>

(* LanGateway._disconnected: fail_all fails the commands that wait.        *)
HandleDisconnected ==
  /\ queue # <<>> /\ Head(queue).what = "disconnected"
  /\ queue' = Tail(queue)
  /\ connected' = FALSE
  /\ pc' = [t \in Tasks |-> IF pc[t] \in Awaiting THEN "failed" ELSE pc[t]]
  /\ UNCHANGED <<lock, future, workers, transport, paho, history>>

-----------------------------------------------------------------------------
(* Worker threads.                                                         *)

(* client.connect: the old socket is closed, and a new session begun       *)
(* unless the printer cannot be reached.  A SUBACK of the old session that *)
(* the thread has read will still set _ready.                              *)
Reopen ==
  /\ link' \in {"connecting", "down"}
  /\ closing' = FALSE
  /\ UNCHANGED <<thread, terminate, suback>>

WorkerConnects(r) ==
  /\ worker[r] = "connect"
  /\ Reopen
  /\ worker' = [worker EXCEPT ![r] = "none"]
  /\ Call(<<Resume(r, link' = "connecting")>>)
  /\ misled' = (misled \/ suback \/ ready)
  /\ SessionEnds
  /\ UNCHANGED <<lock, connected, future, stray, transport, disturbed, failures>>

(* client.disconnect: with a thread, the thread says goodbye; without one, *)
(* the worker does and calls _on_disconnect itself.                        *)
Disconnects(returns) ==
  /\ closing' = TRUE
  /\ IF thread \/ link = "down"
       THEN /\ Call(returns)
            /\ UNCHANGED <<transport, link, misled, pc>>
       ELSE /\ Call(<<Signal(FALSE), Disconnected>> \o returns)
            /\ link' = "down"
            /\ ready' = FALSE /\ subscribing' = FALSE
            /\ misled' = FALSE
            /\ SessionEnds
  /\ UNCHANGED <<lock, connected, future, thread, terminate, suback, failures>>

WorkerDisconnects(t) ==
  /\ worker[t] = "disconnect"
  /\ worker' = [worker EXCEPT ![t] = "none"]
  /\ Disconnects(<<Resume(t, TRUE)>>)
  /\ UNCHANGED <<stray, disturbed>>

(* client.loop_stop: nothing without a thread, otherwise a join.           *)
WorkerStops(t) ==
  /\ worker[t] = "stop"
  /\ IF thread
       THEN /\ terminate' = TRUE
            /\ worker' = [worker EXCEPT ![t] = "join"]
            /\ UNCHANGED queue
       ELSE /\ worker' = [worker EXCEPT ![t] = "none"]
            /\ Call(<<Resume(t, TRUE)>>)
            /\ UNCHANGED terminate
  /\ UNCHANGED <<pc, lock, connected, future, stray, transport, thread, closing, link, suback, history>>

WorkerJoins(t) ==
  /\ worker[t] = "join" /\ ~thread
  /\ worker' = [worker EXCEPT ![t] = "none"]
  /\ Call(<<Resume(t, TRUE)>>)
  /\ UNCHANGED <<pc, lock, connected, future, stray, transport, paho, history>>

(* The calls of cancelled tasks do what they were made for, at any time.   *)
StrayEnds(t, call) ==
  /\ call \in stray[t]
  /\ stray' = [stray EXCEPT ![t] = @ \ {call}]
  /\ UNCHANGED worker

StrayConnects(r) ==
  /\ StrayEnds(r, "connect")
  /\ Reopen
  /\ misled' = TRUE
  /\ disturbed' = (disturbed \/ lock \in Closers)
  /\ SessionReplaced
  /\ UNCHANGED <<lock, connected, future, queue, transport, failures>>

StrayDisconnects(t) ==
  /\ StrayEnds(t, "disconnect")
  /\ Disconnects(<<>>)
  /\ disturbed' = TRUE

StrayStops(t) ==
  /\ StrayEnds(t, "stop")
  /\ terminate' = (terminate \/ thread)
  /\ disturbed' = TRUE
  /\ UNCHANGED <<loop, transport, thread, closing, link, suback, misled, failures>>

-----------------------------------------------------------------------------
(* Paho's network thread and its callbacks.                                *)

Idle == thread /\ ~suback

(* CONNACK, and _on_connect subscribes.                                    *)
OnConnect ==
  /\ Idle /\ link = "connecting"
  /\ link' = "subscribing"
  /\ ready' = FALSE
  /\ subscribing' = TRUE
  /\ misled' = FALSE
  /\ UNCHANGED <<loop, workers, thread, terminate, closing, suback, disturbed, failures>>

(* _on_connect when the printer rejects the connection, or the session is  *)
(* lost before the subscription is sent.                                   *)
OnConnectFails ==
  /\ Idle /\ link = "connecting" /\ failures < MaxFailures
  /\ failures' = failures + 1
  /\ link' = "lost"
  /\ ready' = FALSE /\ subscribing' = FALSE
  /\ misled' = FALSE
  /\ Call(<<Signal(FALSE)>>)
  /\ UNCHANGED <<pc, lock, connected, future, workers, thread, terminate, closing, suback, disturbed>>

ReadSuback ==
  /\ Idle /\ link = "subscribing"
  /\ link' = "subscribed"
  /\ suback' = TRUE
  /\ UNCHANGED <<loop, workers, transport, thread, terminate, closing, history>>

(* _on_subscribe: a SUBACK nobody waits for any more is ignored.           *)
OnSubscribe ==
  /\ thread /\ suback
  /\ suback' = FALSE
  /\ IF subscribing
       THEN /\ subscribing' = FALSE
            /\ ready' = TRUE
            /\ Call(<<Signal(TRUE)>>)
       ELSE UNCHANGED <<transport, queue>>
  /\ UNCHANGED <<pc, lock, connected, future, workers, thread, terminate, closing, link, history>>

(* _on_subscribe when the printer rejects the subscription: the session    *)
(* stays up.                                                               *)
OnSubscribeFails ==
  /\ Idle /\ link = "subscribing" /\ failures < MaxFailures
  /\ failures' = failures + 1
  /\ link' = "unsubscribed"
  /\ IF subscribing
       THEN subscribing' = FALSE /\ Call(<<Signal(FALSE)>>)
       ELSE UNCHANGED <<subscribing, queue>>
  /\ UNCHANGED <<pc, lock, connected, future, workers, ready, thread, terminate, closing, suback,
                 misled, disturbed>>

(* A bug: only the handshake is told of a lost session.                    *)
OnDisconnectUnreported ==
  /\ Idle
  /\ link = "lost" \/ (closing /\ link # "down")
  /\ link' = "down"
  /\ ready' = FALSE /\ subscribing' = FALSE
  /\ misled' = FALSE
  /\ Call(<<Signal(FALSE)>>)
  /\ SessionEnds
  /\ UNCHANGED <<lock, connected, future, workers, thread, terminate, closing, suback, disturbed, failures>>

(* The thread finds the session lost, or says goodbye; _on_disconnect.     *)
OnDisconnect ==
  /\ Idle
  /\ link = "lost" \/ (closing /\ link # "down")
  /\ link' = "down"
  /\ ready' = FALSE /\ subscribing' = FALSE
  /\ misled' = FALSE
  /\ Call(<<Signal(FALSE), Disconnected>>)
  /\ SessionEnds
  /\ UNCHANGED <<lock, connected, future, workers, thread, terminate, closing, suback, disturbed, failures>>

(* loop_forever reopens the session on its own.                            *)
Reconnect ==
  /\ Idle /\ link = "down" /\ ~closing /\ ~terminate
  /\ link' = "connecting"
  /\ UNCHANGED <<loop, workers, transport, thread, terminate, closing, suback, history>>

ThreadExits ==
  /\ Idle
  /\ \/ link = "down" /\ (closing \/ terminate)
     \/ terminate /\ ~closing
  /\ thread' = FALSE
  /\ IF disturbed THEN SessionReplaced ELSE UNCHANGED pc
  /\ UNCHANGED <<lock, connected, future, queue, workers, transport, terminate, closing, link, suback,
                 history>>

(* The network or the printer ends a session.                              *)
Lose ==
  /\ link \in Live /\ failures < MaxFailures
  /\ failures' = failures + 1
  /\ link' = "lost"
  /\ SessionEnds
  /\ UNCHANGED <<lock, connected, future, queue, workers, transport, thread, terminate, closing, suback, misled,
                 disturbed>>

-----------------------------------------------------------------------------
Handle == HandleResume \/ HandleSignal \/ HandleDisconnected
Work(t) == WorkerConnects(t) \/ WorkerDisconnects(t) \/ WorkerStops(t) \/ WorkerJoins(t)
Callback == OnSubscribe \/ OnDisconnect \/ ThreadExits
Progress(r) == Acquire(r) \/ AcquireConnected(r) \/ HandshakeTimeout(r) \/ AnswerTimeout(r)

Next ==
  \/ \E r \in Requests : Begin(r) \/ Progress(r) \/ CancelLocking(r) \/ Answer(r) \/ StrayConnects(r)
  \/ \E c \in Closers : CloseBegin(c)
  \/ \E t \in Tasks : Work(t) \/ Cancel(t) \/ StrayDisconnects(t) \/ StrayStops(t)
  \/ Handle \/ Callback
  \/ OnConnect \/ OnConnectFails \/ ReadSuback \/ OnSubscribeFails \/ Reconnect \/ Lose

Spec == Init /\ [][Next]_vars

(* Every thread of the service runs; paho's blocking calls return, because *)
(* sockets have timeouts.  Nothing is assumed of the printer, nor of the   *)
(* calls of cancelled tasks.                                               *)
FairSpec ==
  /\ Spec
  /\ WF_vars(Handle) /\ WF_vars(Callback)
  /\ \A t \in Tasks : WF_vars(Work(t))
  /\ \A r \in Requests : WF_vars(Progress(r))

-----------------------------------------------------------------------------
(* Properties.                                                             *)

(* A command whose session has ended is about to be told so: no command    *)
(* waits for an answer that cannot come, unless the call of a cancelled    *)
(* task replaced its session or stopped the thread (then it is stranded).  *)
AwaitedAnswersCanCome ==
  \A r \in Requests :
    pc[r] = "bereft" =>
      \/ thread /\ link = "lost"
      \/ Disconnected \in ToSet(queue)

(* A gateway that believes itself connected has a network thread, which    *)
(* reopens lost sessions and reports them, unless it is being closed, or a *)
(* cancelled cleanup or close has disturbed it.  A cancelled connect, even *)
(* one that goes through much later, does not, but for one during a close. *)
ConnectedIsWatched == connected /\ ~disturbed => thread \/ lock \in Closers

(* Commands go out only on a session whose reports are subscribed to, as   *)
(* far as the network thread can know.                                     *)
PublishedWhenSubscribed ==
  [][\A r \in Requests :
       pc[r] \notin Awaiting /\ pc'[r] \in Awaiting => link \in {"subscribed", "lost"} \/ misled]_vars

(* Every request ends, whatever the printer does: neither the lock nor the *)
(* join of the network thread keeps it for ever.                           *)
RequestsEnd == \A t \in Tasks : pc[t] # "idle" ~> pc[t] \in {"answered", "failed", "closed"}

-----------------------------------------------------------------------------
(* The inductive invariant of the proofs.                                  *)

(* The places of a task that a blocking call of its worker belongs to.     *)
WorkerOf ==
  [connect |-> {"connecting"}, disconnect |-> {"dropping", "undoing", "closing"},
   stop |-> {"stopping", "joining", "leaving"}, join |-> {"stopping", "joining", "leaving"}]

(* The lock serialises attempts and closes, with all their blocking calls  *)
(* but those of tasks that were cancelled.                                 *)
LockInv ==
  /\ \A t \in Tasks :
       /\ lock = t <=> pc[t] \in Attempting \cup Closing
       /\ worker[t] # "none" => pc[t] \in WorkerOf[worker[t]]
       /\ pc[t] \in Closing => t \in Closers
       /\ pc[t] \in {"locking"} \cup Awaiting \cup Attempting => t \in Requests
  /\ lock \in Requests => ~connected
  /\ future # "none" => lock \in Requests /\ pc[lock] \in {"connecting", "handshaking"}

(* A task is resumed once for each await, and by what it awaits.           *)
ResumeInv ==
  /\ \A i \in DOMAIN queue : queue[i].what = "resume" =>
       /\ queue[i].of = lock /\ lock \in Tasks
       /\ worker[lock] = "none"
       /\ pc[lock] = "handshaking" => future # "pending"
  /\ \A i, k \in DOMAIN queue :
       queue[i].what = "resume" /\ queue[k].what = "resume" => i = k

(* While a request waits for its handshake, and while the gateway is       *)
(* connected and not being closed, nobody has told the network thread to   *)
(* stop; a close has told it to disconnect before it stops it.             *)
Unstopped == thread /\ ~closing /\ ~terminate
ThreadInv == ~disturbed =>
  /\ \A c \in Closers : pc[c] # "leaving"
  /\ \A r \in Requests : pc[r] = "connecting" /\ worker[r] = "none" => ~closing
  /\ \A r \in Requests : pc[r] = "handshaking" => Unstopped
  /\ connected =>
       IF lock \notin Closers \/ worker[lock] = "disconnect" THEN Unstopped ELSE closing

(* A transport that is ready, or about to be, has a subscribed session,    *)
(* which may have been lost, and the thread that watches it.               *)
ReadyInv ==
  /\ suback => thread
  /\ suback /\ subscribing /\ ~misled => link \in {"subscribed", "lost"}
  /\ ready /\ ~misled => link \in {"subscribed", "lost"}
  /\ ready /\ ~misled /\ ~disturbed /\ connected => thread

(* The thread is gone when a close has waited.                             *)
StopInv == \A c \in Closers : pc[c] = "joining" /\ worker[c] = "none" => ~thread

(* The session of a command that waits is subscribed or lost, and the      *)
(* thread watches it; or _disconnected is in the queue.                    *)
WatchedBy(r) ==
  /\ connected /\ thread
  /\ link = "lost" \/ (pc[r] = "awaiting" /\ link = "subscribed")
AwaitInv ==
  \A r \in Requests :
    pc[r] \in {"awaiting", "bereft"} => Disconnected \in ToSet(queue) \/ WatchedBy(r)

IndInv ==
  TypeOK /\ LockInv /\ ResumeInv /\ ThreadInv /\ StopInv /\ ReadyInv /\ AwaitInv
=============================================================================
