------------------------ MODULE GuardedActions_proofs ------------------------
(***************************************************************************)
(* Proofs about GuardedActions: for any number of jobs, printers, tokens   *)
(* and requests an approval lets at most one action through, the one it    *)
(* was issued for, and run_operation consumes it only while its job is     *)
(* still in the state it was approved in.                                  *)
(***************************************************************************)
EXTENDS GuardedActions, TLAPS

LEMMA TableTypes == \A s \in JobState : ALLOWED_TRANSITIONS[s] \subseteq JobState
BY DEF ALLOWED_TRANSITIONS, Forward, JobState, PreparationStates

LEMMA RecoveredTypes == \A s \in JobState : Recovered(s) \in JobState
BY DEF Recovered, JobState, PreparationStates

(* What a record that is a request is made of.                             *)
LEMMA RequestFields ==
  ASSUME NEW r \in Requests, r # NoRequest, Guarded(r.action)
  PROVE  r.job \in Jobs /\ r.token \in Tokens /\ r.action \in Actions
BY DEF Requests, GuardedRequests

LEMMA FileIsGuarded ==
  ASSUME NEW a, ByTool(a)
  PROVE  Guarded(a) /\ ~ByRun(a)
BY DEF ByTool, ByRun, Guarded, NeedsApproval, FileTools, RunTools, GUARDED, EXPERIMENTAL

LEMMA TypeStep == TypeOK /\ ClearedInv /\ [Next]_vars => TypeOK'
<1> SUFFICES ASSUME TypeOK, ClearedInv, [Next]_vars PROVE TypeOK'
  OBVIOUS
<1> USE DEF TypeOK
<1>1. ASSUME NEW t \in Tokens, NEW j \in Jobs, NEW a \in Actions, ApproveGuarded(t, j, a)
      PROVE  TypeOK'
  <2>1. [status |-> "live", job |-> j, action |-> a, state |-> job[j]] \in Approvals
    BY DEF Approvals
  <2> QED BY <1>1, <2>1 DEF ApproveGuarded
<1>2. ASSUME NEW t \in Tokens, approval[t].status = "live",
             NEW s \in {"expired", "used"}, approval' = [approval EXCEPT ![t].status = s]
      PROVE  approval' \in [Tokens -> Approvals]
  <2>1. approval[t] \in Approvals /\ approval[t] # NoApproval
    BY <1>2 DEF NoApproval
  <2>2. [approval[t] EXCEPT !.status = s] \in Approvals
    BY <2>1 DEF Approvals
  <2> QED BY <1>2, <2>2
<1>3. ASSUME NEW t \in Tokens, Expire(t) PROVE TypeOK'
  BY <1>2, <1>3 DEF Expire
<1>4. ASSUME NEW c \in Calls, NEW r \in Requests, RunBegin(c, r) \/ FileBegin(c, r),
             r # NoRequest
      PROVE  TypeOK'
  <2>1. ByTool(r.action) => job[r.job] \in JobState
    BY <1>4, RequestFields, FileIsGuarded
  <2> QED BY <1>4, <2>1 DEF RunBegin, FileBegin, Begin
<1>5. ASSUME NEW c \in Calls, RunAuthorise(c) \/ FileAuthorise(c), req[c] # NoRequest
      PROVE  TypeOK'
  <2>1. req[c].token \in Tokens /\ job[req[c].job] \in JobState
    BY <1>5, RequestFields, FileIsGuarded DEF RunAuthorise, FileAuthorise
  <2> QED BY <1>2, <1>5, <2>1 DEF RunAuthorise, FileAuthorise, Matches, Consume
<1>6. ASSUME NEW c \in Calls, RunPlain(c) \/ Perform(c) \/ Stop(c) PROVE TypeOK'
  BY <1>6 DEF RunPlain, Perform, Stop, Requests
<1>7. ASSUME NEW j \in Jobs, Move(j) PROVE TypeOK'
  BY <1>7, TableTypes DEF Move
<1>8. CASE UNCHANGED vars
  BY <1>8 DEF vars
<1>9. ASSUME NEW c \in Calls, RunAuthorise(c) \/ FileAuthorise(c) PROVE TypeOK'
  BY <1>5, <1>9 DEF RunAuthorise, FileAuthorise, ClearedInv
<1>10. ASSUME NEW flags \in Settings, Restart(flags) PROVE TypeOK'
  BY <1>10, RecoveredTypes DEF Restart, Requests
<1> QED
  BY <1>1, <1>3, <1>4, <1>6, <1>7, <1>8, <1>9, <1>10 DEF Next

(* An approval, once issued, is only ever marked expired or used; a used   *)
(* one stays used; and it is marked used only by clearing a request.       *)
LEMMA ApprovalKept ==
  ASSUME TypeOK, ClearedInv, [Next]_vars, NEW t \in Tokens, approval[t] # NoApproval
  PROVE  /\ approval'[t] # NoApproval
         /\ approval'[t].job = approval[t].job
         /\ approval'[t].action = approval[t].action
         /\ approval'[t].state = approval[t].state
         /\ approval[t].status = "used" => approval'[t].status = "used"
<1> DEFINE Kept ==
      /\ approval'[t] # NoApproval
      /\ approval'[t].job = approval[t].job
      /\ approval'[t].action = approval[t].action
      /\ approval'[t].state = approval[t].state
      /\ approval[t].status = "used" => approval'[t].status = "used"
<1>1. approval \in [Tokens -> Approvals]
      /\ approval[t] \in [status : {"live", "expired", "used"}, job : Jobs,
                          action : Actions, state : JobState]
  BY DEF TypeOK, Approvals
<1>2. ASSUME NEW u \in Tokens, approval[u].status = "live",
             approval' = [approval EXCEPT ![u].status = "expired"]
               \/ approval' = [approval EXCEPT ![u].status = "used"]
      PROVE  Kept
  <2>1. CASE u # t
    BY <1>1, <1>2, <2>1
  <2>2. CASE u = t
    <3>1. PICK j \in Jobs, a \in Actions, s \in JobState :
            approval[t] = [status |-> "live", job |-> j, action |-> a, state |-> s]
      BY <1>1, <1>2, <2>2
    <3>2. \E st \in {"expired", "used"} :
            approval'[t] = [status |-> st, job |-> j, action |-> a, state |-> s]
      BY <1>1, <1>2, <2>2, <3>1
    <3> QED BY <3>1, <3>2 DEF NoApproval
  <2> QED BY <2>1, <2>2
<1>3. ASSUME NEW u \in Tokens, NEW j \in Jobs, NEW a \in Actions, ApproveGuarded(u, j, a)
      PROVE  Kept
  BY <1>1, <1>3 DEF ApproveGuarded
<1>4. ASSUME NEW c \in Calls, RunAuthorise(c) \/ FileAuthorise(c)
      PROVE  Kept
  <2>1. req[c].token \in Tokens
    BY <1>4, RequestFields, FileIsGuarded DEF RunAuthorise, FileAuthorise, ClearedInv, TypeOK
  <2> QED BY <1>2, <1>4, <2>1 DEF RunAuthorise, FileAuthorise, Matches, Consume
<1>5. CASE UNCHANGED approval
  BY <1>5
<1> QED
  BY <1>2, <1>3, <1>4, <1>5
     DEF Next, Expire, RunBegin, FileBegin, Begin, RunPlain, Perform, Stop, Move, Restart,
         vars

(* A request is live while it is under way, and once its action was        *)
(* performed.  A live request keeps what it asks for, and only beginning   *)
(* makes one live.                                                         *)
Live(x) == pc[x] \in {"gateway", "cleared"} \/ x \in performed

LEMMA LiveStep ==
  ASSUME TypeOK, ClearedInv, [Next]_vars, NEW x \in Calls, Live(x)'
  PROVE  \/ Live(x) /\ req'[x] = req[x]
         \/ /\ pc[x] = "idle"
            /\ \E r \in Requests \ {NoRequest} : RunBegin(x, r) \/ FileBegin(x, r)
<1>1. x \in performed => pc[x] = "done"
  BY DEF ClearedInv
<1> QED
  BY <1>1
     DEF Live, TypeOK, Next, vars, ApproveGuarded, Expire, RunBegin, FileBegin, Begin,
         RunPlain, RunAuthorise, FileAuthorise, Perform, Stop, Move, Restart

(* A cleared request stays what it is as long as it stays cleared.         *)
LEMMA ClearedKept ==
  ASSUME TypeOK, ClearedInv, [Next]_vars, NEW x \in Calls, Cleared(x), Cleared(x)'
  PROVE  req'[x] = req[x]
<1>1. Live(x) /\ Live(x)' /\ pc[x] # "idle"
  BY DEF Live, Cleared, ClearedInv
<1> QED BY <1>1, LiveStep

(* What a tool checks before its first await opens the gates.              *)
LEMMA GatesOfTools ==
  ASSUME NEW x \in Calls, NEW r \in Requests, RunBegin(x, r) \/ FileBegin(x, r)
  PROVE  GatesOpen(r)
<1>1. CASE RunBegin(x, r)
  <2>1. r.action \notin NeverExposed
    BY <1>1, ConstantsAssumption DEF RunBegin, ByRun, RunTools, FileTools
  <2> QED BY <1>1, <2>1 DEF RunBegin, RunExposes, operation_named, GatesOpen
<1>2. CASE FileBegin(x, r)
  <2>1. Operation[r.action] \in FileTools /\ r.action \notin NeverExposed /\ Writable(r.printer)
    BY <1>2 DEF FileBegin, ByTool, FileExposes
  <2>2. Operation[r.action] \notin FORBIDDEN
    BY <2>1 DEF FileTools, FORBIDDEN
  <2>3. Operation[r.action] \in EXPERIMENTAL => settings.experimental
    <3>1. Operation[r.action] \in EXPERIMENTAL => Operation[r.action] = "raw_mqtt"
      BY <2>1 DEF FileTools, EXPERIMENTAL
    <3> QED BY <1>2, <3>1 DEF FileBegin, FileExposes, operation_named, EXPERIMENTAL
  <2> QED BY <2>1, <2>2, <2>3 DEF GatesOpen
<1> QED BY <1>1, <1>2

(* A request that a step clears presents a live approval of its job and    *)
(* action, which the step marks used, and no other request is cleared.     *)
LEMMA ClearedStep ==
  ASSUME TypeOK, ClearedInv, [Next]_vars, NEW x \in Calls, ~Cleared(x), Cleared(x)'
  PROVE  /\ pc[x] = "gateway" /\ req[x].token \in Tokens
         /\ approval[req[x].token].status = "live"
         /\ approval[req[x].token].job = req[x].job
         /\ approval[req[x].token].action = req[x].action
         /\ approval'[req[x].token].status = "used"
         /\ req'[x] = req[x] /\ req[x] # NoRequest
         /\ ByRun(req[x].action) =>
              /\ PrinterOf[req[x].job] = req[x].printer
              /\ approval[req[x].token].state = job[req[x].job]
         /\ \A y \in Calls \ {x} : Cleared(y)' => Cleared(y)
<1>1. RunAuthorise(x) \/ FileAuthorise(x)
  <2>1. Live(x)' /\ (x \in performed => pc[x] = "done")
    BY DEF Live, Cleared, ClearedInv
  <2>2. ASSUME NEW r \in Requests, RunBegin(x, r) \/ FileBegin(x, r) PROVE FALSE
    BY <2>1, <2>2 DEF RunBegin, FileBegin, Begin, Cleared, TypeOK
  <2>3. Live(x) /\ req'[x] = req[x]
    BY <2>1, <2>2, LiveStep
  <2>4. Guarded(req[x].action) /\ pc[x] = "gateway" /\ x \notin performed
    BY <2>3 DEF Live, Cleared
  <2>5. pc'[x] = "cleared"
    BY <2>4
       DEF Cleared, TypeOK, Next, vars, ApproveGuarded, Expire, RunBegin, FileBegin, Begin,
           RunPlain, RunAuthorise, FileAuthorise, Perform, Stop, Move, Restart
  <2> QED
    BY <2>4, <2>5
       DEF TypeOK, Next, vars, ApproveGuarded, Expire, RunBegin, FileBegin, Begin,
           RunPlain, RunAuthorise, FileAuthorise, Perform, Stop, Move, Restart
<1>2. req[x].token \in Tokens
  BY <1>1, RequestFields, FileIsGuarded DEF RunAuthorise, FileAuthorise, ClearedInv, TypeOK
<1>3. approval'[req[x].token].status = "used"
  <2>1. approval[req[x].token] \in Approvals /\ approval[req[x].token].status = "live"
    BY <1>1, <1>2 DEF RunAuthorise, FileAuthorise, Matches, TypeOK
  <2>2. PICK j \in Jobs, a \in Actions, s \in JobState :
          approval[req[x].token] = [status |-> "live", job |-> j, action |-> a, state |-> s]
    BY <2>1 DEF Approvals, NoApproval
  <2>3. approval' = [approval EXCEPT ![req[x].token].status = "used"]
    BY <1>1 DEF RunAuthorise, FileAuthorise, Consume
  <2> QED BY <1>2, <2>2, <2>3 DEF TypeOK
<1>4. ByRun(req[x].action) => RunAuthorise(x)
  BY <1>1, FileIsGuarded DEF FileAuthorise
<1>6. req'[x] = req[x] /\ req[x] # NoRequest
  BY <1>1 DEF RunAuthorise, FileAuthorise, ClearedInv
<1>5. \A y \in Calls \ {x} : Cleared(y)' => Cleared(y)
  BY <1>1 DEF RunAuthorise, FileAuthorise, Cleared, TypeOK
<1> QED
  BY <1>1, <1>2, <1>3, <1>4, <1>5, <1>6 DEF RunAuthorise, FileAuthorise, Matches

LEMMA ClearedStepInv == TypeOK /\ ClearedInv /\ [Next]_vars => ClearedInv'
<1> SUFFICES ASSUME TypeOK, ClearedInv, [Next]_vars PROVE ClearedInv'
  OBVIOUS
<1> DEFINE Holds(x) ==
      /\ approval[req[x].token] # NoApproval
      /\ approval[req[x].token].status = "used"
      /\ approval[req[x].token].job = req[x].job
      /\ approval[req[x].token].action = req[x].action
      /\ ByRun(req[x].action) => PrinterOf[req[x].job] = req[x].printer
<1>1. ASSUME NEW x \in Calls, Live(x)'
      PROVE  req'[x] # NoRequest
  <2>1. CASE Live(x) /\ req'[x] = req[x]
    BY <2>1 DEF Live, ClearedInv
  <2>2. ASSUME NEW r \in Requests \ {NoRequest}, RunBegin(x, r) \/ FileBegin(x, r)
        PROVE  req'[x] # NoRequest
    BY <2>2 DEF RunBegin, FileBegin, Begin, TypeOK
  <2> QED BY <1>1, <2>1, <2>2, LiveStep
<1>2. ASSUME NEW x \in Calls, x \in performed'
      PROVE  pc'[x] = "done"
  <2>1. x \in performed => pc[x] = "done"
    BY DEF ClearedInv
  <2> QED
    BY <1>2, <2>1
       DEF TypeOK, Next, vars, ApproveGuarded, Expire, RunBegin, FileBegin, Begin,
           RunPlain, RunAuthorise, FileAuthorise, Perform, Stop, Move, Restart
<1>3. ASSUME NEW x \in Calls, Cleared(x), Cleared(x)'
      PROVE  req'[x] = req[x] /\ Holds(x)'
  <2>1. req[x] # NoRequest /\ Guarded(req[x].action) /\ Holds(x)
    BY <1>3 DEF Cleared, ClearedInv
  <2>2. req'[x] = req[x]
    BY <1>3, ClearedKept
  <2>3. req[x].token \in Tokens
    BY <2>1, RequestFields DEF TypeOK
  <2> QED BY <2>1, <2>2, <2>3, ApprovalKept
<1>4. ASSUME NEW x \in Calls, ~Cleared(x), Cleared(x)'
      PROVE  req'[x] = req[x] /\ Holds(x)'
  <2>1. pc[x] = "gateway" /\ req[x].token \in Tokens /\ req'[x] = req[x]
    BY <1>4, ClearedStep
  <2>2. approval[req[x].token] # NoApproval
    BY <1>4, ClearedStep DEF NoApproval
  <2> QED BY <1>4, <2>1, <2>2, ClearedStep, ApprovalKept
<1>5. ASSUME NEW x \in Calls, NEW y \in Calls, Cleared(x)', Cleared(y)',
             req'[x].token = req'[y].token, x # y
      PROVE  FALSE
  <2>1. CASE Cleared(x) /\ Cleared(y)
    BY <1>3, <1>5, <2>1 DEF ClearedInv
  <2>2. CASE ~Cleared(x) \/ ~Cleared(y)
    <3>1. PICK u \in {x, y} : ~Cleared(u)
      BY <2>2
    <3>2. PICK v \in {x, y} : v # u
      BY <1>5
    <3>3. u \in Calls /\ v \in Calls /\ Cleared(u)' /\ Cleared(v)'
          /\ req'[u].token = req'[v].token
      BY <1>5, <3>1, <3>2
    <3>4. Cleared(v)
      BY <3>1, <3>2, <3>3, ClearedStep
    <3>5. req'[u] = req[u] /\ req'[v] = req[v]
      BY <1>3, <1>4, <3>1, <3>3, <3>4
    <3>6. approval[req[u].token].status = "live" /\ approval[req[v].token].status = "used"
      BY <3>1, <3>3, <3>4, ClearedStep DEF ClearedInv
    <3> QED BY <3>3, <3>5, <3>6
  <2> QED BY <2>1, <2>2
<1>6. ASSUME NEW x \in Calls, Cleared(x)'
      PROVE  Holds(x)'
  BY <1>3, <1>4, <1>6
<1> HIDE DEF Holds
<1>7. \A x \in Calls :
        /\ pc'[x] \in {"gateway", "cleared"} \/ x \in performed' => req'[x] # NoRequest
        /\ x \in performed' => pc'[x] = "done"
        /\ Cleared(x)' => Holds(x)'
  BY <1>1, <1>2, <1>6 DEF Live
<1> QED
  BY <1>5, <1>7 DEF ClearedInv, Holds

(* The settings only change when nothing is under way.                     *)
LEMMA ExposedStepInv == TypeOK /\ ClearedInv /\ ExposedInv /\ [Next]_vars => ExposedInv'
<1> SUFFICES ASSUME TypeOK, ClearedInv, ExposedInv, [Next]_vars, NEW x \in Calls,
                    pc'[x] \in {"gateway", "cleared"}
             PROVE  GatesOpen(req[x])'
  BY DEF ExposedInv
<1>1. settings' = settings
  BY DEF TypeOK, Next, vars, ApproveGuarded, Expire, RunBegin, FileBegin, Begin,
         RunPlain, RunAuthorise, FileAuthorise, Perform, Stop, Move, Restart
<1>2. Live(x)'
  BY DEF Live
<1>3. CASE Live(x) /\ req'[x] = req[x]
  <2>1. pc[x] \in {"gateway", "cleared"}
    BY <1>3
       DEF ClearedInv, Live, TypeOK, Next, vars, ApproveGuarded, Expire, RunBegin,
           FileBegin, Begin, RunPlain, RunAuthorise, FileAuthorise, Perform, Stop, Move,
           Restart
  <2> QED BY <1>1, <1>3, <2>1 DEF ExposedInv, GatesOpen, Writable
<1>4. ASSUME NEW r \in Requests \ {NoRequest}, RunBegin(x, r) \/ FileBegin(x, r)
      PROVE  GatesOpen(req[x])'
  <2>1. req'[x] = r
    BY <1>4 DEF RunBegin, FileBegin, Begin, TypeOK
  <2>2. GatesOpen(r)
    BY <1>4, GatesOfTools
  <2> QED BY <1>1, <2>1, <2>2 DEF GatesOpen, Writable
<1> QED BY <1>2, <1>3, <1>4, LiveStep

LEMMA IssuedStepInv == TypeOK /\ ClearedInv /\ IssuedInv /\ [Next]_vars => IssuedInv'
<1> SUFFICES ASSUME TypeOK, ClearedInv, IssuedInv, [Next]_vars, NEW t \in Tokens,
                    approval'[t] # NoApproval
             PROVE  approval'[t].state \notin TERMINAL_STATES
  BY DEF IssuedInv
<1>1. CASE approval[t] # NoApproval
  BY <1>1, ApprovalKept DEF IssuedInv
<1>2. CASE approval[t] = NoApproval
  <2>1. ASSUME NEW c \in Calls, RunAuthorise(c) \/ FileAuthorise(c)
        PROVE  approval'[t] = approval[t]
    <3>1. req[c].token # t
      BY <1>2, <2>1 DEF RunAuthorise, FileAuthorise, Matches, NoApproval
    <3> QED BY <2>1, <3>1 DEF RunAuthorise, FileAuthorise, Consume, TypeOK
  <2>2. ASSUME NEW u \in Tokens, Expire(u)
        PROVE  approval'[t] = approval[t]
    <3>1. u # t
      BY <1>2, <2>2 DEF Expire, NoApproval
    <3> QED BY <2>2, <3>1 DEF Expire, TypeOK
  <2>3. ASSUME NEW u \in Tokens, NEW j \in Jobs, NEW a \in Actions, ApproveGuarded(u, j, a),
               approval'[t] # approval[t]
        PROVE  approval'[t].state \notin TERMINAL_STATES
    BY <2>3 DEF ApproveGuarded, TypeOK
  <2> QED
    BY <1>2, <2>1, <2>2, <2>3
       DEF Next, vars, RunBegin, FileBegin, Begin, RunPlain, Perform, Stop, Move, Restart
<1> QED BY <1>1, <1>2

-----------------------------------------------------------------------------
(* The theorems.                                                           *)

(* The inductive invariant holds in every reachable state.                 *)
THEOREM Inductive == Spec => []IndInv
<1>1. Init => IndInv
  <2> SUFFICES ASSUME Init PROVE IndInv
    OBVIOUS
  <2>1. TypeOK
    BY DEF Init, TypeOK, Approvals, Requests, JobState
  <2>2. ClearedInv /\ ExposedInv /\ IssuedInv
    BY DEF Init, ClearedInv, Cleared, ExposedInv, IssuedInv
  <2> QED BY <2>1, <2>2 DEF IndInv
<1>2. IndInv /\ [Next]_vars => IndInv'
  BY TypeStep, ClearedStepInv, ExposedStepInv, IssuedStepInv DEF IndInv
<1> QED BY <1>1, <1>2, PTL DEF Spec

(* However many requests present it, an approval lets one action through.  *)
THEOREM OneActionEach == Spec => []OneActionPerApproval
<1>1. IndInv => OneActionPerApproval
  BY DEF IndInv, ClearedInv, Cleared, NeededApproval, OneActionPerApproval
<1> QED BY <1>1, Inductive, PTL

(* What reaches a printer is the approved action of the approved job.      *)
THEOREM AsApproved == Spec => []PerformedAsApproved
<1>1. IndInv => PerformedAsApproved
  BY DEF IndInv, ClearedInv, Cleared, NeededApproval, PerformedAsApproved
<1> QED BY <1>1, Inductive, PTL

(* run_operation never consumes the approval of a job that has moved on.   *)
THEOREM RunStateApproved == Spec => RunInTheApprovedState
<1> DEFINE Fresh ==
      \A c \in Calls :
        pc[c] = "gateway" /\ pc'[c] = "cleared" /\ Guarded(req[c].action)
          /\ ByRun(req[c].action) =>
          /\ approval[req[c].token].state = job[req[c].job]
          /\ job[req[c].job] \notin TERMINAL_STATES
<1>1. IndInv /\ [Next]_vars => [Fresh]_vars
  <2> SUFFICES ASSUME IndInv, [Next]_vars, NEW c \in Calls,
                      pc[c] = "gateway", pc'[c] = "cleared", Guarded(req[c].action),
                      ByRun(req[c].action)
               PROVE  /\ approval[req[c].token].state = job[req[c].job]
                      /\ job[req[c].job] \notin TERMINAL_STATES
    OBVIOUS
  <2>1. ~Cleared(c) /\ Cleared(c)'
    <3>1. Live(c)' /\ pc[c] # "idle" /\ c \notin performed
      BY DEF Live, IndInv, ClearedInv
    <3>2. req'[c] = req[c]
      BY <3>1, LiveStep DEF IndInv
    <3> QED BY <3>1, <3>2 DEF Cleared
  <2>2. /\ approval[req[c].token].state = job[req[c].job]
        /\ req[c].token \in Tokens /\ approval[req[c].token] # NoApproval
    BY <2>1, ClearedStep DEF IndInv, NoApproval
  <2> QED BY <2>2 DEF IndInv, IssuedInv
<1> QED BY <1>1, Inductive, PTL DEF Spec, RunInTheApprovedState

(* What reaches a printer passes the gates of the settings of that moment. *)
THEOREM GatesHold == Spec => ExposedWhenPerformed
<1>1. IndInv /\ [Next]_vars => [\A c \in performed' \ performed : GatesOpen(req[c])]_vars
  <2> SUFFICES ASSUME IndInv, [Next]_vars, NEW c \in performed' \ performed
               PROVE  GatesOpen(req[c])
    OBVIOUS
  <2>1. c \in Calls /\ pc[c] = "cleared"
    BY DEF Next, vars, ApproveGuarded, Expire, RunBegin, FileBegin, Begin, RunPlain,
           RunAuthorise, FileAuthorise, Perform, Stop, Move, Restart
  <2> QED BY <2>1 DEF IndInv, ExposedInv
<1> QED BY <1>1, Inductive, PTL DEF Spec, ExposedWhenPerformed

=============================================================================
