--------------------------- MODULE CommandOutcome ---------------------------
(***************************************************************************)
(* What a caller of gateway.command may rely on, whatever the connection   *)
(* does.  A command has one outcome.  An answer says what the printer did  *)
(* with a copy of the command, and once the caller has it no further copy  *)
(* is sent; copies already sent may still be acted on.  An error says      *)
(* nothing: the command may have taken effect, once or more, or still do   *)
(* so.  Answers are told apart by sequence number, so a command whose      *)
(* number somebody else used too may get somebody else's answer.           *)
(* MqttCommands implements this.                                           *)
(***************************************************************************)
EXTENDS Naturals

CONSTANT Calls

VARIABLES
  outcome,   \* what the caller knows
  copies,    \* copies of each command on their way to the printer
  verdicts,  \* what the printer did with the copies it received
  shared     \* the commands whose number somebody else used

vars == <<outcome, copies, verdicts, shared>>

Answers == {"success", "failed"}

Init ==
  /\ outcome = [c \in Calls |-> "idle"]
  /\ copies = [c \in Calls |-> 0]
  /\ verdicts = [c \in Calls |-> {}]
  /\ shared = {}

(* A command is issued; its number may be one that others use.             *)
Ask(c) ==
  /\ outcome[c] = "idle"
  /\ outcome' = [outcome EXCEPT ![c] = "pending"]
  /\ shared \subseteq shared' /\ shared' \subseteq Calls
  /\ UNCHANGED <<copies, verdicts>>

(* A copy is sent, for a caller that waits or one that was told an error.  *)
Send(c) ==
  /\ outcome[c] \in {"pending", "error"}
  /\ copies' = [copies EXCEPT ![c] = @ + 1]
  /\ UNCHANGED <<outcome, verdicts, shared>>

(* The printer carries out a copy or refuses it, even after the caller is  *)
(* gone.                                                                   *)
Act(c, result) ==
  /\ copies[c] > 0
  /\ copies' = [copies EXCEPT ![c] = @ - 1]
  /\ verdicts' = [verdicts EXCEPT ![c] = @ \cup {result}]
  /\ UNCHANGED <<outcome, shared>>

Answer(c, result) ==
  /\ outcome[c] = "pending"
  /\ result \in verdicts[c] \/ c \in shared
  /\ outcome' = [outcome EXCEPT ![c] = result]
  /\ UNCHANGED <<copies, verdicts, shared>>

(* A timeout, a lost connection or a restart ends some commands.           *)
Fail(C) ==
  /\ \A c \in C : outcome[c] = "pending"
  /\ outcome' = [c \in Calls |-> IF c \in C THEN "error" ELSE outcome[c]]
  /\ UNCHANGED <<copies, verdicts, shared>>

Next ==
  \/ \E c \in Calls : Ask(c) \/ Send(c)
  \/ \E c \in Calls, result \in Answers : Act(c, result) \/ Answer(c, result)
  \/ \E C \in SUBSET Calls : Fail(C)

Spec == Init /\ [][Next]_vars
=============================================================================
