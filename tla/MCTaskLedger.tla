---------------------------- MODULE MCTaskLedger ----------------------------
(* Instances of TaskLedger for TLC. *)
EXTENDS TaskLedger, TLC

CONSTANTS
  Pushed,        \* tasks that start in status pushed
  DevMessages,   \* messages of the employee who creates every task
  boss, dev,     \* the administrator, who sends all the others, and that employee
  p1

MCSender == [m \in Message |-> IF m \in DevMessages THEN dev ELSE boss]
MCCreator == [t \in Task |-> dev]
MCProjectOf == [t \in Task |-> p1]

Symmetry ==
  Permutations(DevMessages) \cup Permutations(Message \ DevMessages)

(* Nothing else has to be bounded: every stage that a crash leads to is left  *)
(* only by a command, and each command consumes one of the messages.         *)

(* Some tasks start when they have been pushed, so that messages are left    *)
(* for their release; the others start at their beginning.                  *)
PushedRow(c) == [status |-> "pushed", exec |-> "session", commit |-> c,
                 rc |-> NoCommit, key |-> NoCommit]

MCInit ==
  /\ \E c \in Commit : tasks = [t \in Task |-> IF t \in Pushed THEN PushedRow(c)
                                                ELSE NoRow]
  /\ approvals = [m \in Message |-> NoApproval]
  /\ lastApproval = 0
  /\ locks = [p \in Project |-> NoMessage]
  /\ processed = Pushed
  /\ claims = [m \in Message |-> "none"]
  /\ up = TRUE
  /\ calls = [m \in Message |-> 0]

MCSpec == MCInit /\ [][Next]_vars
=============================================================================
