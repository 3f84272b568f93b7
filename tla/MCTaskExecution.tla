-------------------------- MODULE MCTaskExecution --------------------------
(* Instances of TaskExecution for TLC: one project, one employee who sends  *)
(* every command.                                                           *)
EXTENDS TaskExecution, TLC

CONSTANTS
  dev, p1,
  first,                  \* the task created before the others
  Confirms, Supplements   \* the messages with these commands; the rest cancel

MCSender == [m \in Message |-> dev]
MCCreator == [t \in Task |-> dev]
MCProjectOf == [t \in Task |-> p1]
MCSlotOf == [w \in Worker |-> p1]
MCCreated == [t \in Task |-> IF t = first THEN 1 ELSE 2]
MCCommandOf == [m \in Message |-> CASE m \in Confirms -> "confirm"
                                    [] m \in Supplements -> "supplement"
                                    [] OTHER -> "cancel"]

Symmetry ==
  Permutations(Task) \cup Permutations(Worker) \cup Permutations(Commit)
    \cup Permutations(Confirms) \cup Permutations(Supplements)
=============================================================================
