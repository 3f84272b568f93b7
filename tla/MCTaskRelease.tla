--------------------------- MODULE MCTaskRelease ---------------------------
(* Instances of TaskRelease for TLC: one project whose administrator sends   *)
(* every command.                                                            *)
EXTENDS TaskRelease, TLC

CONSTANTS
  boss, dev, p1,
  Merges, Deploys, Supplements   \* the messages with these commands; the rest cancel

MCSender == [m \in Message |-> boss]
MCCreator == [t \in Task |-> dev]
MCProjectOf == [t \in Task |-> p1]
(* A task stands for the commit that it has pushed. *)
MCTaskCommit == [t \in Task |-> t]
MCCommandOf == [m \in Message |-> CASE m \in Merges -> "merge"
                                    [] m \in Deploys -> "deploy"
                                    [] m \in Supplements -> "supplement"
                                    [] OTHER -> "cancel"]

Awaiting == {t \in Task : rows[t].status = "awaiting_merge_approval"}

(* Every task is to be merged, one of them to be deployed, with one fault   *)
(* less than the bound.                                                     *)
Rivals ==
  /\ Awaiting = Task
  /\ \E m \in Deploys : inbox = Merges \cup {m}
  /\ faults = IF MaxFaults = 0 THEN 0 ELSE MaxFaults - 1

(* One task gets every command, with all the faults. *)
Retries == Cardinality(Awaiting) = 1 /\ inbox = Message /\ faults = 0

MCInit == Init /\ (Rivals \/ Retries)
RivalsInit == Init /\ Rivals

MCSpec == MCInit /\ [][Next]_vars
RivalsSpec == RivalsInit /\ [][Next]_vars
MCFairSpec == RivalsSpec /\ Fairness

Symmetry ==
  Permutations(Task) \cup Permutations(Merges) \cup Permutations(Deploys)
    \cup Permutations(Supplements)
=============================================================================
