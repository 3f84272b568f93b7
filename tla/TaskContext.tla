---------------------------- MODULE TaskContext ----------------------------
(* What the parts of a task's work share: the context that a cancelled task *)
(* or the end of the application closes, and one bound on the failures of   *)
(* the system around the program (disk, git, sockets, the process itself).  *)
EXTENDS Naturals

CONSTANT MaxFaults

ASSUME FaultBound == MaxFaults \in Nat

VARIABLES
  live,    \* the context of the worker has not been cancelled
  faults

Fails(n) ==
  /\ faults + n <= MaxFaults
  /\ faults' = faults + n

=============================================================================
