------------------------------ MODULE CodexRun ------------------------------
(***************************************************************************)
(* One run of Codex for a task: the leader of a process group, a process   *)
(* that it may leave behind inside or outside the group, the pipe of its   *)
(* events, and the runner that scans the pipe, waits for the leader, stops *)
(* the group, logs the outputs and judges the run.  Processes do as they   *)
(* please; only the runner and its timers can be relied on.                *)
(***************************************************************************)
EXTENDS TaskLog

CONSTANT MaxEvents   \* bound on the events of a run

VARIABLES
  run,      \* the runner
  leader,   \* none, alive, or how it ended: ok, error or killed
  child,    \* what the leader left behind, and the descriptor it holds open
  pipe,     \* the event that was written and not scanned
  output    \* history: pieces of output made, of them logged whole, logged up
            \* to a limit with a note that says so, and cut without a note

codexVars == <<run, leader, child, pipe, output>>

Event == {"thread", "blocked", "bad"}   \* bad: not an object, or too long
Descriptor == {"stdout", "stderr", "final"}   \* final: number 3

NoRun == [pc |-> "start", canceled |-> FALSE, broken |-> FALSE,
          failed |-> FALSE, session |-> FALSE, blocked |-> FALSE,
          final |-> "none", late |-> FALSE, stderr |-> "none", temp |-> FALSE,
          result |-> "none"]
NoChild == [kind |-> "none", holds |-> "none"]
NoOutput == [made |-> 0, whole |-> 0, noted |-> 0, cut |-> 0]

CodexTypeOK ==
  /\ run \in [pc : {"start", "scan", "wait", "log_stderr", "log_final", "judge",
                    "done", "returned"},
              canceled : BOOLEAN, broken : BOOLEAN, failed : BOOLEAN,
              session : BOOLEAN, blocked : BOOLEAN,
              final : {"none", "text", "blocked", "large"}, late : BOOLEAN,
              stderr : {"none", "some", "over"}, temp : BOOLEAN,
              result : {"none", "ok", "blocked", "error"}]
  /\ leader \in {"none", "alive", "ok", "error", "killed"}
  /\ child \in [kind : {"none", "member", "daemon", "gone"},
                holds : Descriptor \cup {"none"}]
  /\ pipe \in Event \cup {"none"}
  /\ output \in [made : 0 .. MaxEvents + 2, whole : 0 .. MaxEvents + 2,
                 noted : 0 .. 2, cut : 0 .. 1]

CodexInit ==
  /\ run = NoRun /\ leader = "none" /\ child = NoChild /\ pipe = "none"
  /\ output = NoOutput

Gone(c) == [kind |-> "gone", holds |-> "none"]
Lives(c) == c.kind \in {"member", "daemon"}
Open(d) == leader = "alive" \/ (Lives(child) /\ child.holds = d)

processFrame == <<file, limited, confirmed, live, faults>>

-----------------------------------------------------------------------------
(* The processes. *)
Emit(e) ==
  /\ leader = "alive" /\ pipe = "none" /\ output.made < MaxEvents
  /\ pipe' = e /\ output' = [output EXCEPT !.made = @ + 1]
  /\ UNCHANGED <<run, leader, child>> /\ UNCHANGED processFrame

(* It matters what is left behind, not when: a child is there from the start. *)
Spawn(kind, holds) ==
  /\ leader = "alive" /\ child = NoChild /\ output.made = 0
  /\ child' = [kind |-> kind, holds |-> holds]
  /\ UNCHANGED <<run, leader, pipe, output>> /\ UNCHANGED processFrame

(* The leader writes its final message to the pipe at descriptor 3, which   *)
(* the runner drains as it comes, and may have written to stderr, also more *)
(* than boundedCapture keeps of it.                                         *)
LeaderExits(code, final, stderr) ==
  /\ leader = "alive" /\ leader' = code
  /\ run' = [run EXCEPT !.final = final, !.stderr = stderr]
  /\ output' = [output EXCEPT !.made = @ + (IF final = "none" THEN 0 ELSE 1)
                                        + (IF stderr = "none" THEN 0 ELSE 1)]
  /\ UNCHANGED <<child, pipe>> /\ UNCHANGED processFrame

ChildExits ==
  /\ Lives(child) /\ child' = Gone(child)
  /\ UNCHANGED <<run, leader, pipe, output>> /\ UNCHANGED processFrame

-----------------------------------------------------------------------------
(* The runner. *)

(* Definitions named Bug... are mistakes to test the properties with (see   *)
(* TaskStatus); they are not part of the specification.                     *)
BugKillLeaderOnly ==
  /\ leader' = IF leader = "alive" THEN "killed" ELSE leader
  /\ UNCHANGED child

(* killProcessGroup: a process that has left the group survives. *)
KillGroup ==
  /\ leader' = IF leader = "alive" THEN "killed" ELSE leader
  /\ child' = IF child.kind = "member" THEN Gone(child) ELSE child

(* Anything that fails before the process runs ends the run; the temporary  *)
(* directory may have been made by then.                                    *)
StartFails ==
  /\ Fails(IF live THEN 1 ELSE 0) /\ UNCHANGED leader
  /\ \E temp \in BOOLEAN :
       run' = [run EXCEPT !.pc = "judge", !.failed = TRUE, !.temp = temp]

StartCodex ==
  /\ run.pc = "start" /\ UNCHANGED <<file, limited, confirmed>>
  /\ UNCHANGED <<live, child, pipe, output>>
  /\ \/ /\ live /\ run' = [run EXCEPT !.pc = "scan", !.temp = TRUE]
        /\ leader' = "alive" /\ UNCHANGED faults
     \/ StartFails

Whole == [output EXCEPT !.whole = @ + 1]
Noted == [output EXCEPT !.noted = @ + 1]

(* A scanned event is logged as it was written; if that fails or it is not  *)
(* an event, the scan ends and the group is killed.                         *)
Scan(n) ==
  /\ run.pc = "scan" /\ pipe # "none" /\ pipe' = "none" /\ UNCHANGED live
  /\ LET scanned == [run EXCEPT !.session = @ \/ pipe = "thread",
                                !.blocked = @ \/ pipe = "blocked"]
         stopped == [scanned EXCEPT !.broken = TRUE, !.pc = "wait"]
     IN \/ /\ pipe # "bad" /\ AppendRecord(n, TRUE) /\ run' = scanned
           /\ output' = Whole
           /\ UNCHANGED <<leader, child>>
        \/ /\ pipe # "bad" /\ AppendRecord(n, FALSE) /\ run' = stopped
           /\ KillGroup /\ UNCHANGED output
        \/ /\ pipe = "bad" /\ run' = stopped /\ KillGroup
           /\ UNCHANGED <<output, file, limited, confirmed, faults>>

runnerFrame == <<file, limited, confirmed, live, faults>>

BugScanEndsWithLeader ==
  /\ run.pc = "scan" /\ ~Open("stdout") /\ ~run.canceled
  /\ run' = [run EXCEPT !.pc = "wait"] /\ pipe' = "none"
  /\ UNCHANGED <<leader, child, output>> /\ UNCHANGED runnerFrame

(* The scan ends when nobody can write to stdout any more. *)
ScanEnds ==
  /\ run.pc = "scan" /\ pipe = "none" /\ ~Open("stdout") /\ ~run.canceled
  /\ run' = [run EXCEPT !.pc = "wait"]
  /\ UNCHANGED <<leader, child, pipe, output>> /\ UNCHANGED runnerFrame

(* Cancel, called once, by the scan's select or by the watcher of Wait,     *)
(* when the worker's context ends or the time of the run is over.           *)
CancelRun ==
  /\ run.pc \in {"scan", "wait"} /\ ~run.canceled
  /\ run' = [run EXCEPT !.canceled = TRUE] /\ KillGroup
  /\ UNCHANGED <<pipe, output>> /\ UNCHANGED runnerFrame

(* Cancel has closed the pipes: what was not scanned is lost. *)
ScanClosed ==
  /\ run.pc = "scan" /\ run.canceled
  /\ run' = [run EXCEPT !.pc = "wait"] /\ pipe' = "none"
  /\ UNCHANGED <<leader, child, output>> /\ UNCHANGED runnerFrame

(* What is read of a message when the drain is cut off. *)
CutOff(final) == {final, "none"} \cup (IF final = "none" THEN {} ELSE {"text"})

(* finishFinalOutput: the drain ends with the pipe, or when its time is up  *)
(* because a process has kept the descriptor; what was read by then is      *)
(* taken for the message, without a word.                                   *)
DrainFinal ==
  LET late == Open("final") IN
  /\ \E final \in IF late THEN CutOff(run.final) ELSE {run.final} :
       run' = [run EXCEPT !.pc = "log_stderr", !.final = final, !.late = late,
                          !.failed = leader # "ok" \/ Open("stderr")]
  /\ output' = IF late /\ run.final # "none" THEN [output EXCEPT !.cut = @ + 1]
                                             ELSE output

BugWaitHasNoDelay ==
  /\ run.pc = "wait" /\ leader # "alive" /\ ~Open("stderr")
  /\ DrainFinal /\ pipe' = "none"
  /\ UNCHANGED <<leader, child>> /\ UNCHANGED runnerFrame

(* Wait returns when the leader has ended and stderr is closed, or, with an *)
(* error, when the delay after the leader's end is over.                    *)
WaitReturns ==
  /\ run.pc = "wait" /\ leader # "alive"
  /\ DrainFinal /\ pipe' = "none"
  /\ UNCHANGED <<leader, child>> /\ UNCHANGED runnerFrame

(* Both outputs are logged, whether or not the first of them could be.      *)
LogOutput(n, present, logged, next) ==
  /\ UNCHANGED <<leader, child, pipe, live>>
  /\ \/ /\ ~present /\ run' = [run EXCEPT !.pc = next]
        /\ UNCHANGED <<output, file, limited, confirmed, faults>>
     \/ /\ present /\ AppendRecord(n, TRUE) /\ run' = [run EXCEPT !.pc = next]
        /\ output' = logged
     \/ /\ present /\ AppendRecord(n, FALSE) /\ UNCHANGED output
        /\ run' = [run EXCEPT !.pc = next, !.failed = TRUE]

LogStderr(n) ==
  /\ run.pc = "log_stderr"
  /\ LogOutput(n, run.stderr # "none",
               IF run.stderr = "over" THEN Noted ELSE Whole, "log_final")

LogFinal(n) ==
  /\ run.pc = "log_final"
  /\ LogOutput(n, run.final # "none",
               IF run.late THEN output
               ELSE IF run.final = "large" THEN Noted ELSE Whole, "judge")

Succeeded(r) ==
  ~r.canceled /\ ~r.broken /\ ~r.failed /\ r.session /\ r.final # "large"

Blocked(r) == r.blocked \/ r.final = "blocked"

(* The verdict; a temporary directory that cannot be removed spoils it.     *)
Judge ==
  /\ run.pc = "judge"
  /\ UNCHANGED <<leader, child, pipe, output, file, limited, confirmed, live>>
  /\ \/ /\ UNCHANGED faults
        /\ run' = [run EXCEPT !.pc = "done", !.temp = FALSE,
             !.result = IF ~Succeeded(run) THEN "error"
                        ELSE IF Blocked(run) THEN "blocked"
                        ELSE "ok"]
     \/ /\ run.temp /\ Fails(1)
        /\ run' = [run EXCEPT !.pc = "done", !.result = "error"]

-----------------------------------------------------------------------------
(* Correctness. *)

(* Everything that was written is in the log: the events as they were       *)
(* written, stderr up to the limit of its capture and then with the note    *)
(* that says so, the final message whole, unless a process held its pipe    *)
(* open until the time of the drain was over.                               *)
Complete ==
  /\ output.made = output.whole + output.noted + output.cut
  /\ output.noted = IF run.stderr = "over" THEN 1 ELSE 0
  /\ output.cut <= IF run.late THEN 1 ELSE 0

(* A run succeeds, or is blocked, only if its process ended well, what it   *)
(* wrote is in the log as far as the log holds it, its session is known and *)
(* its temporary files are gone ("codex stderr truncated" in the log is the *)
(* only sign of a loss; a final message cut off by its time limit has none).*)
SuccessIsComplete ==
  run.pc = "done" /\ run.result \in {"ok", "blocked"} =>
    /\ leader = "ok" /\ run.session /\ ~run.temp
    /\ Complete

(* When a run that was cancelled, ran out of time or broke off is over, no   *)
(* process of its group is left (design document: a cancelled task and a     *)
(* timeout end the whole process group).                                     *)
CancelKillsGroup ==
  /\ run.pc \in {"log_stderr", "log_final", "judge", "done", "returned"}
  /\ run.canceled \/ run.broken
  => leader # "alive" /\ child.kind # "member"

=============================================================================
