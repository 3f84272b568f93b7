--------------------------- MODULE TaskWorkProofs ---------------------------
(* Proofs about the work on a task.  Each property of a part rests on an     *)
(* invariant of that part, which most steps leave alone; WorkInv relates     *)
(* the parts to the phase of the work.                                       *)
EXTENDS TaskWork, TaskLogProofs, FiniteSetTheorems

-----------------------------------------------------------------------------
(* The log. *)

(* What a step of the work may do to the log. *)
LogMoves ==
  \/ UNCHANGED logVars
  \/ \E n \in EntryBytes, ok \in BOOLEAN : AppendRecord(n, ok)
  \/ limited' = FALSE /\ UNCHANGED <<file, confirmed>>
  \/ limited' = FALSE /\ \E n \in EntryBytes : DieInAppend(n)
  \/ \E ok \in BOOLEAN : RemoveLog(ok)

LEMMA LogMovesKeep ==
  ASSUME LogInv, LogMoves
  PROVE  LogInv'
<1> limited \in BOOLEAN
  BY DEF LogInv, LogTypeOK
<1>1. CASE UNCHANGED logVars
  BY <1>1, SameFileKeeps DEF logVars
<1>2. CASE \E n \in EntryBytes, ok \in BOOLEAN : AppendRecord(n, ok)
  BY <1>2, AppendRecordKeeps
<1>3. CASE limited' = FALSE /\ UNCHANGED <<file, confirmed>>
  BY <1>3, SameFileKeeps
<1>4. CASE limited' = FALSE /\ \E n \in EntryBytes : DieInAppend(n)
  BY <1>4, DieInAppendKeeps
<1>5. CASE \E ok \in BOOLEAN : RemoveLog(ok)
  BY <1>5, RemoveLogKeeps
<1> QED
  BY <1>1, <1>2, <1>3, <1>4, <1>5 DEF LogMoves

LEMMA ProcessesLeaveLog == RunProcesses => LogMoves
BY DEF RunProcesses, Processes, Emit, Spawn, LeaderExits, ChildExits,
       processFrame, LogMoves, logVars

LEMMA RunnerMovesLog == RunCodex => LogMoves
<1> SUFFICES ASSUME Runner PROVE LogMoves
  BY DEF RunCodex
<1>1. CASE StartCodex
  BY <1>1 DEF StartCodex, LogMoves, logVars
<1>2. CASE ScanEnds \/ CancelRun \/ ScanClosed \/ WaitReturns
  BY <1>2 DEF ScanEnds, CancelRun, ScanClosed, WaitReturns, runnerFrame,
              LogMoves, logVars
<1>3. CASE Judge
  BY <1>3 DEF Judge, LogMoves, logVars
<1>4. CASE \E n \in EntryBytes : Scan(n) \/ LogStderr(n) \/ LogFinal(n)
  BY <1>4 DEF Scan, LogStderr, LogFinal, LogOutput, LogMoves, logVars
<1> QED
  BY <1>1, <1>2, <1>3, <1>4 DEF Runner

LEMMA StepMovesLog == Next => LogMoves
<1> SUFFICES ASSUME Next PROVE LogMoves
  OBVIOUS
<1>1. CASE SyncProject \/ PrepareTree \/ Checkpoint
  BY <1>1 DEF SyncProject, PrepareTree, Checkpoint, LogMoves
<1>2. CASE RunProcesses \/ RunCodex
  BY <1>2, ProcessesLeaveLog, RunnerMovesLog
<1>3. CASE CodexReturns
  BY <1>3 DEF CodexReturns, LogMoves
<1>4. CASE \E n \in EntryBytes : StartCheck(n) \/ EndCheck(n)
  BY <1>4 DEF StartCheck, EndCheck, LogMoves
<1>5. CASE RunCheck \/ ChecksPassed \/ Survivor \/ Validate
  BY <1>5 DEF RunCheck, ChecksPassed, Survivor, Validate, LogMoves
<1>6. CASE CallHelper \/ CallReturns \/ Approve
  BY <1>6 DEF CallHelper, CallReturns, Approve, LogMoves
<1>7. CASE BundleCommit \/ HelperActs
  BY <1>7 DEF BundleCommit, Bundle, HelperActs, Help, logFrame, LogMoves, logVars
<1>8. CASE CallEnds
  BY <1>8 DEF CallEnds, KillHelper, Respond, logFrame, LogMoves, logVars
<1>9. CASE OthersPush
  BY <1>9 DEF OthersPush, ForeignPush, logFrame, LogMoves, logVars
<1>10. CASE Cancel \/ Recover \/ CleanTree \/ CleanLog
  BY <1>10 DEF Cancel, Recover, CleanTree, CleanLog, LogMoves
<1>11. CASE Die
  BY <1>11 DEF Die, LogMoves
<1> QED
  BY <1>1, <1>2, <1>3, <1>4, <1>5, <1>6, <1>7, <1>8, <1>9, <1>10, <1>11 DEF Next

(* Whatever fails, is killed or dies during the work on a task, its log      *)
(* keeps what was confirmed, its limit and its marker.                       *)
THEOREM LogOfWorkIsSound == Spec => []LogSound
<1>1. Init => LogInv
  BY LogInitInv DEF Init
<1>2. LogInv /\ [Next]_vars => LogInv'
  <2>1. UNCHANGED vars => LogMoves
    BY DEF vars, LogMoves
  <2> QED
    BY <2>1, StepMovesLog, LogMovesKeep
<1>3. LogInv => LogSound
  BY DEF LogInv
<1> QED
  BY <1>1, <1>2, <1>3, PTL DEF Spec

-----------------------------------------------------------------------------
(* The Codex run. *)

Outputs == [made : Nat, whole : Nat, noted : Nat, cut : Nat]

RunType ==
  [pc : {"start", "scan", "wait", "log_stderr", "log_final", "judge", "done",
         "returned"},
   canceled : BOOLEAN, broken : BOOLEAN, failed : BOOLEAN, session : BOOLEAN,
   blocked : BOOLEAN, final : {"none", "text", "blocked", "large"}, late : BOOLEAN,
   stderr : {"none", "some", "over"}, temp : BOOLEAN,
   result : {"none", "ok", "blocked", "error"}]

RunShape ==
  /\ run \in RunType
  /\ leader \in {"none", "alive", "ok", "error", "killed"}
  /\ child \in [kind : {"none", "member", "daemon", "gone"},
                holds : Descriptor \cup {"none"}]
  /\ pipe \in Event \cup {"none"}
  /\ output \in Outputs

(* Before it starts a run has nothing; a leader that lives has not written   *)
(* its final message, and somebody scans or has to kill it.                  *)
Phases ==
  /\ run.pc = "start" =>
       run = NoRun /\ leader = "none" /\ output = NoOutput /\ pipe = "none"
  /\ leader = "alive" =>
       run.pc \in {"scan", "wait"} /\ run.final = "none" /\ run.stderr = "none"
  /\ run.pc \in {"log_stderr", "log_final", "judge", "done", "returned"} =>
       pipe = "none"

(* Cancelling and breaking off kill the group, which cannot grow again.      *)
Stopped ==
  run.canceled \/ run.broken => leader # "alive" /\ child.kind # "member"

Sound(r) == ~r.canceled /\ ~r.broken /\ ~r.failed

(* Output that was made and will still be logged. *)
One(P) == IF P THEN 1 ELSE 0
Pending ==
  One(pipe # "none")
  + One(run.stderr # "none" /\ run.pc \in {"scan", "wait", "log_stderr"})
  + One(/\ run.final # "none" /\ ~run.late
        /\ run.pc \in {"scan", "wait", "log_stderr", "log_final"})

Accounted ==
  /\ run.pc \in {"scan", "wait", "log_stderr", "log_final", "judge"} /\ Sound(run) =>
       output.made = output.whole + output.noted + output.cut + Pending
  /\ run.pc = "log_final" \/ (run.pc = "judge" /\ run.final # "large") =>
       (Sound(run) => output.noted = One(run.stderr = "over"))
  /\ run.pc \notin {"done", "returned"} => output.cut <= One(run.late)
  /\ run.pc \in {"start", "scan", "wait", "log_stderr"} => output.noted = 0
  /\ run.pc = "wait" /\ ~run.canceled /\ ~run.broken =>
       leader # "alive" /\ pipe = "none"
  /\ run.pc \in {"log_stderr", "log_final", "judge"} /\ Sound(run) => leader = "ok"
  /\ run.pc \notin {"done", "returned"} => run.result = "none"
  /\ run.pc \in {"start", "scan", "wait"} => ~run.failed /\ ~run.late

CodexInv == RunShape /\ Phases /\ Stopped /\ Accounted /\ SuccessIsComplete

LEMMA CodexInitInv == CodexInit => CodexInv
BY DEF CodexInit, CodexInv, RunShape, RunType, Phases, Stopped, Sound, One, Pending,
   Accounted,
       SuccessIsComplete, Complete, NoRun, NoChild, NoOutput, Outputs, Descriptor, Event

LEMMA EmitKeeps ==
  ASSUME CodexInv, NEW e \in Event, Emit(e) PROVE CodexInv'
<1>1. /\ RunShape' /\ output'.made = output.made + 1
      /\ output'.whole = output.whole /\ output'.noted = output.noted
      /\ output'.cut = output.cut
  BY DEF CodexInv, RunShape, RunType, Outputs, Emit, Event
<1>2. Phases' /\ Stopped'
  BY DEF CodexInv, Phases, Stopped, Emit
<1>3. Accounted'
  BY <1>1 DEF CodexInv, RunShape, RunType, Outputs, Phases, Accounted, Stopped, Sound,
     One, Pending,
              Emit, Event
<1>4. SuccessIsComplete'
  BY DEF CodexInv, Phases, SuccessIsComplete, Accounted, Emit
<1> QED
  BY <1>1, <1>2, <1>3, <1>4 DEF CodexInv

LEMMA SpawnKeeps ==
  ASSUME CodexInv, NEW kind \in {"member", "daemon"}, NEW d \in Descriptor \cup {"none"},
         Spawn(kind, d)
  PROVE  CodexInv'
<1>1. RunShape'
  BY DEF CodexInv, RunShape, RunType, Spawn
<1>2. Phases' /\ Stopped' /\ Accounted' /\ SuccessIsComplete'
  BY DEF CodexInv, Phases, Stopped, Accounted, SuccessIsComplete, Complete, Sound, One,
         Pending, Spawn
<1> QED
  BY <1>1, <1>2 DEF CodexInv

LEMMA ChildExitsKeeps ==
  ASSUME CodexInv, ChildExits PROVE CodexInv'
<1>1. RunShape' /\ child'.kind = "gone"
  BY DEF CodexInv, RunShape, RunType, ChildExits, Gone
<1>2. Phases' /\ Stopped' /\ Accounted' /\ SuccessIsComplete'
  BY <1>1 DEF CodexInv, Phases, Stopped, Accounted, SuccessIsComplete, Complete, Sound,
              One, Pending, ChildExits
<1> QED
  BY <1>1, <1>2 DEF CodexInv

LEMMA LeaderExitsKeeps ==
  ASSUME CodexInv, NEW code \in {"ok", "error"},
         NEW stderr \in {"none", "some", "over"},
         NEW final \in {"none", "text", "blocked", "large"},
         LeaderExits(code, final, stderr)
  PROVE  CodexInv'
<1>1. /\ run' = [run EXCEPT !.final = final, !.stderr = stderr]
      /\ leader = "alive" /\ leader' = code /\ UNCHANGED <<child, pipe>>
  BY DEF LeaderExits
<1>2. /\ output'.made = output.made + One(final # "none") + One(stderr # "none")
      /\ output'.whole = output.whole /\ output'.noted = output.noted
      /\ output'.cut = output.cut /\ output' \in Outputs
  BY DEF LeaderExits, CodexInv, RunShape, RunType, Outputs, One
<1>3. /\ RunShape' /\ run'.final = final /\ run'.stderr = stderr
      /\ run'.pc = run.pc /\ run'.canceled = run.canceled /\ run'.broken = run.broken
      /\ run'.failed = run.failed /\ run'.result = run.result /\ run'.late = run.late
  BY <1>1, <1>2 DEF CodexInv, RunShape, RunType
<1>4. run.pc \in {"scan", "wait"} /\ run.final = "none" /\ run.stderr = "none"
      /\ ~run.canceled /\ ~run.broken
  BY <1>1 DEF CodexInv, Phases, Stopped
<1>5. run.pc = "scan"
  BY <1>1, <1>4 DEF CodexInv, Accounted
<1>6. Phases' /\ Stopped' /\ SuccessIsComplete'
  BY <1>1, <1>3, <1>4, <1>5 DEF CodexInv, Phases, Stopped, SuccessIsComplete, Accounted
<1>7. Sound(run) =>
        output.made = output.whole + output.noted + output.cut + One(pipe # "none")
  BY <1>4, <1>5 DEF CodexInv, Accounted, Pending, One, RunShape, RunType, Outputs
<1>8. ~run.late
  BY <1>5 DEF CodexInv, Accounted
<1>9. Accounted'
  BY <1>1, <1>2, <1>3, <1>4, <1>5, <1>7, <1>8
  DEF Accounted, Pending, One, Sound, CodexInv, RunShape, RunType, Outputs
<1> QED
  BY <1>3, <1>6, <1>9 DEF CodexInv

LEMMA ProcessesKeep ==
  ASSUME CodexInv, Processes PROVE CodexInv'
BY EmitKeeps, SpawnKeeps, ChildExitsKeeps, LeaderExitsKeeps DEF Processes

(* What the runner changes of itself alone. *)
LEMMA KillGroupShape ==
  ASSUME RunShape, KillGroup
  PROVE  /\ leader' \in {"none", "alive", "ok", "error", "killed"}
         /\ child' \in [kind : {"none", "member", "daemon", "gone"},
                        holds : Descriptor \cup {"none"}]
         /\ leader' # "alive" /\ child'.kind # "member"
         /\ leader # "alive" => leader' = leader
BY DEF RunShape, RunType, KillGroup, Gone

LEMMA StartCodexKeeps ==
  ASSUME CodexInv, StartCodex PROVE CodexInv'
<1> USE DEF CodexInv
<1>1. run = NoRun /\ leader = "none" /\ output = NoOutput /\ pipe = "none"
      /\ UNCHANGED <<child, pipe, output>>
  BY DEF Phases, StartCodex
<1>2. CASE run' = [run EXCEPT !.pc = "scan", !.temp = TRUE] /\ leader' = "alive"
  <2>1. /\ RunShape' /\ run'.pc = "scan" /\ ~run'.canceled /\ ~run'.broken
        /\ run'.final = "none" /\ run'.stderr = "none" /\ run'.result = "none"
        /\ ~run'.failed /\ ~run'.late
    BY <1>1, <1>2 DEF RunShape, RunType, NoRun
  <2> QED
    BY <1>1, <1>2, <2>1 DEF Phases, Stopped, Accounted, SuccessIsComplete, Pending,
                            One, NoOutput
<1>3. CASE StartFails
  <2>1. PICK temp \in BOOLEAN :
          run' = [run EXCEPT !.pc = "judge", !.failed = TRUE, !.temp = temp]
    BY <1>3 DEF StartFails
  <2>2. /\ RunShape' /\ run'.pc = "judge" /\ ~run'.canceled /\ ~run'.broken
        /\ run'.failed /\ run'.result = "none" /\ leader' = leader
        /\ ~run'.late
    BY <1>1, <1>3, <2>1 DEF RunShape, RunType, NoRun, StartFails
  <2> QED
    BY <1>1, <2>2 DEF Phases, Stopped, Accounted, SuccessIsComplete, Sound, One, NoOutput
<1> QED
  BY <1>2, <1>3 DEF StartCodex

LEMMA ScanKeeps ==
  ASSUME CodexInv, NEW n \in EntryBytes, Scan(n) PROVE CodexInv'
<1> USE DEF CodexInv
<1> DEFINE scanned == [run EXCEPT !.session = @ \/ pipe = "thread",
                                  !.blocked = @ \/ pipe = "blocked"]
           stopped == [scanned EXCEPT !.broken = TRUE, !.pc = "wait"]
<1>1. run.pc = "scan" /\ pipe # "none" /\ pipe' = "none"
  BY DEF Scan
<1>2. CASE /\ run' = scanned /\ output' = [output EXCEPT !.whole = @ + 1]
           /\ UNCHANGED <<leader, child>>
  <2>1. /\ RunShape' /\ run'.pc = "scan" /\ run'.canceled = run.canceled
        /\ run'.broken = run.broken /\ run'.failed = run.failed
        /\ run'.final = run.final /\ run'.stderr = run.stderr
        /\ run'.result = run.result /\ run'.late = run.late
        /\ output'.made = output.made /\ output'.whole = output.whole + 1
        /\ output'.noted = output.noted /\ output'.cut = output.cut
    <3>1. /\ (run.session \/ pipe = "thread") \in BOOLEAN
          /\ (run.blocked \/ pipe = "blocked") \in BOOLEAN
      OBVIOUS
    <3>2. PICK a \in BOOLEAN, b \in BOOLEAN :
            run' = [run EXCEPT !.session = a, !.blocked = b]
      BY <1>2, <3>1
    <3>3. RunShape'
      <4>1. output' \in Outputs
        BY <1>2 DEF RunShape, RunType, Outputs
      <4>2. run' \in [pc : {"start", "scan", "wait", "log_stderr", "log_final",
                            "judge", "done", "returned"},
                      canceled : BOOLEAN, broken : BOOLEAN, failed : BOOLEAN,
                      session : BOOLEAN, blocked : BOOLEAN,
                      final : {"none", "text", "blocked", "large"},
                      late : BOOLEAN, stderr : {"none", "some", "over"},
                      temp : BOOLEAN, result : {"none", "ok", "blocked", "error"}]
        BY <3>2 DEF RunShape, RunType
      <4> QED
        BY <1>1, <1>2, <4>1, <4>2 DEF RunShape, RunType
    <3>4. /\ run'.pc = run.pc /\ run'.canceled = run.canceled
          /\ run'.broken = run.broken /\ run'.failed = run.failed
          /\ run'.final = run.final /\ run'.stderr = run.stderr
          /\ run'.result = run.result /\ run'.late = run.late
      BY <3>2 DEF RunShape, RunType
    <3>5. /\ output'.made = output.made /\ output'.whole = output.whole + 1
          /\ output'.noted = output.noted /\ output'.cut = output.cut
      BY <1>2 DEF RunShape, RunType, Outputs
    <3> QED
      BY <1>1, <3>3, <3>4, <3>5
  <2>2. Phases' /\ Stopped' /\ SuccessIsComplete'
    BY <1>1, <1>2, <2>1 DEF Phases, Stopped, Accounted, SuccessIsComplete
  <2>3. Accounted'
    BY <1>1, <1>2, <2>1 DEF Accounted, Sound, Pending, One, RunShape, RunType, Outputs
  <2> QED
    BY <2>1, <2>2, <2>3
<1>3. CASE run' = stopped /\ KillGroup /\ UNCHANGED output
  <2>1. /\ RunShape' /\ run'.pc = "wait" /\ run'.broken /\ run'.result = run.result
        /\ run'.failed = run.failed /\ run'.late = run.late
    <3>1. /\ (run.session \/ pipe = "thread") \in BOOLEAN
          /\ (run.blocked \/ pipe = "blocked") \in BOOLEAN
      OBVIOUS
    <3>2. PICK a \in BOOLEAN, b \in BOOLEAN :
            run' = [run EXCEPT !.session = a, !.blocked = b, !.broken = TRUE,
                               !.pc = "wait"]
      BY <1>3, <3>1
    <3> QED
      BY <1>1, <1>3, <3>2, KillGroupShape DEF RunShape, RunType
  <2>2. leader' # "alive" /\ child'.kind # "member"
    BY <1>3, KillGroupShape
  <2>3. ~run'.failed /\ ~run'.late /\ output'.noted = 0 /\ output'.cut <= 0
        /\ run'.result = "none"
    BY <1>1, <1>3, <2>1 DEF Accounted, One
  <2> QED
    BY <1>1, <2>1, <2>2, <2>3
    DEF Phases, Stopped, Accounted, SuccessIsComplete, Sound, One
<1> QED
  BY <1>2, <1>3 DEF Scan, Whole

LEMMA ScanEndsKeeps ==
  ASSUME CodexInv, ScanEnds PROVE CodexInv'
<1> USE DEF CodexInv
<1>1. /\ run.pc = "scan" /\ pipe = "none" /\ leader # "alive" /\ ~run.canceled
      /\ run' = [run EXCEPT !.pc = "wait"] /\ UNCHANGED <<leader, child, pipe, output>>
  BY DEF ScanEnds, Open
<1>2. /\ RunShape' /\ run'.pc = "wait" /\ run'.canceled = run.canceled
      /\ run'.broken = run.broken /\ run'.failed = run.failed
      /\ run'.final = run.final /\ run'.stderr = run.stderr
      /\ run'.result = run.result /\ run'.late = run.late
  BY <1>1 DEF RunShape, RunType
<1>3. Phases' /\ Stopped' /\ SuccessIsComplete'
  BY <1>1, <1>2 DEF Phases, Stopped, Accounted, SuccessIsComplete
<1>4. Accounted'
  BY <1>1, <1>2 DEF Accounted, Sound, Pending, One
<1> QED
  BY <1>2, <1>3, <1>4

LEMMA CancelRunKeeps ==
  ASSUME CodexInv, CancelRun PROVE CodexInv'
<1> USE DEF CodexInv
<1>1. /\ run.pc \in {"scan", "wait"} /\ run' = [run EXCEPT !.canceled = TRUE]
      /\ KillGroup /\ UNCHANGED <<pipe, output>>
  BY DEF CancelRun
<1>2. /\ RunShape' /\ run'.pc = run.pc /\ run'.canceled /\ run'.result = run.result
      /\ run'.failed = run.failed /\ run'.late = run.late
  BY <1>1, KillGroupShape DEF RunShape, RunType
<1>3. leader' # "alive" /\ child'.kind # "member"
  BY <1>1, KillGroupShape
<1> QED
  BY <1>1, <1>2, <1>3 DEF Phases, Stopped, Accounted, SuccessIsComplete, Sound

LEMMA ScanClosedKeeps ==
  ASSUME CodexInv, ScanClosed PROVE CodexInv'
<1> USE DEF CodexInv
<1>1. /\ run.pc = "scan" /\ run.canceled /\ pipe' = "none"
      /\ run' = [run EXCEPT !.pc = "wait"] /\ UNCHANGED <<leader, child, output>>
  BY DEF ScanClosed
<1>2. /\ RunShape' /\ run'.pc = "wait" /\ run'.canceled /\ run'.result = run.result
      /\ run'.failed = run.failed /\ run'.late = run.late
  BY <1>1 DEF RunShape, RunType
<1> QED
  BY <1>1, <1>2 DEF Phases, Stopped, Accounted, SuccessIsComplete, Sound

LEMMA WaitReturnsKeeps ==
  ASSUME CodexInv, WaitReturns PROVE CodexInv'
<1> USE DEF CodexInv
<1>1. /\ run.pc = "wait" /\ leader # "alive" /\ pipe' = "none"
      /\ UNCHANGED <<leader, child>>
  BY DEF WaitReturns
<1>2. PICK final \in {"none", "text", "blocked", "large"}, late \in BOOLEAN :
        /\ run' = [run EXCEPT !.pc = "log_stderr", !.final = final, !.late = late,
                              !.failed = leader # "ok" \/ Open("stderr")]
        /\ late \/ final = run.final
        /\ output' = IF late /\ run.final # "none" THEN [output EXCEPT !.cut = @ + 1]
                                                   ELSE output
  <2>1. Open("final") \in BOOLEAN
    BY DEF Open
  <2>2. CutOff(run.final) \cup {run.final} \subseteq {"none", "text", "blocked", "large"}
    BY DEF RunShape, RunType, CutOff
  <2> QED
    BY <2>1, <2>2 DEF WaitReturns, DrainFinal
<1>3. /\ output' \in Outputs /\ output'.made = output.made
      /\ output'.whole = output.whole /\ output'.noted = output.noted
      /\ output'.cut = output.cut + One(late /\ run.final # "none")
  BY <1>2 DEF RunShape, RunType, Outputs, One
<1>4. /\ run'.pc = "log_stderr" /\ run'.canceled = run.canceled
      /\ run'.broken = run.broken /\ (run'.failed <=> leader # "ok" \/ Open("stderr"))
      /\ run'.final = final /\ run'.stderr = run.stderr /\ run'.late = late
      /\ run'.result = run.result
  BY <1>2 DEF RunShape, RunType
<1>5. RunShape'
  <2>1. (leader # "ok" \/ Open("stderr")) \in BOOLEAN /\ run \in RunType
    BY DEF RunShape
  <2>2. \A b \in BOOLEAN :
          [run EXCEPT !.pc = "log_stderr", !.final = final, !.late = late, !.failed = b]
            \in RunType
    BY <2>1 DEF RunType
  <2>3. run' \in RunType
    BY <1>2, <2>1, <2>2
  <2> QED
    BY <1>1, <1>3, <2>3 DEF RunShape
<1>6. Phases' /\ Stopped' /\ SuccessIsComplete'
  BY <1>1, <1>4 DEF Phases, Stopped, Accounted, SuccessIsComplete
<1>7. ~run.late /\ ~run.failed /\ output.noted = 0 /\ output.cut = 0
      /\ run.result = "none"
  BY <1>1 DEF Accounted, One, RunShape, RunType, Outputs
<1>8. Sound(run)' =>
        /\ leader = "ok"
        /\ output.made = output.whole + One(run.stderr # "none")
                                      + One(run.final # "none")
  BY <1>1, <1>4, <1>7 DEF Accounted, Sound, Pending, One, RunShape, RunType, Outputs
<1>9. Accounted'
  BY <1>1, <1>2, <1>3, <1>4, <1>7, <1>8
  DEF Accounted, Sound, Pending, One, RunShape, RunType, Outputs
<1> QED
  BY <1>5, <1>6, <1>9

LEMMA LogOutputShape ==
  ASSUME RunShape, NEW n \in EntryBytes, NEW present \in BOOLEAN,
         NEW logged \in Outputs, NEW next \in {"log_final", "judge"},
         LogOutput(n, present, logged, next)
  PROVE  /\ RunShape' /\ run'.pc = next
         /\ run'.canceled = run.canceled /\ run'.broken = run.broken
         /\ run'.final = run.final /\ run'.stderr = run.stderr
         /\ run'.result = run.result /\ run'.late = run.late
         /\ UNCHANGED <<leader, child, pipe>> /\ output' \in {output, logged}
         /\ \/ run'.failed
            \/ /\ run'.failed = run.failed
               /\ output' = IF present THEN logged ELSE output
<1>1. UNCHANGED <<leader, child, pipe>>
  BY DEF LogOutput
<1>2. CASE ~present /\ run' = [run EXCEPT !.pc = next] /\ UNCHANGED output
  BY <1>1, <1>2 DEF RunShape, RunType
<1>3. CASE present /\ run' = [run EXCEPT !.pc = next] /\ output' = logged
  BY <1>1, <1>3 DEF RunShape, RunType
<1>4. CASE UNCHANGED output /\ run' = [run EXCEPT !.pc = next, !.failed = TRUE]
  BY <1>1, <1>4 DEF RunShape, RunType
<1> QED
  BY <1>2, <1>3, <1>4 DEF LogOutput

LEMMA LogStderrKeeps ==
  ASSUME CodexInv, NEW n \in EntryBytes, LogStderr(n) PROVE CodexInv'
<1> USE DEF CodexInv
<1> DEFINE present == run.stderr # "none"
           logged == IF run.stderr = "over" THEN Noted ELSE Whole
<1>1. run.pc = "log_stderr" /\ LogOutput(n, present, logged, "log_final")
  BY DEF LogStderr
<1>2. /\ present \in BOOLEAN /\ logged \in Outputs /\ logged.made = output.made
      /\ logged.cut = output.cut
      /\ logged.noted = output.noted + One(run.stderr = "over")
      /\ logged.whole = output.whole + One(run.stderr # "over")
  BY DEF RunShape, RunType, Outputs, Whole, Noted, One
<1>3. present <=> run.stderr # "none"
  OBVIOUS
<1> HIDE DEF present, logged
<1>4. /\ RunShape' /\ run'.pc = "log_final"
      /\ run'.canceled = run.canceled /\ run'.broken = run.broken
      /\ run'.final = run.final /\ run'.stderr = run.stderr
      /\ run'.result = run.result /\ run'.late = run.late
      /\ UNCHANGED <<leader, child, pipe>> /\ output' \in {output, logged}
      /\ \/ run'.failed
         \/ /\ run'.failed = run.failed
            /\ output' = IF present THEN logged ELSE output
  BY <1>1, <1>2, LogOutputShape
<1>5. Phases' /\ Stopped' /\ SuccessIsComplete'
  BY <1>1, <1>4 DEF Phases, Stopped, Accounted, SuccessIsComplete
<1>6. Accounted'
  BY <1>1, <1>2, <1>3, <1>4 DEF Accounted, Sound, Pending, One, RunShape, RunType,
     Outputs
<1> QED
  BY <1>4, <1>5, <1>6

LEMMA LogFinalKeeps ==
  ASSUME CodexInv, NEW n \in EntryBytes, LogFinal(n) PROVE CodexInv'
<1> USE DEF CodexInv
<1> DEFINE present == run.final # "none"
           logged == IF run.late THEN output
                     ELSE IF run.final = "large" THEN Noted ELSE Whole
<1>1. run.pc = "log_final" /\ LogOutput(n, present, logged, "judge")
  BY DEF LogFinal
<1>2. /\ present \in BOOLEAN /\ logged \in Outputs /\ logged.made = output.made
      /\ logged.cut = output.cut
      /\ logged.whole + logged.noted = output.whole + output.noted + One(~run.late)
      /\ run.final # "large" => logged.noted = output.noted
  <2>1. CASE run.late
    <3>1. logged = output
      BY <2>1
    <3> HIDE DEF logged
    <3> QED
      BY <2>1, <3>1 DEF RunShape, RunType, Outputs, One
  <2>2. CASE ~run.late /\ run.final = "large"
    <3>1. logged = Noted
      BY <2>2
    <3> QED
      BY <2>2, <3>1 DEF RunShape, RunType, Outputs, Noted, One
  <2>3. CASE ~run.late /\ run.final # "large"
    <3>1. logged = Whole
      BY <2>3
    <3> QED
      BY <2>3, <3>1 DEF RunShape, RunType, Outputs, Whole, One
  <2> QED
    BY <2>1, <2>2, <2>3
<1>3. present <=> run.final # "none"
  OBVIOUS
<1> HIDE DEF present, logged
<1>4. /\ RunShape' /\ run'.pc = "judge"
      /\ run'.canceled = run.canceled /\ run'.broken = run.broken
      /\ run'.final = run.final /\ run'.stderr = run.stderr
      /\ run'.result = run.result /\ run'.late = run.late
      /\ UNCHANGED <<leader, child, pipe>> /\ output' \in {output, logged}
      /\ \/ run'.failed
         \/ /\ run'.failed = run.failed
            /\ output' = IF present THEN logged ELSE output
  BY <1>1, <1>2, LogOutputShape
<1>5. Phases' /\ Stopped' /\ SuccessIsComplete'
  BY <1>1, <1>4 DEF Phases, Stopped, Accounted, SuccessIsComplete
<1>6. Accounted'
  BY <1>1, <1>2, <1>3, <1>4 DEF Accounted, Sound, Pending, One, RunShape, RunType,
     Outputs
<1> QED
  BY <1>4, <1>5, <1>6

LEMMA JudgeKeeps ==
  ASSUME CodexInv, Judge PROVE CodexInv'
<1> USE DEF CodexInv
<1>1. run.pc = "judge" /\ UNCHANGED <<leader, child, pipe, output>>
  BY DEF Judge
<1>2. PICK verdict \in {"ok", "blocked", "error"}, temp \in BOOLEAN :
        /\ run' = [run EXCEPT !.pc = "done", !.temp = temp, !.result = verdict]
        /\ verdict # "error" => Succeeded(run) /\ ~temp
  <2>1. CASE run' = [run EXCEPT !.pc = "done", !.temp = FALSE,
               !.result = IF ~Succeeded(run) THEN "error"
                          ELSE IF Blocked(run) THEN "blocked" ELSE "ok"]
    BY <2>1
  <2>2. CASE run' = [run EXCEPT !.pc = "done", !.result = "error"]
    <3>1. run.temp \in BOOLEAN
      BY DEF RunShape, RunType
    <3>2. run' = [run EXCEPT !.pc = "done", !.temp = run.temp, !.result = "error"]
      BY <2>2 DEF RunShape, RunType
    <3> QED
      BY <3>1, <3>2
  <2> QED
    BY <2>1, <2>2 DEF Judge
<1>3. /\ RunShape' /\ run'.pc = "done" /\ run'.result = verdict
      /\ run'.canceled = run.canceled /\ run'.broken = run.broken
      /\ run'.session = run.session /\ run'.temp = temp
      /\ run'.stderr = run.stderr /\ run'.late = run.late /\ run'.failed = run.failed
  <2>1. RunShape'
    BY <1>1, <1>2 DEF RunShape, RunType
  <2>2. /\ run'.pc = "done" /\ run'.result = verdict
        /\ run'.canceled = run.canceled /\ run'.broken = run.broken
        /\ run'.session = run.session /\ run'.temp = temp
        /\ run'.stderr = run.stderr /\ run'.late = run.late /\ run'.failed = run.failed
    BY <1>2 DEF RunShape, RunType
  <2> QED
    BY <2>1, <2>2
<1>4. Phases' /\ Stopped' /\ Accounted'
  BY <1>1, <1>3 DEF Phases, Stopped, Accounted
<1>5. SuccessIsComplete'
  <2>1. SUFFICES ASSUME verdict # "error"
                 PROVE  leader = "ok" /\ run.session /\ Complete
    BY <1>1, <1>2, <1>3 DEF SuccessIsComplete, Complete
  <2>2. Sound(run) /\ run.session /\ run.final # "large"
    BY <1>2, <2>1 DEF Succeeded, Sound
  <2> QED
    BY <1>1, <2>2 DEF Accounted, Phases, Pending, One, RunShape, RunType, Outputs,
       Complete
<1> QED
  BY <1>3, <1>4, <1>5

LEMMA RunnerKeeps ==
  ASSUME CodexInv, Runner PROVE CodexInv'
BY StartCodexKeeps, ScanEndsKeeps, CancelRunKeeps, ScanClosedKeeps, WaitReturnsKeeps,
   JudgeKeeps, ScanKeeps, LogStderrKeeps, LogFinalKeeps DEF Runner

LEMMA CodexReturnsKeeps ==
  ASSUME CodexInv, CodexReturns PROVE CodexInv'
<1> USE DEF CodexInv
<1>1. /\ run.pc = "done" /\ pipe' = pipe
      /\ run' = [NoRun EXCEPT !.pc = "returned", !.result = run.result,
                              !.session = run.session]
  BY DEF CodexReturns
<1>2. /\ leader' \in {"none", leader}
      /\ output' \in {NoOutput, [output EXCEPT !.whole = @ + output.noted, !.noted = 0]}
  BY DEF CodexReturns
<1>3. child' \in [kind : {"none", "member", "daemon", "gone"},
                  holds : Descriptor \cup {"none"}]
  BY DEF CodexReturns, RunShape, RunType, Gone, Lives
<1>4. run'.pc = "returned" /\ ~run'.canceled /\ ~run'.broken
  BY <1>1 DEF NoRun
<1>5. RunShape'
  <2>1. run.result \in {"none", "ok", "blocked", "error"} /\ run.session \in BOOLEAN
    BY DEF RunShape, RunType
  <2>2. run' \in [pc : {"start", "scan", "wait", "log_stderr", "log_final",
                        "judge", "done", "returned"},
                  canceled : BOOLEAN, broken : BOOLEAN, failed : BOOLEAN,
                  session : BOOLEAN, blocked : BOOLEAN,
                  final : {"none", "text", "blocked", "large"}, late : BOOLEAN,
                  stderr : {"none", "some", "over"}, temp : BOOLEAN,
                  result : {"none", "ok", "blocked", "error"}]
    BY <1>1, <2>1 DEF NoRun
  <2>3. leader' \in {"none", "alive", "ok", "error", "killed"}
    BY <1>2 DEF RunShape, RunType
  <2>4. output.whole + output.noted \in Nat /\ output \in Outputs
    BY DEF RunShape, RunType, Outputs
  <2>5. output' \in Outputs
    <3>1. CASE output' = NoOutput
      BY <3>1 DEF NoOutput, Outputs
    <3>2. CASE output' = [output EXCEPT !.whole = @ + output.noted, !.noted = 0]
      BY <2>4, <3>2 DEF Outputs
    <3> QED
      BY <1>2, <3>1, <3>2
  <2> QED
    BY <1>1, <1>3, <2>2, <2>3, <2>5 DEF RunShape, RunType
<1>6. leader # "alive" /\ leader' # "alive"
  BY <1>1, <1>2 DEF Phases
<1>7. Phases' /\ Stopped' /\ Accounted' /\ SuccessIsComplete'
  BY <1>1, <1>4, <1>6 DEF Phases, Stopped, Accounted, SuccessIsComplete
<1> QED
  BY <1>5, <1>7

LEMMA CodexUnchangedKeeps ==
  ASSUME CodexInv, UNCHANGED codexVars PROVE CodexInv'
BY DEF CodexInv, codexVars, RunShape, RunType, Phases, Stopped, Accounted,
   SuccessIsComplete,
       Complete, Sound, Pending, One

LEMMA CodexStep ==
  ASSUME CodexInv, Next PROVE CodexInv'
<1> USE CodexUnchangedKeeps
<1>1. CASE SyncProject \/ PrepareTree \/ Checkpoint
  BY <1>1 DEF SyncProject, PrepareTree, Checkpoint
<1>2. CASE RunProcesses \/ RunCodex
  BY <1>2, ProcessesKeep, RunnerKeeps DEF RunProcesses, RunCodex
<1>3. CASE CodexReturns
  BY <1>3, CodexReturnsKeeps
<1>4. CASE \E n \in EntryBytes : StartCheck(n) \/ EndCheck(n)
  BY <1>4 DEF StartCheck, EndCheck, checkFrame
<1>5. CASE RunCheck \/ ChecksPassed \/ Survivor \/ Validate
  BY <1>5 DEF RunCheck, ChecksPassed, Survivor, Validate, checkFrame
<1>6. CASE CallHelper \/ CallReturns \/ Approve
  BY <1>6 DEF CallHelper, CallReturns, Approve, callFrame
<1>7. CASE BundleCommit \/ HelperActs
  BY <1>7 DEF BundleCommit, HelperActs, callFrame
<1>8. CASE CallEnds
  BY <1>8 DEF CallEnds, callFrame
<1>9. CASE OthersPush
  BY <1>9 DEF OthersPush, callFrame
<1>10. CASE Cancel \/ Recover \/ CleanTree \/ CleanLog
  BY <1>10 DEF Cancel, Recover, CleanTree, CleanLog
<1>11. CASE Die
  <2>1. CASE phase = "codex"
    <3>1. /\ run' = [NoRun EXCEPT !.pc = "returned", !.result = "error"]
          /\ leader' = "none" /\ child' = NoChild /\ pipe' = "none"
          /\ output' = NoOutput
      BY <1>11, <2>1 DEF Die
    <3> QED
      BY <3>1 DEF CodexInv, RunShape, RunType, Phases, Stopped, Accounted,
         SuccessIsComplete,
                  Complete, Sound, One, Pending, NoRun, NoChild, NoOutput, Outputs,
                  Descriptor, Event
  <2>2. CASE phase # "codex"
    BY <1>11, <2>2 DEF Die
  <2> QED
    BY <2>1, <2>2
<1> QED
  BY <1>1, <1>2, <1>3, <1>4, <1>5, <1>6, <1>7, <1>8, <1>9, <1>10, <1>11 DEF Next

LEMMA CodexInvHolds == Spec => []CodexInv
<1>1. Init => CodexInv
  BY CodexInitInv DEF Init
<1>2. CodexInv /\ [Next]_vars => CodexInv'
  <2>1. UNCHANGED vars => UNCHANGED codexVars
    BY DEF vars
  <2> QED
    BY <2>1, CodexStep, CodexUnchangedKeeps
<1> QED
  BY <1>1, <1>2, PTL DEF Spec

(* However the processes, the timers and the log behave, a run is taken for  *)
(* a success only if every piece of its output is accounted for: logged      *)
(* whole, or, stderr only, up to the limit of its capture and with the note  *)
(* that says so, or, the final message only, cut off because a process kept  *)
(* its pipe open past the time of the drain.                                 *)
THEOREM SuccessesAreComplete == Spec => []SuccessIsComplete
<1>1. CodexInv => SuccessIsComplete
  BY DEF CodexInv
<1> QED
  BY <1>1, CodexInvHolds, PTL

(* Wherever it strikes, a cancellation leaves nothing of the process group   *)
(* once the runner has waited for it.                                        *)
THEOREM CancelsKillTheGroup == Spec => []CancelKillsGroup
<1>1. CodexInv => CancelKillsGroup
  BY DEF CodexInv, Stopped, CancelKillsGroup
<1> QED
  BY <1>1, CodexInvHolds, PTL

-----------------------------------------------------------------------------
(* The worktree. *)

(* A worktree is recorded only after a preparation that succeeded, and       *)
(* before the preparation nothing is touched.                                *)
TreeInv ==
  /\ row = [recorded |-> row.recorded, commit |-> row.commit, rc |-> row.rc]
  /\ tree \subseteq Part
  /\ phase \in {"sync", "prepare"} => tree = before
  /\ phase = "checkpoint" => prepared = "ok"
  /\ row.recorded => prepared = "ok"
  /\ PreparedOrGone

LEMMA RollBackCleans ==
  ASSUME NEW t \in SUBSET Part, NEW n, "registered" \in t => "branch" \in t,
         RollBack(t, n)
  PROVE  /\ tree' \subseteq Part /\ prepared' \in {"error", "unclean"}
         /\ prepared' = "error" => tree' = {}
         /\ "registered" \in tree' => "branch" \in tree'
<1>1. PICK r \in (IF t \cap {"path", "registered"} = {}
                    THEN {[tree |-> t, failures |-> 0]} ELSE Removals(t)) :
        \E d \in BranchDeletions(r.tree) :
          /\ tree' = d.tree
          /\ prepared' = IF r.failures > 0 \/ d.kept THEN "unclean" ELSE "error"
  BY DEF RollBack
<1>2. PICK d \in BranchDeletions(r.tree) :
        /\ tree' = d.tree
        /\ prepared' = IF r.failures > 0 \/ d.kept THEN "unclean" ELSE "error"
  BY <1>1
<1>3. /\ r.tree \subseteq t /\ ("branch" \in t => "branch" \in r.tree)
      /\ r.failures > 0 \/ r.tree \cap {"path", "registered"} = {}
  <2>1. CASE t \cap {"path", "registered"} = {}
    BY <2>1
  <2>2. CASE r \in Removals(t)
    BY <2>2 DEF Removals
  <2> QED
    BY <2>1, <2>2
<1>4. \/ d.tree = r.tree /\ (d.kept \/ "branch" \notin r.tree)
      \/ d.tree = r.tree \ {"branch"} /\ "registered" \notin r.tree
  <2>1. CASE "branch" \notin r.tree
    BY <2>1 DEF BranchDeletions
  <2>2. CASE "branch" \in r.tree
    BY <2>2 DEF BranchDeletions
  <2> QED
    BY <2>1, <2>2
<1>5. tree' \subseteq Part /\ ("registered" \in tree' => "branch" \in tree')
  BY <1>2, <1>3, <1>4
<1>6. prepared' = "error" => tree' = {}
  BY <1>2, <1>3, <1>4 DEF Part
<1> QED
  BY <1>2, <1>5, <1>6

LEMMA PrepareKeeps ==
  ASSUME PreparedOrGone, tree \subseteq Part, tree = before, Prepare
  PROVE  tree' \subseteq Part /\ PreparedOrGone'
<1>1. UNCHANGED before
  BY DEF Prepare
<1>2. CASE prepared' = "error" /\ UNCHANGED tree
  BY <1>1, <1>2 DEF PreparedOrGone
<1>3. CASE prepared' = "ok" /\ tree' = Part
  BY <1>3 DEF PreparedOrGone, Part
<1>4. CASE tree = {} /\ \E t \in HalfAdded \cup {Part}, n \in {Failures} : RollBack(t, n)
  <2>1. PICK t \in HalfAdded \cup {Part} : RollBack(t, Failures)
    BY <1>4
  <2>2. t \in SUBSET Part /\ ("registered" \in t => "branch" \in t)
    BY DEF HalfAdded, Part
  <2> QED
    BY <1>1, <1>4, <2>1, <2>2, RollBackCleans DEF PreparedOrGone
<1>5. CASE prepared' = "unclean" /\ tree' \in HalfAdded
  BY <1>5 DEF PreparedOrGone, HalfAdded, Part
<1> QED
  BY <1>2, <1>3, <1>4, <1>5 DEF Prepare

LEMMA RemoveTreeKeeps ==
  ASSUME PreparedOrGone, tree \subseteq Part, prepared = "ok",
         NEW ok \in BOOLEAN, RemoveTree(ok)
  PROVE  tree' \subseteq Part /\ PreparedOrGone' /\ prepared' = "ok"
<1>1. UNCHANGED prepared
  BY DEF RemoveTree
<1>2. /\ tree' \subseteq tree /\ ("branch" \in tree => "branch" \in tree')
  BY DEF RemoveTree, Removals
<1> QED
  BY <1>1, <1>2 DEF PreparedOrGone

LEMMA TreeStep ==
  ASSUME TreeInv, [Next]_vars PROVE TreeInv'
<1> USE DEF TreeInv
<1>0. /\ Fallen \notin {"sync", "prepare", "checkpoint"}
      /\ Fallen' \notin {"sync", "prepare", "checkpoint"}
  BY DEF Fallen
<1>1. CASE SyncProject
  BY <1>0, <1>1 DEF SyncProject, Go, treeVars, PreparedOrGone
<1>2. CASE PrepareTree
  <2>1. /\ phase = "prepare" /\ Prepare /\ UNCHANGED row
        /\ prepared = "none"
        /\ IF prepared' = "ok" THEN phase' = "checkpoint" ELSE phase' = Fallen
    BY <1>2 DEF PrepareTree, Go, Prepare
  <2> QED
    BY <1>0, <2>1, PrepareKeeps
<1>3. CASE Checkpoint
  <2>1. /\ phase = "checkpoint" /\ UNCHANGED treeVars
        /\ row' = [row EXCEPT !.recorded = live]
        /\ phase' \notin {"sync", "prepare", "checkpoint"}
    BY <1>0, <1>3 DEF Checkpoint, Go
  <2>2. row' = [recorded |-> live, commit |-> row.commit, rc |-> row.rc]
    BY <2>1
  <2> QED
    BY <2>1, <2>2 DEF treeVars, PreparedOrGone
<1>4. CASE /\ UNCHANGED <<tree, before, prepared, row>>
           /\ phase' = phase \/ phase' \notin {"sync", "prepare", "checkpoint"}
  BY <1>4 DEF PreparedOrGone
<1>5. CASE RunProcesses \/ RunCodex
  BY <1>4, <1>5 DEF RunProcesses, RunCodex, treeVars
<1>6. CASE CodexReturns
  BY <1>0, <1>4, <1>6 DEF CodexReturns, EditTree, treeVars
<1>7. CASE \E n \in EntryBytes : StartCheck(n) \/ EndCheck(n)
  BY <1>0, <1>4, <1>7 DEF StartCheck, EndCheck, checkFrame, Go, treeVars
<1>8. CASE RunCheck \/ ChecksPassed \/ Survivor
  BY <1>0, <1>4, <1>8 DEF RunCheck, ChecksPassed, Survivor, checkFrame, Go, EditTree,
                          treeVars
<1>9. CASE Validate
  <2>1. /\ UNCHANGED treeVars /\ phase' \notin {"sync", "prepare", "checkpoint"}
        /\ row' = row \/ row' = [row EXCEPT !.commit = work.head]
    BY <1>0, <1>9 DEF Validate
  <2>2. CASE row' = [row EXCEPT !.commit = work.head]
    <3>1. row' = [recorded |-> row.recorded, commit |-> work.head, rc |-> row.rc]
      BY <2>2
    <3> QED
      BY <2>1, <3>1 DEF treeVars, PreparedOrGone
  <2> QED
    BY <1>4, <2>1, <2>2 DEF treeVars
<1>10. CASE CallReturns
  <2>1. /\ UNCHANGED treeVars /\ phase' \notin {"sync", "prepare", "checkpoint"}
        /\ row' = row \/ row' = [row EXCEPT !.rc = ops.target]
    BY <1>0, <1>10 DEF CallReturns, Go, After, Calling
  <2>2. CASE row' = [row EXCEPT !.rc = ops.target]
    <3>1. row' = [recorded |-> row.recorded, commit |-> row.commit, rc |-> ops.target]
      BY <2>2
    <3> QED
      BY <2>1, <3>1 DEF treeVars, PreparedOrGone
  <2> QED
    BY <1>4, <2>1, <2>2 DEF treeVars
<1>11. CASE CallHelper \/ BundleCommit \/ HelperActs \/ CallEnds \/ Approve \/ OthersPush
  BY <1>4, <1>11 DEF CallHelper, BundleCommit, HelperActs, CallEnds, Approve, OthersPush,
                     callFrame, treeVars
<1>12. CASE Cancel \/ Recover \/ CleanLog
  BY <1>4, <1>12 DEF Cancel, Recover, CleanLog, treeVars
<1>13. CASE Die
  <2>1. phase' = "down" /\ UNCHANGED row
        /\ (DieInPrepare \/ UNCHANGED treeVars)
    BY <1>13 DEF Die
  <2>2. CASE DieInPrepare
    BY <2>1, <2>2 DEF DieInPrepare, HalfAdded, Part, PreparedOrGone
  <2> QED
    BY <1>4, <2>1, <2>2 DEF treeVars
<1>14. CASE CleanTree
  <2>1. /\ UNCHANGED row /\ phase' \notin {"sync", "prepare", "checkpoint"}
        /\ \/ UNCHANGED treeVars
           \/ row.recorded /\ \E ok \in BOOLEAN : RemoveTree(ok)
    BY <1>14 DEF CleanTree
  <2>2. CASE row.recorded /\ \E ok \in BOOLEAN : RemoveTree(ok)
    BY <2>1, <2>2, RemoveTreeKeeps
  <2> QED
    BY <1>4, <2>1, <2>2 DEF treeVars
<1>15. CASE UNCHANGED vars
  BY <1>4, <1>15 DEF vars, treeVars
<1> QED
  BY <1>1, <1>2, <1>3, <1>5, <1>6, <1>7, <1>8, <1>9, <1>10, <1>11, <1>12, <1>13, <1>14,
     <1>15 DEF Next

(* Whichever commands of a preparation, its roll back or a clean-up fail or   *)
(* are killed, a failed preparation leaves nothing behind unnoticed, and the  *)
(* branch of a task outlives its worktree.                                    *)
THEOREM PreparationsAreClean == Spec => []PreparedOrGone
<1>1. Init => TreeInv
  <2>1. Init => tree = before /\ prepared = "none" /\ tree \subseteq Part
                /\ "registered" \notin tree
    BY DEF Init, TreeInit, Part
  <2>2. Init => /\ row = [recorded |-> FALSE, commit |-> {}, rc |-> {}]
                /\ phase = "sync"
    BY DEF Init
  <2> QED
    BY <2>1, <2>2 DEF TreeInv, PreparedOrGone
<1>2. TreeInv /\ [Next]_vars => TreeInv'
  BY TreeStep
<1>3. TreeInv => PreparedOrGone
  BY DEF TreeInv
<1> QED
  BY <1>1, <1>2, <1>3, PTL DEF Spec

-----------------------------------------------------------------------------
(* The calls of the helper. *)

(* Nothing is pushed or deployed while a temporary of the call exists; a     *)
(* call that is sound has done what it was made for.                         *)
Done(call, heads) ==
  call.pc \in {"answer", "log"} /\ call.sound /\ call.action # "deploy" =>
    call.commit \subseteq heads[Branch[call.action]]

CallInv ==
  /\ ops = [pc |-> ops.pc, action |-> ops.action, commit |-> ops.commit,
            seen |-> ops.seen, target |-> ops.target, temps |-> ops.temps,
            sound |-> ops.sound, answer |-> ops.answer]
  /\ ops.action \in {"push", "merge", "deploy"}
  /\ remote = [b \in {"base", "task", "rc"} |-> remote[b]]
  /\ ops.pc \in {"merge", "clean"} => ops.commit \subseteq ops.target
  /\ landing \/ ops.pc \in {"send", "wait"} =>
       ops.temps = {} /\ ops.commit \subseteq ops.target
  /\ landing => ops.pc \in {"wait", "log", "done"}
  /\ ops.pc = "unwind" => ~ops.sound
  /\ Done(ops, remote)

LEMMA CallUnchangedKeeps ==
  ASSUME CallInv, UNCHANGED <<remote, ops, landing>> PROVE CallInv' /\ RemoteMove
BY DEF CallInv, RemoteMove, Done

(* Steps of the helper that leave the remote alone. *)
LEMMA HelperStepKeeps ==
  ASSUME CallInv, Import \/ Fetch \/ Merge \/ Clean \/ Unwind \/ Send \/ Answer
  PROVE  CallInv' /\ RemoteMove
<1> USE DEF CallInv, At, Done
<1>1. CASE Import
  BY <1>1 DEF Import, helperFrame, RemoteMove
<1>2. CASE Fetch
  <2>1. UNCHANGED <<remote, landing>> /\ ~landing /\ ops.pc = "fetch"
    BY <1>2 DEF Fetch, helperFrame
  <2>2. CASE ops' = [ops EXCEPT !.pc = IF ops.action = "merge" THEN "merge" ELSE "clean",
                                !.seen = remote[Branch[ops.action]],
                                !.target = ops.commit,
                                !.temps = IF ops.action = "push" /\ remote.task = {}
                                            THEN @ ELSE @ \cup {"fetched"}]
    <3> DEFINE pc == IF ops.action = "merge" THEN "merge" ELSE "clean"
               seen == remote[Branch[ops.action]]
               temps == IF ops.action = "push" /\ remote.task = {}
                          THEN ops.temps ELSE ops.temps \cup {"fetched"}
    <3>1. pc \in {"merge", "clean"}
      OBVIOUS
    <3>2. ops' = [ops EXCEPT !.pc = pc, !.seen = seen, !.target = ops.commit,
                             !.temps = temps]
      BY <2>2
    <3> HIDE DEF pc, seen, temps
    <3>3. /\ ops'.pc = pc /\ ops'.action = ops.action
          /\ ops'.commit = ops.commit /\ ops'.target = ops.commit
      BY <3>2
    <3>4. ops' = [pc |-> ops'.pc, action |-> ops'.action, commit |-> ops'.commit,
                  seen |-> ops'.seen, target |-> ops'.target, temps |-> ops'.temps,
                  sound |-> ops'.sound, answer |-> ops'.answer]
      BY <3>2
    <3> QED
      BY <2>1, <3>1, <3>3, <3>4 DEF RemoteMove
  <2>3. CASE ops' = [ops EXCEPT !.pc = "unwind", !.sound = FALSE,
                                !.temps = @ \cup {"fetched"}]
    <3>1. ops'.pc = "unwind" /\ ~ops'.sound /\ ops'.action = ops.action
      BY <2>3
    <3>2. ops' = [pc |-> ops'.pc, action |-> ops'.action, commit |-> ops'.commit,
                  seen |-> ops'.seen, target |-> ops'.target, temps |-> ops'.temps,
                  sound |-> ops'.sound, answer |-> ops'.answer]
      BY <2>3
    <3> QED
      BY <2>1, <3>1, <3>2 DEF RemoteMove
  <2> QED
    BY <1>2, <2>2, <2>3 DEF Fetch
<1>3. CASE Merge
  BY <1>3 DEF Merge, helperFrame, RemoteMove
<1>4. CASE Clean
  BY <1>4 DEF Clean, helperFrame, RemoteMove
<1>5. CASE Unwind
  BY <1>5 DEF Unwind, helperFrame, RemoteMove
<1>6. CASE Send
  <2>1. ~landing /\ ops.temps = {} /\ ops.commit \subseteq ops.target /\ remote' = remote
        /\ ops.pc = "send"
    BY <1>6 DEF Send
  <2>2. CASE ops' = [ops EXCEPT !.pc = "wait"]
    BY <2>1, <2>2 DEF RemoteMove
  <2>3. CASE ops' = [ops EXCEPT !.pc = "unwind", !.sound = FALSE] /\ landing' = landing
    BY <2>1, <2>3 DEF RemoteMove
  <2> QED
    BY <1>6, <2>2, <2>3 DEF Send, To, Unwinds
<1>7. CASE Answer
  BY <1>7 DEF Answer, helperFrame, RemoteMove
<1> QED
  BY <1>1, <1>2, <1>3, <1>4, <1>5, <1>6, <1>7

LEMMA ClientStepKeeps ==
  ASSUME CallInv,
         \/ \E a \in Calling, c \in {row.rc, row.commit} : Call(a, c)
         \/ Bundle(work.head) \/ KillHelper \/ \E n \in EntryBytes : Respond(n)
  PROVE  CallInv' /\ RemoteMove
<1> USE DEF CallInv, At, Done
<1>1. CASE \E a \in Calling, c \in {row.rc, row.commit} : Call(a, c)
  <2>1. PICK a \in Calling, c \in {row.rc, row.commit} : Call(a, c)
    BY <1>1
  <2>2. PICK pc \in {"bundle", "fetch"} :
          ops' = [NoCall EXCEPT !.pc = pc, !.action = a, !.commit = c]
    BY <2>1 DEF Call
  <2>3. ops' = [pc |-> pc, action |-> a, commit |-> c, seen |-> {}, target |-> {},
               temps |-> {}, sound |-> TRUE, answer |-> "none"]
    BY <2>2 DEF NoCall
  <2>4. ops.pc = "idle" /\ ~landing /\ UNCHANGED <<remote, landing>>
    BY <2>1 DEF Call
  <2> QED
    BY <2>3, <2>4 DEF Calling, RemoteMove
<1>2. CASE Bundle(work.head)
  BY <1>2 DEF Bundle, To, RemoteMove
<1>3. CASE KillHelper
  BY <1>3 DEF KillHelper, Helping, RemoteMove
<1>4. CASE \E n \in EntryBytes : Respond(n)
  <2>1. /\ ops.pc = "log" /\ UNCHANGED <<remote, landing>>
        /\ ops' = [ops EXCEPT !.pc = "done",
                              !.answer = IF ops.sound THEN "ok" ELSE "error"]
    BY <1>4 DEF Respond
  <2>2. CASE ops.sound
    <3>1. ops' = [ops EXCEPT !.pc = "done", !.answer = "ok"]
      BY <2>1, <2>2
    <3> QED
      BY <2>1, <2>2, <3>1 DEF RemoteMove
  <2>3. CASE ~ops.sound
    <3>1. ops' = [ops EXCEPT !.pc = "done", !.answer = "error"]
      BY <2>1, <2>3
    <3> QED
      BY <2>1, <2>3, <3>1 DEF RemoteMove
  <2> QED
    BY <2>2, <2>3
<1> QED
  BY <1>1, <1>2, <1>3, <1>4

LEMMA LandKeeps ==
  ASSUME CallInv, NEW moved \in BOOLEAN, Land(moved) PROVE CallInv' /\ RemoteMove
<1> USE DEF CallInv, At, Done
<1> DEFINE b == Branch[ops.action]
<1>1. /\ landing /\ landing' = FALSE /\ b \in {"task", "rc"}
      /\ ops.temps = {} /\ ops.commit \subseteq ops.target
      /\ ops.pc \in {"wait", "log", "done"}
  BY DEF Land, Branch
<1>2. \/ remote' = remote /\ (moved => ops.action = "deploy")
      \/ /\ moved /\ ops.action # "deploy" /\ remote[b] \subseteq ops.target
         /\ remote' = [remote EXCEPT ![b] = ops.target]
  BY DEF Land, FastForward
<1>3. /\ remote' = [x \in {"base", "task", "rc"} |-> remote'[x]]
      /\ \A x \in {"base", "task", "rc"} :
           /\ remote[x] \subseteq remote'[x]
           /\ remote'[x] # remote[x] => remote'[x] = ops.target
      /\ moved /\ ops.action # "deploy" => remote'[b] = ops.target
  BY <1>1, <1>2
<1>4. \/ ops' = ops /\ ops.pc \in {"log", "done"}
      \/ \E sound \in BOOLEAN :
           /\ ops.pc = "wait" /\ (sound => moved)
           /\ ops' = [ops EXCEPT !.pc = "answer", !.sound = sound]
  BY <1>1 DEF Land
<1>5. RemoteMove
  BY <1>1, <1>3, <1>4 DEF RemoteMove
<1>6. CASE ops' = ops /\ ops.pc \in {"log", "done"}
  <2>1. Done(ops, remote)'
    BY <1>1, <1>3, <1>6
  <2> QED
    BY <1>1, <1>3, <1>5, <1>6, <2>1
<1>7. CASE \E sound \in BOOLEAN :
             /\ ops.pc = "wait" /\ (sound => moved)
             /\ ops' = [ops EXCEPT !.pc = "answer", !.sound = sound]
  <2>1. PICK sound \in BOOLEAN :
          /\ ops.pc = "wait" /\ (sound => moved)
          /\ ops' = [ops EXCEPT !.pc = "answer", !.sound = sound]
    BY <1>7
  <2>2. /\ ops'.sound = sound /\ ops'.commit = ops.commit
        /\ ops'.action = ops.action /\ ops'.target = ops.target
    BY <2>1
  <2>3. sound /\ ops.action # "deploy" => ops.commit \subseteq remote'[b]
    BY <1>1, <1>3, <2>1, <2>2
  <2>4. Done(ops, remote)'
    BY <2>2, <2>3
  <2> QED
    BY <1>1, <1>3, <1>5, <2>1, <2>4
<1> QED
  BY <1>4, <1>6, <1>7

LEMMA ForeignPushKeeps ==
  ASSUME CallInv, NEW b \in {"base", "task", "rc"}, ForeignPush(b)
  PROVE  CallInv' /\ RemoteMove
<1> USE DEF CallInv, Done
<1>1. PICK c \in Upstream \cup Foreign :
        remote' = [remote EXCEPT ![b] = remote[b] \cup {c}]
  BY DEF ForeignPush
<1>2. UNCHANGED <<ops, landing>>
  BY DEF ForeignPush
<1>3. /\ remote' = [x \in {"base", "task", "rc"} |-> remote'[x]]
      /\ \A x \in {"base", "task", "rc"} :
           /\ remote[x] \subseteq remote'[x]
           /\ remote'[x] \ remote[x] \subseteq {c}
  BY <1>1
<1>4. Branch[ops.action] \in {"base", "task", "rc"}
  BY DEF Branch
<1> QED
  BY <1>2, <1>3, <1>4 DEF RemoteMove

LEMMA CallStep ==
  ASSUME CallInv, [Next]_vars PROVE CallInv' /\ RemoteMove
<1> USE CallUnchangedKeeps
<1>1. CASE SyncProject
  BY <1>1 DEF SyncProject, Sync
<1>2. CASE \/ PrepareTree \/ Checkpoint \/ RunProcesses \/ RunCodex \/ CodexReturns
           \/ CallReturns \/ Validate \/ Cancel \/ Die \/ Recover \/ CleanTree \/ CleanLog
  BY <1>2 DEF PrepareTree, Checkpoint, RunProcesses, RunCodex, CodexReturns, CallReturns,
              Validate, Cancel, Die, Recover, CleanTree, CleanLog, opsVars
<1>3. CASE \/ \E n \in EntryBytes : StartCheck(n) \/ EndCheck(n)
           \/ RunCheck \/ ChecksPassed \/ Survivor
  BY <1>3 DEF StartCheck, EndCheck, RunCheck, ChecksPassed, Survivor, checkFrame, opsVars
<1>4. CASE CallHelper \/ BundleCommit \/ CallEnds
  <2>1. \/ \E a \in Calling, c \in {row.rc, row.commit} : Call(a, c)
        \/ Bundle(work.head) \/ KillHelper \/ \E n \in EntryBytes : Respond(n)
    BY <1>4 DEF CallHelper, BundleCommit, CallEnds
  <2> QED
    BY <2>1, ClientStepKeeps
<1>5. CASE HelperActs
  BY <1>5, HelperStepKeeps, LandKeeps DEF HelperActs, Help
<1>6. CASE Approve
  <2>1. /\ ~landing /\ UNCHANGED <<remote, landing>>
        /\ ops' = [pc |-> "idle", action |-> "push", commit |-> {}, seen |-> {},
                   target |-> {}, temps |-> {}, sound |-> TRUE, answer |-> "none"]
    BY <1>6 DEF Approve, NoCall
  <2> QED
    BY <2>1 DEF CallInv, RemoteMove, Done
<1>7. CASE OthersPush
  BY <1>7, ForeignPushKeeps DEF OthersPush
<1>8. CASE UNCHANGED vars
  BY <1>8 DEF vars, opsVars
<1> QED
  BY <1>1, <1>2, <1>3, <1>4, <1>5, <1>6, <1>7, <1>8 DEF Next

(* Wherever the client, the helper or the application is stopped, the remote *)
(* branches are moved only as RemoteMove says, and an answer is believed     *)
(* only when it is true.                                                     *)
THEOREM RemoteMovesSafely == Spec => RemoteMoves
<1>1. Init => CallInv
  BY DEF Init, OperatorInit, NoCall, CallInv, Done
<1>2. CallInv /\ [Next]_vars => CallInv' /\ [RemoteMove]_opsVars
  BY CallStep
<1> QED
  BY <1>1, <1>2, PTL DEF Spec, RemoteMoves


-----------------------------------------------------------------------------
(* What is pushed. *)

(* The run of the task has succeeded, and its outputs are accounted for.    *)
RunPassed ==
  /\ run.pc = "returned" /\ run.result = "ok" /\ run.session
  /\ output.made = output.whole + output.cut /\ output.cut <= 1 /\ output.noted = 0

ChecksDone == check = [count |-> Checks, passed |-> TRUE, logged |-> Checks]

Logged == output.whole + output.noted
Entries(n) == Cardinality(confirmed) >= Logged + n

(* The log is removed only when the recorded worktree is gone.              *)
Evidence ==
  /\ RunPassed /\ ChecksDone /\ row.recorded
  /\ "path" \in tree => Entries(2 * Checks)

Preparing == {"sync", "prepare", "checkpoint"}
Checking == {"checks", "check", "check_output", "validate"}

(* What each step of the work finds done by the earlier ones: a check has    *)
(* two entries, the second of which is written after it has run.            *)
StepsInv ==
  /\ phase \in Preparing => run.pc = "start"
  /\ phase \in Preparing \cup {"codex"} => check = NoCheck
  /\ phase = "codex" => row.recorded /\ Entries(0)
  /\ phase \in Checking => RunPassed /\ row.recorded
  /\ phase = "checks" =>
       check.passed /\ check.logged = check.count /\ Entries(2 * check.count)
  /\ phase \in {"check", "check_output"} =>
       check.logged = check.count - 1 /\ Entries(2 * check.count - 1)
  /\ phase = "validate" => ChecksDone /\ Entries(2 * Checks)

(* A commit is validated behind all of them, and the evidence for it stays.  *)
CommitInv ==
  /\ row.commit # {} =>
       Evidence /\ phase \notin Preparing \cup {"codex"} \cup Checking
  /\ phase \in Calling \cup {"pushed", "merged", "deployed"} => row.commit # {}
  /\ phase \in {"clean_log", "cleaned"} /\ row.recorded => "path" \notin tree

(* The helper is called only for what was validated, and it pushes that.     *)
PushInv ==
  /\ ops.pc # "idle" => row.commit # {}
  /\ ops.pc # "idle" /\ ops.action = "push" => ops.commit = row.commit
  /\ ops.pc = "merge" => ops.action = "merge"
  /\ ops.action = "push" /\ (landing \/ ops.pc \in {"clean", "send", "wait"}) =>
       ops.target = ops.commit
  /\ remote.task \cap Change # {} =>
       row.commit # {} /\ row.commit \subseteq remote.task

(* The types of what the parts hold, and why an output is logged only once.  *)
Accounts == output.whole + output.noted + output.cut

OutputInv ==
  /\ leader = "alive" => output.made <= MaxEvents
  /\ output.made <= MaxEvents + 2 /\ Accounts <= output.made
  /\ run.pc \notin {"done", "returned"} => Accounts + Pending <= output.made
  /\ run.pc = "log_final" => output.noted <= 1
  /\ output.noted <= 2 /\ output.cut <= 1
  /\ run.pc \in {"done", "returned"} => run.result # "none"

WorkTypes ==
  /\ phase \in Working \cup Ends \cup {"clean_log", "cleaned"}
  /\ row \in [recorded : BOOLEAN, commit : SUBSET (SourceBase \cup Change), rc : Commit]
  /\ check \in [count : 0 .. Checks, passed : BOOLEAN, logged : 0 .. Checks]
  /\ live \in BOOLEAN /\ faults \in 0 .. MaxFaults
  /\ TreeTypeOK

OpsTypes ==
  /\ ops.pc \in {"idle", "bundle", "import", "fetch", "merge", "clean", "unwind",
                 "send", "wait", "answer", "log", "done"}
  /\ ops.temps \subseteq Temp /\ ops.sound \in BOOLEAN /\ landing \in BOOLEAN
  /\ ops.answer \in {"none", "ok", "error"}
  /\ ops.commit \in Commit /\ ops.seen \in Commit /\ ops.target \in Commit
  /\ \A b \in {"base", "task", "rc"} : remote[b] \in Commit

-----------------------------------------------------------------------------
(* The entries of the log. *)

LEMMA ConfirmedCounted ==
  ASSUME LogInv
  PROVE  IsFiniteSet(confirmed) /\ Cardinality(confirmed) \in Nat
<1>1. Len(file) \in Nat /\ DOMAIN file = 1 .. Len(file)
  BY DEF LogInv, LogTypeOK
<1>2. IsFiniteSet(1 .. Len(file))
  BY <1>1, FS_Interval
<1>3. confirmed \in SUBSET (1 .. Len(file))
  BY <1>1 DEF LogInv, LogSound
<1>4. IsFiniteSet(confirmed)
  BY <1>2, <1>3, FS_Subset
<1> QED
  BY <1>4, FS_CardinalityType

(* An append loses no entry, and one that returned nil adds one.             *)
LEMMA AppendCounts ==
  ASSUME LogInv, NEW n \in EntryBytes, NEW ok \in BOOLEAN, AppendRecord(n, ok)
  PROVE  /\ Cardinality(confirmed') \in Nat
         /\ Cardinality(confirmed') >= Cardinality(confirmed)
         /\ ok => Cardinality(confirmed') = Cardinality(confirmed) + 1
<1>1. IsFiniteSet(confirmed) /\ Cardinality(confirmed) \in Nat
  BY ConfirmedCounted
<1>2. CASE ~ok
  <2>1. confirmed' = confirmed
    BY <1>2 DEF AppendRecord, OpenFails
  <2> QED
    BY <1>1, <1>2, <2>1
<1>3. CASE ok
  <2>1. file' = With("record", n) /\ confirmed' = confirmed \cup {Len(file')}
    BY <1>3 DEF AppendRecord, AppendAndSync, OpenFails
  <2>2. Len(file') = Len(file) + 1 /\ Len(file) \in Nat /\ DOMAIN file = 1 .. Len(file)
    BY <2>1 DEF With, LogInv, LogTypeOK
  <2>3. Len(file') \notin confirmed
    BY <2>2 DEF LogInv, LogSound
  <2>4. Cardinality(confirmed') = Cardinality(confirmed) + 1
    BY <1>1, <2>1, <2>3, FS_AddElement
  <2> QED
    BY <1>1, <2>4
<1> QED
  BY <1>2, <1>3

(* The runner counts an output as logged only when its append returned nil.  *)
LEMMA RunnerCounts ==
  ASSUME LogInv, RunShape, Runner, Entries(0)
  PROVE  Entries(0)'
<1>0. /\ Cardinality(confirmed) \in Nat /\ Logged \in Nat
      /\ output.whole \in Nat /\ output.noted \in Nat
  BY ConfirmedCounted DEF RunShape, RunType, Outputs, Logged
<1>1. CASE UNCHANGED <<confirmed, output>>
  BY <1>1 DEF Entries, Logged
<1>2. ASSUME NEW n \in EntryBytes, NEW ok \in BOOLEAN, AppendRecord(n, ok),
             output' = output \/ (ok /\ output' \in {Whole, Noted})
      PROVE  Entries(0)'
  <2>1. /\ Cardinality(confirmed') \in Nat
        /\ Cardinality(confirmed') >= Cardinality(confirmed)
        /\ ok => Cardinality(confirmed') = Cardinality(confirmed) + 1
    BY <1>2, AppendCounts
  <2>2. CASE ok /\ output' \in {Whole, Noted}
    <3>1. Logged' = Logged + 1
      <4>1. CASE output' = Whole
        BY <1>0, <4>1 DEF RunShape, RunType, Outputs, Logged, Whole
      <4>2. CASE output' = Noted
        BY <1>0, <4>2 DEF RunShape, RunType, Outputs, Logged, Noted
      <4> QED
        BY <2>2, <4>1, <4>2
    <3> QED
      BY <1>0, <2>1, <2>2, <3>1 DEF Entries
  <2>3. CASE output' = output
    BY <1>0, <2>1, <2>3 DEF Entries, Logged
  <2> QED
    BY <1>2, <2>2, <2>3
<1>3. CASE StartCodex \/ ScanEnds \/ CancelRun \/ ScanClosed \/ Judge
  BY <1>1, <1>3 DEF StartCodex, ScanEnds, CancelRun, ScanClosed, Judge, runnerFrame
<1>4. CASE WaitReturns
  <2>1. confirmed' = confirmed /\ output' \in {output, [output EXCEPT !.cut = @ + 1]}
    BY <1>4 DEF WaitReturns, DrainFinal, runnerFrame
  <2>2. Logged' = Logged
    BY <1>0, <2>1 DEF RunShape, RunType, Outputs, Logged
  <2> QED
    BY <2>1, <2>2 DEF Entries
<1>5. CASE \E n \in EntryBytes : Scan(n)
  BY <1>1, <1>2, <1>5 DEF Scan
<1>6. ASSUME NEW n \in EntryBytes, NEW present, NEW next,
             NEW logged \in {output, Whole, Noted}, LogOutput(n, present, logged, next)
      PROVE  Entries(0)'
  BY <1>1, <1>2, <1>6 DEF LogOutput
<1>7. CASE \E n \in EntryBytes : LogStderr(n) \/ LogFinal(n)
  <2>1. PICK n \in EntryBytes : LogStderr(n) \/ LogFinal(n)
    BY <1>7
  <2>2. (IF run.stderr = "over" THEN Noted ELSE Whole) \in {output, Whole, Noted}
    OBVIOUS
  <2>3. CASE LogStderr(n)
    BY <1>6, <2>2, <2>3 DEF LogStderr
  <2>4. (IF run.late THEN output
         ELSE IF run.final = "large" THEN Noted ELSE Whole) \in {output, Whole, Noted}
    OBVIOUS
  <2>5. CASE LogFinal(n)
    BY <1>6, <2>4, <2>5 DEF LogFinal
  <2> QED
    BY <2>1, <2>3, <2>5
<1> QED
  BY <1>3, <1>4, <1>5, <1>7 DEF Runner

-----------------------------------------------------------------------------
(* Types. *)

LEMMA FailsKeeps ==
  ASSUME faults \in 0 .. MaxFaults, NEW n \in Nat, UNCHANGED faults \/ Fails(n)
  PROVE  faults' \in 0 .. MaxFaults
BY FaultBound DEF Fails

LEMMA AppendFaults ==
  ASSUME faults \in 0 .. MaxFaults, NEW n, NEW ok \in BOOLEAN, AppendRecord(n, ok)
  PROVE  faults' \in 0 .. MaxFaults
<1>1. UNCHANGED faults \/ Fails(1) \/ Fails(2)
  BY DEF AppendRecord, OpenFails, AppendAndSync
<1> QED
  BY <1>1, FailsKeeps

LEMMA PrepareFaults ==
  ASSUME faults \in 0 .. MaxFaults, Prepare
  PROVE  faults' \in 0 .. MaxFaults
<1>1. Failures \in Nat
  BY DEF Failures
<1>2. ASSUME NEW t, RollBack(t, Failures)
      PROVE  faults' \in 0 .. MaxFaults
  <2>1. PICK r \in (IF t \cap {"path", "registered"} = {}
                      THEN {[tree |-> t, failures |-> 0]} ELSE Removals(t)) :
          \E d \in BranchDeletions(r.tree) : Fails(Failures + r.failures + d.failures)
    BY <1>2 DEF RollBack
  <2>2. PICK d \in BranchDeletions(r.tree) : Fails(Failures + r.failures + d.failures)
    BY <2>1
  <2>3. r.failures \in Nat
    BY DEF Removals
  <2>4. d.failures \in Nat
    <3>1. \/ d = [tree |-> r.tree, failures |-> 0, kept |-> FALSE]
          \/ d = [tree |-> r.tree, failures |-> 1, kept |-> TRUE]
          \/ d = [tree |-> r.tree, failures |-> 0, kept |-> TRUE]
          \/ d = [tree |-> r.tree \ {"branch"}, failures |-> 0, kept |-> FALSE]
      BY DEF BranchDeletions
    <3> QED
      BY <3>1
  <2>5. Failures + r.failures + d.failures \in Nat
    BY <1>1, <2>3, <2>4
  <2> QED
    BY <2>2, <2>5, FailsKeeps
<1>3. CASE UNCHANGED faults \/ Fails(1) \/ Fails(Failures + 1)
  <2>1. Failures + 1 \in Nat
    BY <1>1
  <2> QED
    BY <1>3, <2>1, FailsKeeps
<1> QED
  BY <1>2, <1>3 DEF Prepare

LEMMA RunnerFaults ==
  ASSUME faults \in 0 .. MaxFaults, Runner
  PROVE  faults' \in 0 .. MaxFaults
<1>2. CASE StartCodex
  <2>1. UNCHANGED faults \/ Fails(0) \/ Fails(1)
    BY <1>2 DEF StartCodex, StartFails
  <2> QED
    BY <2>1, FailsKeeps
<1>3. CASE ScanEnds \/ CancelRun \/ ScanClosed \/ WaitReturns
  BY <1>3, FailsKeeps DEF ScanEnds, CancelRun, ScanClosed, WaitReturns, runnerFrame
<1>4. CASE Judge
  BY <1>4, FailsKeeps DEF Judge
<1>5. CASE \E n \in EntryBytes : Scan(n) \/ LogStderr(n) \/ LogFinal(n)
  BY <1>5, AppendFaults DEF Scan, LogStderr, LogFinal, LogOutput
<1> QED
  BY <1>2, <1>3, <1>4, <1>5 DEF Runner

LEMMA HelperFaults ==
  ASSUME faults \in 0 .. MaxFaults,
         CallHelper \/ BundleCommit \/ HelperActs \/ CallEnds \/ Approve \/ OthersPush
  PROVE  faults' \in 0 .. MaxFaults
<1>1. CASE CallHelper \/ Approve \/ OthersPush
  BY <1>1 DEF CallHelper, Approve, OthersPush, ForeignPush
<1>2. CASE BundleCommit
  <2>1. UNCHANGED faults \/ Fails(0) \/ Fails(1)
    BY <1>2 DEF BundleCommit, Bundle
  <2> QED
    BY <2>1, FailsKeeps
<1>3. CASE HelperActs
  <2>1. UNCHANGED faults \/ Fails(1)
    BY <1>3 DEF HelperActs, Help, Import, Fetch, Merge, Clean, Unwind, Send, Answer, Land
  <2> QED
    BY <2>1, FailsKeeps
<1>4. CASE CallEnds
  BY <1>4, AppendFaults DEF CallEnds, KillHelper, Respond
<1> QED
  BY <1>1, <1>2, <1>3, <1>4

LEMMA FaultsBounded ==
  ASSUME faults \in 0 .. MaxFaults, [Next]_vars
  PROVE  faults' \in 0 .. MaxFaults
<1>1. CASE SyncProject \/ Validate
  <2>1. UNCHANGED faults \/ Fails(0) \/ Fails(1)
    BY <1>1 DEF SyncProject, Sync, Validate
  <2> QED
    BY <2>1, FailsKeeps
<1>2. CASE PrepareTree
  BY <1>2, PrepareFaults DEF PrepareTree
<1>3. CASE RunProcesses
  BY <1>3 DEF RunProcesses, Processes, Emit, Spawn, LeaderExits, ChildExits, processFrame
<1>4. CASE RunCodex
  BY <1>4, RunnerFaults DEF RunCodex
<1>5. CASE \/ Checkpoint \/ CodexReturns \/ RunCheck \/ ChecksPassed \/ Survivor
           \/ CallReturns \/ Cancel \/ Recover \/ UNCHANGED vars
  BY <1>5 DEF Checkpoint, CodexReturns, RunCheck, ChecksPassed, Survivor, CallReturns,
              Cancel, Recover, vars
<1>6. CASE \E n \in EntryBytes : StartCheck(n) \/ EndCheck(n)
  BY <1>6, AppendFaults DEF StartCheck, EndCheck
<1>7. CASE CallHelper \/ BundleCommit \/ HelperActs \/ CallEnds \/ Approve \/ OthersPush
  BY <1>7, HelperFaults
<1>8. CASE Die \/ CleanTree \/ CleanLog
  <2>1. UNCHANGED faults \/ Fails(1)
    BY <1>8 DEF Die, CleanTree, CleanLog, RemoveTree, RemoveLog
  <2> QED
    BY <2>1, FailsKeeps
<1> QED
  BY <1>1, <1>2, <1>3, <1>4, <1>5, <1>6, <1>7, <1>8 DEF Next

LEMMA PhaseTyped ==
  ASSUME WorkTypes, [Next]_vars
  PROVE  phase' \in Working \cup Ends \cup {"clean_log", "cleaned"}
<1> USE DEF WorkTypes, Working, Ends
<1>1. Fallen \in Ends /\ Fallen' \in Ends
  BY DEF Fallen
<1>2. CASE SyncProject \/ PrepareTree \/ Checkpoint \/ CodexReturns
  BY <1>1, <1>2 DEF SyncProject, PrepareTree, Checkpoint, CodexReturns, Go
<1>3. CASE \E n \in EntryBytes : StartCheck(n) \/ EndCheck(n)
  BY <1>1, <1>3 DEF StartCheck, EndCheck, Go
<1>4. CASE RunCheck \/ ChecksPassed \/ Validate \/ CallReturns
  BY <1>1, <1>4 DEF RunCheck, ChecksPassed, Validate, CallReturns, Go, Calling, After
<1>5. CASE Approve \/ Die \/ Recover \/ CleanTree \/ CleanLog
  BY <1>5 DEF Approve, Die, Recover, CleanTree, CleanLog
<1>6. CASE \/ RunProcesses \/ RunCodex \/ Survivor \/ CallHelper \/ BundleCommit
           \/ HelperActs \/ CallEnds \/ OthersPush \/ Cancel \/ UNCHANGED vars
  BY <1>6 DEF RunProcesses, RunCodex, Survivor, CallHelper, BundleCommit, HelperActs,
              CallEnds, OthersPush, Cancel, vars
<1> QED
  BY <1>2, <1>3, <1>4, <1>5, <1>6 DEF Next

(* Only these steps write to the row.                                        *)
LEMMA RowMoves ==
  ASSUME [Next]_vars
  PROVE  \/ UNCHANGED row
         \/ Checkpoint /\ row' = [row EXCEPT !.recorded = live]
         \/ Validate /\ ValidCommit /\ phase' = "push"
              /\ row' = [row EXCEPT !.commit = work.head]
         \/ CallReturns /\ row' = [row EXCEPT !.rc = ops.target]
<1>1. CASE Checkpoint \/ Validate \/ CallReturns
  BY <1>1 DEF Checkpoint, Validate, CallReturns
<1>2. CASE SyncProject \/ PrepareTree \/ CodexReturns \/ RunProcesses \/ RunCodex
  BY <1>2 DEF SyncProject, PrepareTree, CodexReturns, RunProcesses, RunCodex
<1>3. CASE \/ \E n \in EntryBytes : StartCheck(n) \/ EndCheck(n)
           \/ RunCheck \/ ChecksPassed \/ Survivor
  BY <1>3 DEF StartCheck, EndCheck, RunCheck, ChecksPassed, Survivor, checkFrame
<1>4. CASE CallHelper \/ BundleCommit \/ HelperActs \/ CallEnds \/ Approve \/ OthersPush
  BY <1>4 DEF CallHelper, BundleCommit, HelperActs, CallEnds, Approve, OthersPush,
              callFrame
<1>5. CASE Cancel \/ Die \/ Recover \/ CleanTree \/ CleanLog \/ UNCHANGED vars
  BY <1>5 DEF Cancel, Die, Recover, CleanTree, CleanLog, vars
<1> QED
  BY <1>1, <1>2, <1>3, <1>4, <1>5 DEF Next

LEMMA RowTyped ==
  ASSUME WorkTypes, OpsTypes, [Next]_vars
  PROVE  row' \in [recorded : BOOLEAN, commit : SUBSET (SourceBase \cup Change),
                   rc : Commit]
<1>1. work.head \in SUBSET (SourceBase \cup Change) /\ live \in BOOLEAN
      /\ ops.target \in Commit
  BY DEF WorkTypes, TreeTypeOK, OpsTypes
<1>2. row \in [recorded : BOOLEAN, commit : SUBSET (SourceBase \cup Change), rc : Commit]
  BY DEF WorkTypes
<1>3. \/ UNCHANGED row
      \/ row' = [row EXCEPT !.recorded = live]
      \/ row' = [row EXCEPT !.commit = work.head]
      \/ row' = [row EXCEPT !.rc = ops.target]
  BY RowMoves
<1> QED
  BY <1>1, <1>2, <1>3

(* Only these steps touch the checks.                                        *)
LEMMA CheckMoves ==
  ASSUME [Next]_vars
  PROVE  \/ UNCHANGED check
         \/ /\ \E n \in EntryBytes : StartCheck(n)
            /\ phase = "checks" /\ check.count < Checks
            /\ check' = [check EXCEPT !.count = @ + 1]
         \/ /\ RunCheck
            /\ \E passed \in {FALSE, live} : check' = [check EXCEPT !.passed = passed]
         \/ /\ \E n \in EntryBytes : EndCheck(n)
            /\ phase = "check_output" /\ check' = CheckLogged
<1>1. CASE \E n \in EntryBytes : StartCheck(n)
  BY <1>1 DEF StartCheck
<1>2. CASE RunCheck
  BY <1>2 DEF RunCheck
<1>3. CASE SyncProject \/ PrepareTree \/ CodexReturns \/ RunProcesses \/ RunCodex \/ Checkpoint
  BY <1>3 DEF SyncProject, PrepareTree, CodexReturns, RunProcesses, RunCodex, Checkpoint
<1>4. CASE \/ \E n \in EntryBytes : EndCheck(n)
           \/ ChecksPassed \/ Survivor \/ Validate \/ CallReturns
  BY <1>4 DEF EndCheck, ChecksPassed, Survivor, Validate, CallReturns, CheckLogged
<1>5. CASE CallHelper \/ BundleCommit \/ HelperActs \/ CallEnds \/ Approve \/ OthersPush
  BY <1>5 DEF CallHelper, BundleCommit, HelperActs, CallEnds, Approve, OthersPush,
              callFrame
<1>6. CASE Cancel \/ Die \/ Recover \/ CleanTree \/ CleanLog \/ UNCHANGED vars
  BY <1>6 DEF Cancel, Die, Recover, CleanTree, CleanLog, vars
<1> QED
  BY <1>1, <1>2, <1>3, <1>4, <1>5, <1>6 DEF Next

LEMMA CheckTyped ==
  ASSUME WorkTypes, StepsInv, [Next]_vars
  PROVE  check' \in [count : 0 .. Checks, passed : BOOLEAN, logged : 0 .. Checks]
<1>1. /\ check \in [count : 0 .. Checks, passed : BOOLEAN, logged : 0 .. Checks]
      /\ live \in BOOLEAN /\ Checks \in Nat
  BY WorkConstants DEF WorkTypes
<1>2. CASE check' = [check EXCEPT !.count = @ + 1] /\ check.count < Checks
  BY <1>1, <1>2
<1>3. CASE \E passed \in {FALSE, live} : check' = [check EXCEPT !.passed = passed]
  BY <1>1, <1>3
<1>4. CASE phase = "check_output" /\ check' = CheckLogged
  <2>1. check.logged = check.count - 1
    BY <1>4 DEF StepsInv
  <2> QED
    BY <1>1, <1>4, <2>1 DEF CheckLogged
<1> QED
  BY <1>1, <1>2, <1>3, <1>4, CheckMoves

(* Only these steps touch the worktree.                                      *)
LEMMA TreeMoves ==
  ASSUME [Next]_vars
  PROVE  \/ UNCHANGED treeVars
         \/ EditTree
         \/ PrepareTree /\ Prepare
         \/ Die /\ phase = "prepare" /\ DieInPrepare
         \/ /\ phase \in {"failed", "stopped"} /\ row.recorded
            /\ \E ok \in BOOLEAN :
                 RemoveTree(ok) /\ phase' = IF ok THEN "clean_log" ELSE phase
<1>1. CASE PrepareTree \/ CodexReturns \/ RunCheck \/ Survivor
  BY <1>1 DEF PrepareTree, CodexReturns, RunCheck, Survivor
<1>2. CASE Die \/ CleanTree
  BY <1>2 DEF Die, CleanTree, treeVars
<1>3. CASE SyncProject \/ Checkpoint \/ RunProcesses \/ RunCodex \/ Validate \/ CallReturns
  BY <1>3 DEF SyncProject, Checkpoint, RunProcesses, RunCodex, Validate, CallReturns
<1>4. CASE \/ \E n \in EntryBytes : StartCheck(n) \/ EndCheck(n)
           \/ ChecksPassed
  BY <1>4 DEF StartCheck, EndCheck, ChecksPassed
<1>5. CASE CallHelper \/ BundleCommit \/ HelperActs \/ CallEnds \/ Approve \/ OthersPush
  BY <1>5 DEF CallHelper, BundleCommit, HelperActs, CallEnds, Approve, OthersPush,
              callFrame
<1>6. CASE Cancel \/ Recover \/ CleanLog \/ UNCHANGED vars
  BY <1>6 DEF Cancel, Recover, CleanLog, vars
<1> QED
  BY <1>1, <1>2, <1>3, <1>4, <1>5, <1>6 DEF Next

LEMMA TreeTyped ==
  ASSUME TreeInv, TreeInv', WorkTypes, [Next]_vars
  PROVE  TreeTypeOK'
<1> USE DEF WorkTypes, TreeTypeOK
<1>1. tree' \subseteq Part
  BY DEF TreeInv
<1>2. CASE UNCHANGED treeVars
  BY <1>2 DEF treeVars
<1>3. CASE EditTree
  <2>1. UNCHANGED <<tree, before, prepared>>
    BY <1>3 DEF EditTree
  <2>2. PICK c \in SUBSET Change : work.head = SourceBase \cup c
    OBVIOUS
  <2>3. \/ \E d \in Change : work' = [head |-> work.head \cup {d}, fit |-> TRUE]
        \/ work' = [work EXCEPT !.fit = FALSE]
    BY <1>3 DEF EditTree
  <2>4. CASE \E d \in Change : work' = [head |-> work.head \cup {d}, fit |-> TRUE]
    <3>1. PICK d \in Change : work' = [head |-> work.head \cup {d}, fit |-> TRUE]
      BY <2>4
    <3>2. work.head \cup {d} = SourceBase \cup (c \cup {d}) /\ c \cup {d} \in SUBSET Change
      BY <2>2
    <3>3. work.head \cup {d} \in {SourceBase \cup e : e \in SUBSET Change}
      BY <3>2
    <3> QED
      BY <2>1, <3>1, <3>3
  <2>5. CASE work' = [work EXCEPT !.fit = FALSE]
    BY <2>1, <2>5
  <2> QED
    BY <2>3, <2>4, <2>5
<1>4. CASE Prepare
  BY <1>1, <1>4 DEF Prepare, RollBack
<1>5. CASE DieInPrepare \/ \E ok \in BOOLEAN : RemoveTree(ok)
  BY <1>1, <1>5 DEF DieInPrepare, RemoveTree
<1> QED
  BY <1>2, <1>3, <1>4, <1>5, TreeMoves

LEMMA LiveTyped ==
  ASSUME WorkTypes, [Next]_vars
  PROVE  live' \in BOOLEAN
<1>1. CASE SyncProject \/ PrepareTree \/ Checkpoint \/ CodexReturns \/ RunProcesses
  BY <1>1 DEF WorkTypes, SyncProject, PrepareTree, Checkpoint, CodexReturns, RunProcesses,
              Processes, Emit, Spawn, LeaderExits, ChildExits, processFrame
<1>2. CASE RunCodex
  BY <1>2 DEF WorkTypes, RunCodex, Runner, StartCodex, ScanEnds, CancelRun, ScanClosed,
              WaitReturns, Judge, Scan, LogStderr, LogFinal, LogOutput, runnerFrame
<1>3. CASE \/ \E n \in EntryBytes : StartCheck(n) \/ EndCheck(n)
           \/ RunCheck \/ ChecksPassed \/ Survivor \/ Validate \/ CallReturns
  BY <1>3 DEF WorkTypes, StartCheck, EndCheck, RunCheck, ChecksPassed, Survivor, Validate,
              CallReturns, checkFrame
<1>4. CASE CallHelper \/ BundleCommit \/ HelperActs \/ CallEnds \/ Approve \/ OthersPush
  BY <1>4 DEF WorkTypes, CallHelper, BundleCommit, Bundle, HelperActs, Help, CallEnds,
              KillHelper, Respond, Approve, OthersPush, ForeignPush, logFrame
<1>5. CASE Cancel \/ Die \/ Recover \/ CleanTree \/ CleanLog \/ UNCHANGED vars
  BY <1>5 DEF WorkTypes, Cancel, Die, Recover, CleanTree, CleanLog, vars
<1> QED
  BY <1>1, <1>2, <1>3, <1>4, <1>5 DEF Next

LEMMA WorkTypesKeep ==
  ASSUME WorkTypes, OpsTypes, StepsInv, TreeInv, TreeInv', [Next]_vars
  PROVE  WorkTypes'
<1>1. faults' \in 0 .. MaxFaults
  BY FaultsBounded DEF WorkTypes
<1> QED
  BY <1>1, PhaseTyped, RowTyped, CheckTyped, LiveTyped, TreeTyped DEF WorkTypes

(* Only these steps touch the call and the branches.                         *)
LEMMA OpsMoves ==
  ASSUME [Next]_vars
  PROVE  \/ UNCHANGED <<remote, ops, landing>>
         \/ CallHelper \/ BundleCommit \/ HelperActs \/ CallEnds \/ Approve \/ OthersPush
<1>1. CASE SyncProject
  BY <1>1 DEF SyncProject, Sync
<1>2. CASE \/ PrepareTree \/ Checkpoint \/ RunProcesses \/ RunCodex \/ CodexReturns
           \/ CallReturns \/ Validate \/ Cancel \/ Die \/ Recover \/ CleanTree \/ CleanLog
  BY <1>2 DEF PrepareTree, Checkpoint, RunProcesses, RunCodex, CodexReturns, CallReturns,
              Validate, Cancel, Die, Recover, CleanTree, CleanLog, opsVars
<1>3. CASE \/ \E n \in EntryBytes : StartCheck(n) \/ EndCheck(n)
           \/ RunCheck \/ ChecksPassed \/ Survivor
  BY <1>3 DEF StartCheck, EndCheck, RunCheck, ChecksPassed, Survivor, checkFrame, opsVars
<1>4. CASE UNCHANGED vars
  BY <1>4 DEF vars, opsVars
<1> QED
  BY <1>1, <1>2, <1>3, <1>4 DEF Next

CallShape ==
  ops = [pc |-> ops.pc, action |-> ops.action, commit |-> ops.commit,
         seen |-> ops.seen, target |-> ops.target, temps |-> ops.temps,
         sound |-> ops.sound, answer |-> ops.answer]

LEMMA CallHelperTypes ==
  ASSUME OpsTypes, WorkTypes, CallHelper
  PROVE  OpsTypes'
<1>1. PICK a \in Calling, c \in {row.rc, row.commit} : Call(a, c)
  BY DEF CallHelper
<1>2. PICK pc \in {"bundle", "fetch"} :
        ops' = [NoCall EXCEPT !.pc = pc, !.action = a, !.commit = c]
  BY <1>1 DEF Call
<1>3. ops' = [pc |-> pc, action |-> a, commit |-> c, seen |-> {}, target |-> {},
             temps |-> {}, sound |-> TRUE, answer |-> "none"]
  BY <1>2 DEF NoCall
<1>4. c \in Commit /\ {} \in Commit
  BY DEF WorkTypes, Commit
<1>5. UNCHANGED <<remote, landing>>
  BY <1>1 DEF Call
<1> QED
  BY <1>3, <1>4, <1>5 DEF OpsTypes

LEMMA HelperTypes ==
  ASSUME OpsTypes, CallShape, ops.action \in {"push", "merge", "deploy"},
         Import \/ Fetch \/ Merge \/ Clean \/ Unwind \/ Send \/ Answer
  PROVE  OpsTypes'
<1> USE DEF OpsTypes, CallShape, At
<1>1. CASE Import
  <2>1. /\ UNCHANGED <<remote, landing>>
        /\ \/ ops' = [ops EXCEPT !.pc = "fetch", !.temps = {"spool", "imported"}]
           \/ \E temps \in {{}, {"spool"}, {"spool", "imported"}} :
                ops' = [ops EXCEPT !.pc = "unwind", !.sound = FALSE, !.temps = temps]
    BY <1>1 DEF Import, helperFrame
  <2>2. CASE ops' = [ops EXCEPT !.pc = "fetch", !.temps = {"spool", "imported"}]
    BY <2>1, <2>2 DEF Temp
  <2>3. ASSUME NEW temps \in SUBSET Temp,
               ops' = [ops EXCEPT !.pc = "unwind", !.sound = FALSE, !.temps = temps]
        PROVE  OpsTypes'
    BY <2>1, <2>3
  <2>4. {{}, {"spool"}, {"spool", "imported"}} \subseteq SUBSET Temp
    BY DEF Temp
  <2> QED
    BY <2>1, <2>2, <2>3, <2>4
<1>2. CASE Fetch
  <2>1. remote[Branch[ops.action]] \in Commit
    BY DEF Branch
  <2>2. UNCHANGED <<remote, landing>>
    BY <1>2 DEF Fetch, helperFrame
  <2>3. ASSUME NEW pc \in {"merge", "clean"}, NEW temps \in SUBSET Temp,
               ops' = [ops EXCEPT !.pc = pc, !.seen = remote[Branch[ops.action]],
                                  !.target = ops.commit, !.temps = temps]
        PROVE  OpsTypes'
    <3> DEFINE seen == remote[Branch[ops.action]]
    <3>1. seen \in Commit /\ ops' = [ops EXCEPT !.pc = pc, !.seen = seen,
                                  !.target = ops.commit, !.temps = temps]
      BY <2>1, <2>3
    <3> HIDE DEF seen
    <3> QED
      BY <2>2, <3>1
  <2>4. ASSUME ops' = [ops EXCEPT !.pc = "unwind", !.sound = FALSE,
                                  !.temps = @ \cup {"fetched"}]
        PROVE  OpsTypes'
    BY <2>2, <2>4 DEF Temp
  <2>5. \/ \E pc \in {"merge", "clean"}, temps \in SUBSET Temp :
             ops' = [ops EXCEPT !.pc = pc, !.seen = remote[Branch[ops.action]],
                                !.target = ops.commit, !.temps = temps]
        \/ ops' = [ops EXCEPT !.pc = "unwind", !.sound = FALSE,
                              !.temps = @ \cup {"fetched"}]
    <3> DEFINE pc == IF ops.action = "merge" THEN "merge" ELSE "clean"
               temps == IF ops.action = "push" /\ remote.task = {}
                          THEN ops.temps ELSE ops.temps \cup {"fetched"}
    <3>1. pc \in {"merge", "clean"} /\ temps \in SUBSET Temp
      BY DEF Temp
    <3>2. \/ ops' = [ops EXCEPT !.pc = pc, !.seen = remote[Branch[ops.action]],
                                !.target = ops.commit, !.temps = temps]
          \/ ops' = [ops EXCEPT !.pc = "unwind", !.sound = FALSE,
                                !.temps = @ \cup {"fetched"}]
      BY <1>2 DEF Fetch
    <3> HIDE DEF pc, temps
    <3> QED
      BY <3>1, <3>2
  <2> QED
    BY <2>3, <2>4, <2>5
<1>3. CASE Merge
  <2>1. ops.seen \cup ops.commit \in Commit
    BY DEF Commit
  <2> QED
    BY <1>3, <2>1 DEF Merge, helperFrame, Temp
<1>4. CASE Clean
  <2>1. ASSUME NEW pc \in {"send", "answer"}, NEW temps \in SUBSET Temp,
               NEW sound \in BOOLEAN,
               ops' = [ops EXCEPT !.temps = temps, !.pc = pc, !.sound = sound]
        PROVE  OpsTypes'
    BY <1>4, <2>1 DEF Clean, helperFrame
  <2>2. CASE ops' = [ops EXCEPT !.temps = {}, !.pc = "send"]
    <3>1. ops' = [ops EXCEPT !.temps = {}, !.pc = "send", !.sound = ops.sound]
      BY <2>2
    <3> QED
      BY <2>1, <3>1
  <2>3. CASE \E t \in ops.temps :
               ops' = [ops EXCEPT !.temps = {t}, !.pc = "answer", !.sound = FALSE]
    <3>1. PICK t \in Temp :
               ops' = [ops EXCEPT !.temps = {t}, !.pc = "answer", !.sound = FALSE]
      BY <2>3
    <3> QED
      BY <2>1, <3>1
  <2> QED
    BY <1>4, <2>2, <2>3 DEF Clean
<1>5. CASE Unwind
  <2>1. ASSUME NEW temps \in SUBSET Temp,
               ops' = [ops EXCEPT !.temps = temps, !.pc = "answer"]
        PROVE  OpsTypes'
    BY <1>5, <2>1 DEF Unwind, helperFrame
  <2>2. PICK temps \in SUBSET Temp : ops' = [ops EXCEPT !.temps = temps, !.pc = "answer"]
    BY <1>5 DEF Unwind
  <2> QED
    BY <2>1, <2>2
<1>6. CASE Send
  BY <1>6 DEF Send, To, Unwinds
<1>7. CASE Answer
  BY <1>7 DEF Answer, helperFrame
<1> QED
  BY <1>1, <1>2, <1>3, <1>4, <1>5, <1>6, <1>7

LEMMA ClientTypes ==
  ASSUME OpsTypes, CallShape,
         Bundle(work.head) \/ KillHelper \/ \E n \in EntryBytes : Respond(n)
  PROVE  OpsTypes'
<1> USE DEF OpsTypes, CallShape, At
<1>1. CASE Bundle(work.head)
  BY <1>1 DEF Bundle, To
<1>2. CASE KillHelper
  BY <1>2 DEF KillHelper
<1>3. CASE \E n \in EntryBytes : Respond(n)
  <2>1. /\ UNCHANGED <<remote, landing>>
        /\ \/ ops' = [ops EXCEPT !.pc = "done", !.answer = "ok"]
           \/ ops' = [ops EXCEPT !.pc = "done", !.answer = "error"]
    BY <1>3 DEF Respond
  <2> QED
    BY <2>1
<1> QED
  BY <1>1, <1>2, <1>3

LEMMA LandTypes ==
  ASSUME OpsTypes, CallInv, NEW moved \in BOOLEAN, Land(moved)
  PROVE  OpsTypes'
<1> USE DEF OpsTypes, At
<1>1. landing' = FALSE /\ ops.action \in {"push", "merge", "deploy"}
  BY DEF Land, CallInv
<1>2. /\ remote = [x \in {"base", "task", "rc"} |-> remote[x]]
      /\ \/ remote' = remote
         \/ remote' = [remote EXCEPT ![Branch[ops.action]] = ops.target]
  BY DEF Land, CallInv
<1>3. \A x \in {"base", "task", "rc"} : remote'[x] \in Commit
  BY <1>2
<1>4. \/ ops' = ops
      \/ \E sound \in BOOLEAN : ops' = [ops EXCEPT !.pc = "answer", !.sound = sound]
  BY DEF Land
<1>5. CallShape
  BY DEF CallInv, CallShape
<1> QED
  BY <1>1, <1>3, <1>4, <1>5 DEF CallShape

LEMMA ForeignTypes ==
  ASSUME OpsTypes, CallInv, NEW b \in {"base", "task", "rc"}, ForeignPush(b)
  PROVE  OpsTypes'
<1>1. PICK c \in Upstream \cup Foreign :
        remote' = [remote EXCEPT ![b] = remote[b] \cup {c}]
  BY DEF ForeignPush
<1>2. remote[b] \cup {c} \in Commit /\ UNCHANGED <<ops, landing>>
  BY DEF OpsTypes, Commit, ForeignPush
<1>3. \A x \in {"base", "task", "rc"} : remote'[x] \in Commit
  BY <1>1, <1>2 DEF CallInv, OpsTypes
<1> QED
  BY <1>2, <1>3 DEF OpsTypes

LEMMA OpsTypesKeep ==
  ASSUME OpsTypes, WorkTypes, CallInv, [Next]_vars
  PROVE  OpsTypes'
<1>0. CallShape /\ ops.action \in {"push", "merge", "deploy"}
  BY DEF CallInv, CallShape
<1>1. CASE UNCHANGED <<remote, ops, landing>>
  BY <1>1 DEF OpsTypes
<1>2. CASE CallHelper
  BY <1>2, CallHelperTypes
<1>3. CASE BundleCommit \/ CallEnds
  BY <1>0, <1>3, ClientTypes DEF BundleCommit, CallEnds
<1>4. CASE HelperActs
  BY <1>0, <1>4, HelperTypes, LandTypes DEF HelperActs, Help
<1>5. CASE Approve
  <2>1. ops' = NoCall /\ UNCHANGED <<remote, landing>>
    BY <1>5 DEF Approve
  <2> QED
    BY <2>1 DEF OpsTypes, NoCall, Commit
<1>6. CASE OthersPush
  BY <1>6, ForeignTypes DEF OthersPush
<1> QED
  BY <1>1, <1>2, <1>3, <1>4, <1>5, <1>6, OpsMoves

-----------------------------------------------------------------------------
(* The outputs of a run. *)

LEMMA ProcessOutputs ==
  ASSUME CodexInv, OutputInv, Processes
  PROVE  OutputInv'
<1> USE DEF CodexInv, OutputInv
<1>1. ASSUME NEW e \in Event, Emit(e) PROVE OutputInv'
  <2>1. /\ leader = "alive" /\ pipe = "none" /\ output.made < MaxEvents
        /\ pipe' = e /\ UNCHANGED <<run, leader>>
        /\ output'.made = output.made + 1 /\ output'.noted = output.noted
        /\ output'.cut = output.cut /\ Accounts' = Accounts
        /\ output.made \in Nat /\ Accounts \in Nat
    BY <1>1 DEF Emit, RunShape, RunType, Outputs, Accounts
  <2> QED
    BY <2>1, WorkConstants DEF Pending, One, Phases
<1>2. ASSUME NEW kind, NEW d, Spawn(kind, d) PROVE OutputInv'
  BY <1>2 DEF Spawn, Pending, One, Accounts
<1>3. CASE ChildExits
  BY <1>3 DEF ChildExits, Pending, One, Accounts
<1>4. ASSUME NEW code \in {"ok", "error"}, NEW stderr \in {"none", "some", "over"},
             NEW final \in {"none", "text", "blocked", "large"},
             LeaderExits(code, final, stderr)
      PROVE  OutputInv'
  <2>1. /\ run' = [run EXCEPT !.final = final, !.stderr = stderr]
        /\ leader = "alive" /\ leader' = code /\ UNCHANGED <<child, pipe>>
    BY <1>4 DEF LeaderExits
  <2>2. /\ output'.made = output.made + One(final # "none") + One(stderr # "none")
        /\ output'.noted = output.noted /\ output'.cut = output.cut
        /\ Accounts' = Accounts
        /\ output.made \in Nat /\ Accounts \in Nat
    BY <1>4 DEF LeaderExits, RunShape, RunType, Outputs, Accounts, One
  <2>3. run'.final = final /\ run'.stderr = stderr /\ run'.pc = run.pc
    BY <2>1 DEF RunShape, RunType
  <2>4. run.pc = "scan" /\ run.final = "none" /\ run.stderr = "none"
    BY <2>1 DEF Phases, Stopped, Accounted
  <2> QED
    BY <2>1, <2>2, <2>3, <2>4, WorkConstants DEF Pending, One
<1> QED
  BY <1>1, <1>2, <1>3, <1>4 DEF Processes

(* A step of the runner makes no output and revives no leader.               *)
LEMMA RunnerOutputs ==
  ASSUME CodexInv, OutputInv, Runner
  PROVE  OutputInv'
<1> USE DEF CodexInv, OutputInv
<1>0. /\ output.made \in Nat /\ output.whole \in Nat /\ output.noted \in Nat
      /\ output.cut \in Nat /\ output \in Outputs
  BY DEF RunShape, RunType, Outputs
<1>1. CASE StartCodex
  <2>1. /\ run = NoRun /\ output' = output /\ output = NoOutput /\ pipe = "none"
        /\ pipe' = "none"
    BY <1>1 DEF Phases, StartCodex
  <2>2. \/ run' = [run EXCEPT !.pc = "scan", !.temp = TRUE]
        \/ \E temp \in BOOLEAN :
             run' = [run EXCEPT !.pc = "judge", !.failed = TRUE, !.temp = temp]
    BY <1>1 DEF StartCodex, StartFails
  <2>3. run'.pc \in {"scan", "judge"} /\ run'.final = "none" /\ run'.stderr = "none"
    BY <2>1, <2>2 DEF NoRun
  <2> QED
    BY <2>1, <2>3, WorkConstants DEF Pending, One, NoOutput, Accounts
<1>2. ASSUME NEW n \in EntryBytes, Scan(n) PROVE OutputInv'
  <2> DEFINE scanned == [run EXCEPT !.session = @ \/ pipe = "thread",
                                    !.blocked = @ \/ pipe = "blocked"]
             stopped == [scanned EXCEPT !.broken = TRUE, !.pc = "wait"]
  <2>1. run.pc = "scan" /\ pipe # "none" /\ pipe' = "none"
    BY <1>2 DEF Scan
  <2>2. /\ scanned.pc = run.pc /\ scanned.final = run.final
        /\ scanned.stderr = run.stderr /\ scanned.late = run.late
        /\ stopped.pc = "wait" /\ stopped.final = run.final
        /\ stopped.stderr = run.stderr /\ stopped.late = run.late
    BY DEF RunShape, RunType
  <2>3. \/ run' = scanned /\ output' = Whole /\ leader' = leader
        \/ run' = stopped /\ KillGroup /\ output' = output
    BY <1>2 DEF Scan
  <2> HIDE DEF scanned, stopped
  <2>4. CASE run' = scanned /\ output' = Whole /\ leader' = leader
    <3>1. /\ output'.made = output.made /\ output'.whole = output.whole + 1
          /\ output'.noted = output.noted /\ output'.cut = output.cut
      BY <1>0, <2>4 DEF Whole, Outputs
    <3> QED
      BY <1>0, <2>1, <2>2, <2>4, <3>1 DEF Pending, One, Accounts
  <2>5. CASE run' = stopped /\ KillGroup /\ output' = output
    <3>1. leader' # "alive"
      BY <2>5, KillGroupShape
    <3> QED
      BY <1>0, <2>1, <2>2, <2>5, <3>1 DEF Pending, One, Accounts
  <2> QED
    BY <2>3, <2>4, <2>5
<1>3. CASE ScanEnds \/ ScanClosed
  <2>1. /\ run.pc = "scan" /\ run' = [run EXCEPT !.pc = "wait"] /\ pipe' = "none"
        /\ UNCHANGED <<leader, output>>
    BY <1>3 DEF ScanEnds, ScanClosed
  <2>2. run'.pc = "wait" /\ run'.final = run.final /\ run'.stderr = run.stderr
        /\ run'.late = run.late
    BY <2>1 DEF RunShape, RunType
  <2> QED
    BY <1>0, <2>1, <2>2 DEF Pending, One, Accounts
<1>4. CASE CancelRun
  <2>1. /\ run' = [run EXCEPT !.canceled = TRUE] /\ run.pc \in {"scan", "wait"}
        /\ KillGroup /\ UNCHANGED <<pipe, output>>
    BY <1>4 DEF CancelRun
  <2>2. run'.pc = run.pc /\ run'.final = run.final /\ run'.stderr = run.stderr
        /\ run'.late = run.late
    BY <2>1 DEF RunShape, RunType
  <2>3. leader' # "alive"
    BY <2>1, KillGroupShape
  <2> QED
    BY <1>0, <2>1, <2>2, <2>3 DEF Pending, One, Accounts
<1>5. CASE WaitReturns
  <2>1. /\ run.pc = "wait" /\ leader' = leader /\ leader # "alive" /\ pipe' = "none"
    BY <1>5 DEF WaitReturns
  <2>2. PICK final \in {"none", "text", "blocked", "large"}, late \in BOOLEAN :
          /\ run' = [run EXCEPT !.pc = "log_stderr", !.final = final, !.late = late,
                                !.failed = leader # "ok" \/ Open("stderr")]
          /\ late \/ final = run.final
          /\ output' = IF late /\ run.final # "none" THEN [output EXCEPT !.cut = @ + 1]
                                                     ELSE output
    <3>1. Open("final") \in BOOLEAN
      BY DEF Open
    <3>2. CutOff(run.final) \cup {run.final} \subseteq {"none", "text", "blocked", "large"}
      BY DEF RunShape, RunType, CutOff
    <3> QED
      BY <1>5, <3>1, <3>2 DEF WaitReturns, DrainFinal
  <2>3. /\ run'.pc = "log_stderr" /\ run'.final = final /\ run'.stderr = run.stderr
        /\ run'.late = late
    BY <2>2 DEF RunShape, RunType
  <2>4. /\ output'.made = output.made /\ output'.whole = output.whole
        /\ output'.noted = output.noted
        /\ output'.cut = output.cut + One(late /\ run.final # "none")
    BY <1>0, <2>2 DEF Outputs, One
  <2>5. ~run.late /\ output.cut = 0 /\ output.noted = 0
    BY <1>0, <2>1 DEF Accounted, One
  <2> QED
    BY <1>0, <2>1, <2>2, <2>3, <2>4, <2>5 DEF Pending, One, Accounts
<1>6. ASSUME NEW n \in EntryBytes, NEW present \in BOOLEAN, NEW logged \in Outputs,
             NEW next \in {"log_final", "judge"}, LogOutput(n, present, logged, next)
      PROVE  /\ run'.pc = next /\ run'.final = run.final /\ run'.stderr = run.stderr
             /\ run'.late = run.late /\ UNCHANGED <<leader, pipe>>
             /\ output' = output \/ (present /\ output' = logged)
  <2>1. /\ UNCHANGED <<leader, pipe>>
        /\ \/ run' = [run EXCEPT !.pc = next]
           \/ run' = [run EXCEPT !.pc = next, !.failed = TRUE]
    BY <1>6 DEF LogOutput
  <2>2. run'.pc = next /\ run'.final = run.final /\ run'.stderr = run.stderr
        /\ run'.late = run.late
    BY <2>1 DEF RunShape, RunType
  <2>3. output' = output \/ (present /\ output' = logged)
    BY <1>6 DEF LogOutput
  <2> QED
    BY <2>1, <2>2, <2>3
<1>7. /\ Whole \in Outputs /\ Whole.made = output.made
      /\ Whole.whole = output.whole + 1 /\ Whole.noted = output.noted
      /\ Whole.cut = output.cut
      /\ Noted \in Outputs /\ Noted.made = output.made
      /\ Noted.whole = output.whole /\ Noted.noted = output.noted + 1
      /\ Noted.cut = output.cut
  BY <1>0 DEF Whole, Noted, Outputs
<1>8. CASE \E n \in EntryBytes : LogStderr(n)
  <2>1. PICK n \in EntryBytes :
          LogOutput(n, run.stderr # "none",
                    IF run.stderr = "over" THEN Noted ELSE Whole, "log_final")
    BY <1>8 DEF LogStderr
  <2>2. /\ (run.stderr # "none") \in BOOLEAN
        /\ (IF run.stderr = "over" THEN Noted ELSE Whole) \in Outputs
        /\ run.pc = "log_stderr" /\ leader # "alive"
    BY <1>7, <1>8 DEF LogStderr, Phases
  <2>3. /\ run'.pc = "log_final" /\ run'.final = run.final /\ run'.stderr = run.stderr
        /\ run'.late = run.late /\ UNCHANGED <<leader, pipe>>
        /\ \/ output' = output
           \/ run.stderr # "none" /\ output' \in {Whole, Noted}
    BY <1>6, <2>1, <2>2
  <2>4. output.noted = 0
    BY <2>2 DEF Accounted
  <2> QED
    BY <1>0, <1>7, <2>2, <2>3, <2>4 DEF Pending, One, Accounts
<1>9. CASE \E n \in EntryBytes : LogFinal(n)
  <2>1. PICK n \in EntryBytes :
          LogOutput(n, run.final # "none",
                    IF run.late THEN output
                    ELSE IF run.final = "large" THEN Noted ELSE Whole, "judge")
    BY <1>9 DEF LogFinal
  <2>2. /\ (run.final # "none") \in BOOLEAN
        /\ (IF run.late THEN output
            ELSE IF run.final = "large" THEN Noted ELSE Whole) \in Outputs
        /\ run.pc = "log_final" /\ leader # "alive"
    BY <1>0, <1>7, <1>9 DEF LogFinal, Phases
  <2>3. /\ run'.pc = "judge" /\ run'.final = run.final /\ run'.stderr = run.stderr
        /\ run'.late = run.late /\ UNCHANGED <<leader, pipe>>
        /\ \/ output' = output
           \/ run.final # "none" /\ ~run.late /\ output' \in {Whole, Noted}
    BY <1>6, <2>1, <2>2
  <2> QED
    BY <1>0, <1>7, <2>2, <2>3 DEF Pending, One, Accounts
<1>10. CASE Judge
  <2>1. UNCHANGED <<leader, output>> /\ run.pc = "judge"
    BY <1>10 DEF Judge
  <2>2. \/ run' = [run EXCEPT !.pc = "done", !.temp = FALSE,
             !.result = IF ~Succeeded(run) THEN "error"
                        ELSE IF Blocked(run) THEN "blocked" ELSE "ok"]
        \/ run' = [run EXCEPT !.pc = "done", !.result = "error"]
    BY <1>10 DEF Judge
  <2>3. run'.pc = "done" /\ run'.result # "none"
    BY <2>2 DEF RunShape, RunType
  <2> QED
    BY <2>1, <2>3 DEF Accounts
<1> QED
  BY <1>1, <1>2, <1>3, <1>4, <1>5, <1>8, <1>9, <1>10 DEF Runner

(* Only these steps touch the run.                                           *)
LEMMA RunMoves ==
  ASSUME [Next]_vars
  PROVE  \/ UNCHANGED codexVars
         \/ RunProcesses \/ RunCodex \/ CodexReturns
         \/ /\ Die /\ phase = "codex"
            /\ run' = [NoRun EXCEPT !.pc = "returned", !.result = "error"]
            /\ leader' = "none" /\ output' = NoOutput
<1>1. CASE SyncProject \/ PrepareTree \/ Checkpoint
  BY <1>1 DEF SyncProject, PrepareTree, Checkpoint
<1>2. CASE \/ \E n \in EntryBytes : StartCheck(n) \/ EndCheck(n)
           \/ RunCheck \/ ChecksPassed \/ Survivor \/ Validate
  BY <1>2 DEF StartCheck, EndCheck, RunCheck, ChecksPassed, Survivor, Validate, checkFrame
<1>3. CASE CallHelper \/ BundleCommit \/ HelperActs \/ CallEnds \/ Approve \/ OthersPush
  BY <1>3 DEF CallHelper, BundleCommit, HelperActs, CallEnds, Approve, OthersPush,
              callFrame
<1>4. CASE CallReturns \/ Cancel \/ Recover \/ CleanTree \/ CleanLog
  BY <1>4 DEF CallReturns, Cancel, Recover, CleanTree, CleanLog
<1>5. CASE Die
  BY <1>5 DEF Die
<1>6. CASE UNCHANGED vars
  BY <1>6 DEF vars
<1> QED
  BY <1>1, <1>2, <1>3, <1>4, <1>5, <1>6 DEF Next

LEMMA OutputKeeps ==
  ASSUME CodexInv, OutputInv, [Next]_vars
  PROVE  OutputInv'
<1> USE DEF OutputInv
<1>1. CASE UNCHANGED codexVars
  BY <1>1 DEF codexVars, Pending, Accounts
<1>2. CASE RunProcesses \/ RunCodex
  BY <1>2, ProcessOutputs, RunnerOutputs DEF RunProcesses, RunCodex
<1>3. CASE CodexReturns
  <2>1. /\ run.pc = "done" /\ run' = [NoRun EXCEPT !.pc = "returned",
                                   !.result = run.result, !.session = run.session]
        /\ \/ leader' = "none" /\ output' = NoOutput
           \/ /\ leader' = leader
              /\ output' = [output EXCEPT !.whole = @ + output.noted, !.noted = 0]
    BY <1>3 DEF CodexReturns
  <2>2. run'.pc = "returned" /\ run'.result = run.result
    BY <2>1 DEF NoRun
  <2>3. CASE leader' = "none" /\ output' = NoOutput
    BY <2>1, <2>2, <2>3, WorkConstants DEF NoOutput, Accounts
  <2>4. CASE /\ leader' = leader
             /\ output' = [output EXCEPT !.whole = @ + output.noted, !.noted = 0]
    <3>1. /\ output.made \in Nat /\ output.whole \in Nat /\ output.noted \in Nat
          /\ output.cut \in Nat
          /\ output'.made = output.made /\ output'.cut = output.cut
          /\ output'.whole = output.whole + output.noted /\ output'.noted = 0
      BY <2>4 DEF CodexInv, RunShape, RunType, Outputs
    <3> QED
      BY <2>1, <2>2, <2>4, <3>1 DEF Accounts
  <2> QED
    BY <2>1, <2>3, <2>4
<1>4. CASE /\ run' = [NoRun EXCEPT !.pc = "returned", !.result = "error"]
           /\ leader' = "none" /\ output' = NoOutput
  BY <1>4, WorkConstants DEF NoOutput, NoRun, Accounts
<1> QED
  BY <1>1, <1>2, <1>3, <1>4, RunMoves

-----------------------------------------------------------------------------
(* What is pushed. *)

LEMMA HelperPushes ==
  ASSUME PushInv, CallInv, UNCHANGED row,
         Import \/ Fetch \/ Merge \/ Clean \/ Unwind \/ Send \/ Answer
  PROVE  PushInv'
<1> USE DEF PushInv, At
<1>0. CallShape /\ ops.action \in {"push", "merge", "deploy"}
      /\ (landing => ops.pc \in {"wait", "log", "done"})
  BY DEF CallInv, CallShape
<1>1. CASE Import
  <2>1. /\ UNCHANGED <<remote, landing>> /\ ops.pc = "import"
        /\ ops'.pc \in {"fetch", "unwind"} /\ ops'.action = ops.action
        /\ ops'.commit = ops.commit
    BY <1>0, <1>1 DEF Import, helperFrame, CallShape
  <2> QED
    BY <1>0, <2>1
<1>2. CASE Fetch
  <2>1. /\ UNCHANGED <<remote, landing>> /\ ops.pc = "fetch"
        /\ ops'.pc \in {"merge", "clean", "unwind"} /\ ops'.action = ops.action
        /\ ops'.commit = ops.commit
        /\ ops'.pc = "merge" => ops.action = "merge"
        /\ ops'.pc = "clean" => ops'.target = ops.commit
    BY <1>0, <1>2 DEF Fetch, helperFrame, CallShape
  <2> QED
    BY <1>0, <2>1
<1>3. CASE Merge
  <2>1. /\ UNCHANGED <<remote, landing>> /\ ops.pc = "merge"
        /\ ops'.pc \in {"clean", "unwind"} /\ ops'.action = ops.action
        /\ ops'.commit = ops.commit
    BY <1>0, <1>3 DEF Merge, helperFrame, CallShape
  <2> QED
    BY <1>0, <2>1
<1>4. CASE Clean
  <2>1. /\ UNCHANGED <<remote, landing>> /\ ops.pc = "clean"
        /\ ops'.pc \in {"send", "answer"} /\ ops'.action = ops.action
        /\ ops'.commit = ops.commit /\ ops'.target = ops.target
    BY <1>0, <1>4 DEF Clean, helperFrame, CallShape
  <2> QED
    BY <1>0, <2>1
<1>5. CASE Unwind \/ Answer
  <2>1. /\ UNCHANGED <<remote, landing>> /\ ops.pc \in {"unwind", "answer"}
        /\ ops'.pc \in {"answer", "log"} /\ ops'.action = ops.action
        /\ ops'.commit = ops.commit
    BY <1>0, <1>5 DEF Unwind, Answer, helperFrame, CallShape
  <2> QED
    BY <1>0, <2>1
<1>6. CASE Send
  <2>1. /\ remote' = remote /\ ops.pc = "send" /\ ~landing
        /\ ops'.action = ops.action
        /\ ops'.commit = ops.commit /\ ops'.target = ops.target
        /\ \/ ops'.pc = "wait"
           \/ ops'.pc = "unwind" /\ landing' = landing
    BY <1>0, <1>6 DEF Send, To, Unwinds, CallShape
  <2> QED
    BY <1>0, <2>1
<1> QED
  BY <1>1, <1>2, <1>3, <1>4, <1>5, <1>6

LEMMA ClientPushes ==
  ASSUME PushInv, CallInv, UNCHANGED row,
         Bundle(work.head) \/ KillHelper \/ \E n \in EntryBytes : Respond(n)
  PROVE  PushInv'
<1>1. CallShape /\ (landing => ops.pc \in {"wait", "log", "done"})
  BY DEF CallInv, CallShape
<1>2. /\ UNCHANGED <<remote, landing>> /\ ops.pc # "idle"
      /\ ops'.pc \in {"import", "log", "done"} /\ ops'.action = ops.action
      /\ ops'.commit = ops.commit /\ ops'.target = ops.target
  BY <1>1 DEF Bundle, To, KillHelper, Helping, Respond, At, CallShape
<1> QED
  BY <1>1, <1>2 DEF PushInv

(* A push that lands puts the commit of the row on the branch of the task.   *)
LEMMA LandPushes ==
  ASSUME PushInv, CallInv, UNCHANGED row, NEW moved \in BOOLEAN, Land(moved)
  PROVE  PushInv'
<1>1. /\ CallShape /\ ops.action \in {"push", "merge", "deploy"}
      /\ remote = [b \in {"base", "task", "rc"} |-> remote[b]]
      /\ ops.pc \in {"wait", "log", "done"} /\ landing /\ landing' = FALSE
  BY DEF CallInv, CallShape, Land
<1>2. /\ ops'.action = ops.action /\ ops'.commit = ops.commit
      /\ ops'.pc \in {"wait", "answer", "log", "done"}
      /\ ops'.pc = "wait" => ops' = ops /\ ops.pc = "wait"
  BY <1>1 DEF Land, At, CallShape
<1>3. \/ remote' = remote
      \/ /\ ops.action # "deploy"
         /\ remote' = [remote EXCEPT ![Branch[ops.action]] = ops.target]
  BY DEF Land
<1>4. remote'.task = remote.task \/ remote'.task = row.commit
  <2>1. CASE ops.action = "push"
    BY <1>1, <1>3, <2>1 DEF Branch, PushInv
  <2>2. CASE ops.action = "merge"
    BY <1>1, <1>3, <2>2 DEF Branch
  <2>3. CASE ops.action = "deploy"
    BY <1>3, <2>3
  <2> QED
    BY <1>1, <2>1, <2>2, <2>3
<1> QED
  BY <1>1, <1>2, <1>4 DEF PushInv

LEMMA ForeignPushes ==
  ASSUME PushInv, CallInv, UNCHANGED row, NEW b \in {"base", "task", "rc"},
         ForeignPush(b)
  PROVE  PushInv'
<1>1. PICK c \in Upstream \cup Foreign :
        remote' = [remote EXCEPT ![b] = remote[b] \cup {c}]
  BY DEF ForeignPush
<1>2. c \notin Change /\ UNCHANGED <<ops, landing>>
  BY WorkConstants DEF ForeignPush
<1>3. remote.task \subseteq remote'.task /\ remote'.task \subseteq remote.task \cup {c}
  BY <1>1 DEF CallInv
<1> QED
  BY <1>2, <1>3 DEF PushInv

LEMMA PushKeeps ==
  ASSUME PushInv, CommitInv, CallInv, WorkTypes, [Next]_vars
  PROVE  PushInv'
<1>1. CASE UNCHANGED <<remote, ops, landing>> /\ row'.commit = row.commit
  BY <1>1 DEF PushInv
<1>2. CASE Validate
  <2>1. UNCHANGED <<remote, ops, landing>> /\ phase = "validate"
    BY <1>2 DEF Validate, opsVars
  <2>2. row.commit = {}
    BY <2>1 DEF CommitInv, Checking
  <2> QED
    BY <2>1, <2>2 DEF PushInv, CallInv
<1>3. CASE CallHelper
  <2>1. /\ Call(phase, IF phase = "deploy" THEN row.rc ELSE row.commit)
        /\ phase \in {"push", "merge", "deploy"} /\ UNCHANGED row
    BY <1>3 DEF CallHelper, Calling, callFrame
  <2>2. /\ ops'.pc \in {"bundle", "fetch"} /\ ops'.action = phase
        /\ ops'.commit = IF phase = "deploy" THEN row.rc ELSE row.commit
        /\ ops.pc = "idle" /\ UNCHANGED <<remote, landing>>
    BY <2>1 DEF Call, NoCall, At
  <2>3. ~landing /\ row.commit # {}
    BY <2>1, <2>2 DEF CallInv, CommitInv, Calling
  <2> QED
    BY <2>1, <2>2, <2>3 DEF PushInv
<1>4. CASE BundleCommit \/ CallEnds
  BY <1>4, ClientPushes DEF BundleCommit, CallEnds, callFrame
<1>5. CASE HelperActs
  BY <1>5, HelperPushes, LandPushes DEF HelperActs, Help, callFrame
<1>6. CASE Approve
  <2>1. ops'.pc = "idle" /\ ~landing /\ UNCHANGED <<remote, landing, row>>
    BY <1>6 DEF Approve, NoCall, callFrame
  <2> QED
    BY <2>1 DEF PushInv
<1>7. CASE OthersPush
  BY <1>7, ForeignPushes DEF OthersPush, callFrame
<1>8. \/ row'.commit = row.commit
      \/ Validate
  BY RowMoves DEF WorkTypes
<1> QED
  BY <1>1, <1>2, <1>3, <1>4, <1>5, <1>6, <1>7, <1>8, OpsMoves

(* The parts that the steps before a push and after it rest on.              *)
WorkInv ==
  /\ LogInv /\ CodexInv /\ TreeInv /\ CallInv
  /\ WorkTypes /\ OpsTypes /\ OutputInv /\ StepsInv /\ CommitInv /\ PushInv

LEMMA Numbers ==
  ASSUME WorkInv
  PROVE  /\ Cardinality(confirmed) \in Nat /\ Logged \in Nat
         /\ check.count \in Nat /\ check.logged \in Nat /\ Checks \in Nat
         /\ check = [count |-> check.count, passed |-> check.passed,
                     logged |-> check.logged]
         /\ check.passed \in BOOLEAN
BY ConfirmedCounted, WorkConstants
DEF WorkInv, CodexInv, RunShape, RunType, Outputs, Logged, WorkTypes

Unpushed == Preparing \cup {"codex"} \cup Checking

(* Before the validation there is no commit.                                 *)
LEMMA NoCommitYet ==
  ASSUME WorkInv, phase \in Unpushed, row'.commit = row.commit,
         phase' \notin Calling \cup {"pushed", "merged", "deployed", "clean_log", "cleaned"}
  PROVE  CommitInv'
BY DEF WorkInv, CommitInv, Unpushed

(* Behind it the steps have nothing more to account for.                     *)
LEMMA StepsOver ==
  ASSUME WorkInv, phase' \notin Unpushed
  PROVE  StepsInv'
BY DEF WorkInv, StepsInv, Unpushed, Preparing, Checking

(* A step that lets the work be and forgets no entry.                        *)
LEMMA QuietKeeps ==
  ASSUME WorkInv, UNCHANGED <<phase, row, check, run, output>>,
         Cardinality(confirmed') \in Nat,
         Cardinality(confirmed') >= Cardinality(confirmed),
         "path" \in tree' => "path" \in tree
  PROVE  StepsInv' /\ CommitInv'
<1>1. ASSUME NEW n \in Int, Entries(n)
      PROVE  Cardinality(confirmed') >= Logged' + n
  BY <1>1, Numbers DEF Entries, Logged
<1>2. /\ 2 * Checks \in Int /\ 2 * check.count \in Int /\ 2 * check.count - 1 \in Int
      /\ 0 \in Int
  BY Numbers
<1>3. /\ Entries(0) => Entries(0)'
      /\ Entries(2 * Checks) => Entries(2 * Checks)'
      /\ Entries(2 * check.count) => Entries(2 * check.count)'
      /\ Entries(2 * check.count - 1) => Entries(2 * check.count - 1)'
  BY <1>1, <1>2 DEF Entries
<1>4. (RunPassed => RunPassed') /\ (ChecksDone => ChecksDone')
  BY DEF RunPassed, ChecksDone
<1>5. StepsInv'
  BY <1>3, <1>4 DEF WorkInv, StepsInv
<1>6. CommitInv'
  BY <1>3, <1>4 DEF WorkInv, CommitInv, Evidence
<1> QED
  BY <1>5, <1>6

LEMMA EarlySteps ==
  ASSUME WorkInv, SyncProject \/ PrepareTree \/ Checkpoint
  PROVE  StepsInv' /\ CommitInv'
<1> USE DEF Unpushed, Preparing, Checking, Calling
<1>0. /\ Fallen \in {"failed", "stopped"} /\ phase \in Preparing
      /\ row'.commit = row.commit
  <2>1. UNCHANGED row \/ row' = [row EXCEPT !.recorded = live]
    BY DEF SyncProject, PrepareTree, Checkpoint
  <2> QED
    BY <2>1 DEF Fallen, SyncProject, PrepareTree, Checkpoint, WorkInv, WorkTypes
<1>1. run.pc = "start" /\ check = NoCheck /\ output = NoOutput
  BY <1>0 DEF WorkInv, StepsInv, CodexInv, Phases
<1>2. UNCHANGED <<check, run, output>> /\ confirmed' = confirmed
  BY DEF SyncProject, PrepareTree, Checkpoint, codexVars, logVars
<1>3. CASE SyncProject \/ PrepareTree
  <2>1. phase' \in {"prepare", "checkpoint", "failed", "stopped"}
    BY <1>0, <1>3 DEF SyncProject, PrepareTree, Go
  <2>2. CommitInv'
    BY <1>0, <2>1, NoCommitYet
  <2>3. StepsInv'
    BY <1>1, <1>2, <2>1 DEF StepsInv
  <2> QED
    BY <2>2, <2>3
<1>4. CASE Checkpoint
  <2>1. /\ phase' \in {"codex", "failed", "stopped"}
        /\ phase' = "codex" => live
        /\ row' = [row EXCEPT !.recorded = live]
    BY <1>0, <1>4 DEF Checkpoint, Go
  <2>2. CommitInv'
    BY <1>0, <2>1, NoCommitYet
  <2>3. phase' = "codex" => row'.recorded
    BY <2>1 DEF WorkInv, WorkTypes
  <2>4. Cardinality(confirmed') >= Logged' + 0
    BY <1>1, <1>2, Numbers DEF NoOutput, Logged
  <2>5. StepsInv'
    BY <1>1, <1>2, <2>1, <2>3, <2>4 DEF StepsInv, Entries
  <2> QED
    BY <2>2, <2>5
<1> QED
  BY <1>3, <1>4

LEMMA CodexSteps ==
  ASSUME WorkInv, CodexInv', RunProcesses \/ RunCodex \/ CodexReturns
  PROVE  StepsInv' /\ CommitInv'
<1> USE DEF Unpushed, Preparing, Checking, Calling
<1>0. /\ phase = "codex" /\ UNCHANGED <<row, check>>
      /\ Fallen \in {"failed", "stopped"}
  BY DEF RunProcesses, RunCodex, CodexReturns, Fallen
<1>1. row.recorded /\ Entries(0) /\ check = NoCheck
  BY <1>0 DEF WorkInv, StepsInv
<1>2. CASE RunProcesses
  <2>1. phase' = "codex" /\ confirmed' = confirmed /\ Logged' = Logged
    BY <1>0, <1>2 DEF RunProcesses, Processes, Emit, Spawn, LeaderExits, ChildExits,
                      processFrame, WorkInv, CodexInv, RunShape, RunType, Outputs, Logged
  <2>2. Entries(0)'
    BY <1>1, <2>1 DEF Entries
  <2>3. CommitInv'
    BY <1>0, <2>1, NoCommitYet
  <2> QED
    BY <1>0, <1>1, <2>1, <2>2, <2>3 DEF StepsInv
<1>3. CASE RunCodex
  <2>1. phase' = "codex" /\ Runner
    BY <1>0, <1>3 DEF RunCodex
  <2>2. Entries(0)'
    BY <1>1, <2>1, RunnerCounts DEF WorkInv, CodexInv
  <2>3. CommitInv'
    BY <1>0, <2>1, NoCommitYet
  <2> QED
    BY <1>0, <1>1, <2>1, <2>2, <2>3 DEF StepsInv
<1>4. CASE CodexReturns
  <2>1. /\ run.pc = "done" /\ confirmed' = confirmed
        /\ phase' \in {"failed", "stopped", "blocked", "checks"}
        /\ phase' = "checks" =>
             /\ run.result \notin {"error", "blocked"}
             /\ output' = [output EXCEPT !.whole = @ + output.noted, !.noted = 0]
        /\ run' = [NoRun EXCEPT !.pc = "returned", !.result = run.result,
                                !.session = run.session]
    BY <1>0, <1>4 DEF CodexReturns, logVars
  <2>2. CommitInv'
    BY <1>0, <2>1, NoCommitYet
  <2>3. CASE phase' # "checks"
    BY <2>1, <2>2, <2>3, StepsOver
  <2>4. CASE phase' = "checks"
    <3>1. run.result = "ok"
      BY <2>1, <2>4 DEF WorkInv, OutputInv, CodexInv, RunShape, RunType
    <3>2. /\ run.session /\ output.made = Logged + output.cut /\ output.cut <= 1
          /\ output.made \in Nat /\ output.whole \in Nat /\ output.noted \in Nat
          /\ output.cut \in Nat
      BY <2>1, <3>1 DEF WorkInv, CodexInv, RunShape, RunType, Outputs,
         SuccessIsComplete, Complete,
                        Logged, OutputInv
    <3>3. /\ output'.made = output.made /\ output'.whole = Logged
          /\ output'.noted = 0 /\ output'.cut = output.cut
      <4>1. output \in Outputs
        BY <2>1 DEF WorkInv, CodexInv, RunShape, RunType
      <4>2. output' = [output EXCEPT !.whole = @ + output.noted, !.noted = 0]
        BY <2>1, <2>4
      <4> QED
        BY <4>1, <4>2 DEF Outputs, Logged
    <3>4. RunPassed'
      BY <2>1, <3>1, <3>2, <3>3 DEF RunPassed, NoRun
    <3>5. check'.count = 0 /\ check'.logged = 0 /\ check'.passed
      BY <1>0, <1>1 DEF NoCheck
    <3>6. Cardinality(confirmed') >= Logged' + 2 * check'.count
      BY <1>1, <2>1, <3>3, <3>5, Numbers DEF Entries, Logged
    <3>7. StepsInv'
      BY <1>0, <1>1, <2>4, <3>4, <3>5, <3>6 DEF StepsInv, Entries
    <3> QED
      BY <2>2, <3>7
  <2> QED
    BY <2>3, <2>4
<1> QED
  BY <1>2, <1>3, <1>4

LEMMA CheckSteps ==
  ASSUME WorkInv,
         \/ \E n \in EntryBytes : StartCheck(n) \/ EndCheck(n)
         \/ RunCheck \/ ChecksPassed
  PROVE  StepsInv' /\ CommitInv'
<1> USE DEF Unpushed, Preparing, Checking, Calling
<1>0. /\ phase \in Checking /\ UNCHANGED <<row, run, output>>
      /\ Fallen \in {"failed", "stopped"}
      /\ phase' \in {"checks", "check", "check_output", "validate", "failed", "stopped"}
  BY DEF StartCheck, EndCheck, RunCheck, ChecksPassed, checkFrame, codexVars, Fallen, Go
<1>1. CommitInv'
  BY <1>0, NoCommitYet
<1>2. RunPassed' /\ row'.recorded /\ Logged' = Logged
  BY <1>0 DEF WorkInv, StepsInv, RunPassed, Logged
<1>3. CASE phase' \in {"failed", "stopped"}
  BY <1>1, <1>3, StepsOver
<1>4. ASSUME NEW n \in EntryBytes, StartCheck(n), phase' = "check"
      PROVE  StepsInv'
  <2>1. AppendRecord(n, TRUE) /\ phase = "checks"
    BY <1>0, <1>4 DEF StartCheck, Go
  <2>2. Cardinality(confirmed') = Cardinality(confirmed) + 1
    BY <2>1, AppendCounts DEF WorkInv
  <2>3. check'.count = check.count + 1 /\ check'.logged = check.logged
    BY <1>4, Numbers DEF StartCheck
  <2>4. Entries(2 * check.count) /\ check.logged = check.count
    BY <2>1 DEF WorkInv, StepsInv
  <2>5. Cardinality(confirmed') >= Logged' + (2 * check'.count - 1)
        /\ check'.logged = check'.count - 1
    BY <1>2, <2>2, <2>3, <2>4, Numbers DEF Entries
  <2> QED
    BY <1>2, <1>4, <2>5 DEF StepsInv, Entries
<1>5. CASE RunCheck
  <2>1. phase = "check" /\ phase' = "check_output" /\ confirmed' = confirmed
    BY <1>5 DEF RunCheck, logVars
  <2>2. check'.count = check.count /\ check'.logged = check.logged
    BY <1>5, Numbers DEF RunCheck
  <2>3. check.logged = check.count - 1 /\ Entries(2 * check.count - 1)
    BY <2>1 DEF WorkInv, StepsInv
  <2>4. Cardinality(confirmed') >= Logged' + (2 * check'.count - 1)
        /\ check'.logged = check'.count - 1
    BY <1>2, <2>1, <2>2, <2>3, Numbers DEF Entries
  <2> QED
    BY <1>1, <1>2, <2>1, <2>4 DEF StepsInv, Entries
<1>6. ASSUME NEW n \in EntryBytes, EndCheck(n), phase' = "checks"
      PROVE  StepsInv'
  <2>1. PICK ok \in BOOLEAN :
          /\ AppendRecord(n, ok) /\ Go(ok /\ check.passed, "checks")
          /\ check' = IF ok THEN CheckLogged ELSE check
    BY <1>6 DEF EndCheck
  <2>2. ok /\ check.passed /\ check' = CheckLogged /\ phase = "check_output"
    BY <1>0, <1>6, <2>1 DEF EndCheck, Go
  <2>3. Cardinality(confirmed') = Cardinality(confirmed) + 1
    BY <2>1, <2>2, AppendCounts DEF WorkInv
  <2>4. check.logged = check.count - 1 /\ Entries(2 * check.count - 1)
    BY <2>2 DEF WorkInv, StepsInv
  <2>5. /\ check'.count = check.count /\ check'.logged = check.logged + 1
        /\ check'.passed = check.passed
    BY <2>2, Numbers DEF CheckLogged
  <2>6. Cardinality(confirmed') >= Logged' + 2 * check'.count
        /\ check'.logged = check'.count
    BY <1>2, <2>3, <2>4, <2>5, Numbers DEF Entries
  <2> QED
    BY <1>2, <1>6, <2>2, <2>5, <2>6 DEF StepsInv, Entries
<1>7. CASE ChecksPassed /\ phase' = "validate"
  <2>1. /\ phase = "checks" /\ check.count = Checks /\ check' = check
        /\ confirmed' = confirmed
    BY <1>7 DEF ChecksPassed, logVars
  <2>2. check.passed /\ check.logged = check.count /\ Entries(2 * check.count)
    BY <2>1 DEF WorkInv, StepsInv
  <2>3. check' = [count |-> Checks, passed |-> TRUE, logged |-> Checks]
    BY <2>1, <2>2, Numbers
  <2>4. Cardinality(confirmed') >= Logged' + 2 * Checks
    BY <1>2, <2>1, <2>2, Numbers DEF Entries
  <2> QED
    BY <1>1, <1>2, <1>7, <2>3, <2>4 DEF StepsInv, Entries, ChecksDone
<1>8. \/ \E n \in EntryBytes : StartCheck(n) /\ phase' = "check"
      \/ RunCheck
      \/ \E n \in EntryBytes : EndCheck(n) /\ phase' = "checks"
      \/ ChecksPassed /\ phase' = "validate"
      \/ phase' \in {"failed", "stopped"}
  BY <1>0 DEF StartCheck, EndCheck, ChecksPassed, Go
<1> QED
  BY <1>1, <1>3, <1>4, <1>5, <1>6, <1>7, <1>8

(* The validation finds everything done that the commit is evidence for.     *)
LEMMA ValidateSteps ==
  ASSUME WorkInv, Validate
  PROVE  StepsInv' /\ CommitInv'
<1> USE DEF Unpushed, Preparing, Checking, Calling
<1>0. /\ phase = "validate" /\ UNCHANGED <<check, run, output, confirmed, tree>>
      /\ Fallen \in {"failed", "stopped"}
  BY DEF Validate, codexVars, logVars, treeVars, Fallen
<1>1. CASE /\ ValidCommit /\ row' = [row EXCEPT !.commit = work.head]
           /\ phase' = "push"
  <2>1. row'.commit = work.head /\ row'.recorded = row.recorded
    BY <1>1 DEF WorkInv, WorkTypes
  <2>2. work.head # {}
    <3>1. PICK c \in SUBSET Change : work.head = SourceBase \cup c
      BY DEF WorkInv, WorkTypes, TreeTypeOK
    <3> QED
      BY <1>1, <3>1 DEF ValidCommit
  <2>3. RunPassed /\ row.recorded /\ ChecksDone /\ Entries(2 * Checks)
    BY <1>0 DEF WorkInv, StepsInv
  <2>4. Evidence'
    BY <1>0, <2>1, <2>3 DEF Evidence, RunPassed, ChecksDone, Entries, Logged
  <2> QED
    BY <1>1, <2>1, <2>2, <2>4, StepsOver DEF CommitInv
<1>2. CASE phase' = Fallen /\ UNCHANGED row
  BY <1>0, <1>2, StepsOver, NoCommitYet
<1> QED
  BY <1>1, <1>2 DEF Validate

LEMMA LateSteps ==
  ASSUME WorkInv, CallReturns \/ Approve \/ Recover
  PROVE  StepsInv' /\ CommitInv'
<1> USE DEF Unpushed, Preparing, Checking, Calling
<1>0. /\ phase \notin Unpushed /\ UNCHANGED <<check, run, output, confirmed, tree>>
  BY DEF CallReturns, Approve, Recover, callFrame, codexVars, logVars, treeVars
<1>1. CASE Recover
  BY <1>1, StepsOver DEF Recover, CommitInv
<1>2. CASE CallReturns \/ Approve
  <2>1. /\ row.commit # {}
        /\ phase' \in {"merge", "deploy", "pushed", "merged", "deployed", "failed",
                       "stopped"}
    BY <1>2 DEF CallReturns, Approve, Go, After, Fallen, WorkInv, CommitInv
  <2>2. row'.commit = row.commit /\ row'.recorded = row.recorded
    <3>1. UNCHANGED row \/ row' = [row EXCEPT !.rc = ops.target]
      BY <1>2 DEF CallReturns, Approve, callFrame
    <3> QED
      BY <3>1 DEF WorkInv, WorkTypes
  <2>3. Evidence'
    BY <1>0, <2>1, <2>2
    DEF WorkInv, CommitInv, Evidence, RunPassed, ChecksDone, Entries, Logged
  <2> QED
    BY <2>1, <2>2, <2>3, StepsOver DEF CommitInv
<1> QED
  BY <1>1, <1>2

(* The application dies: what was confirmed stays in the log.                *)
LEMMA DieSteps ==
  ASSUME WorkInv, Die
  PROVE  StepsInv' /\ CommitInv'
<1> USE DEF Unpushed, Preparing, Checking, Calling
<1>0. /\ phase' = "down" /\ confirmed' = confirmed /\ UNCHANGED <<row, check>>
      /\ phase \in Working
  BY DEF Die, DieInAppend
<1>1. CASE phase \in Unpushed
  BY <1>0, <1>1, StepsOver, NoCommitYet
<1>2. CASE phase \notin Unpushed
  <2>1. UNCHANGED <<run, output, tree>>
    BY <1>2 DEF Die, codexVars, treeVars
  <2>2. row.commit # {} => Evidence'
    BY <1>0, <2>1
    DEF WorkInv, CommitInv, Evidence, RunPassed, ChecksDone, Entries, Logged
  <2> QED
    BY <1>0, <2>2, StepsOver DEF CommitInv
<1> QED
  BY <1>1, <1>2

(* The log goes only after the recorded worktree.                            *)
LEMMA CleanSteps ==
  ASSUME WorkInv, CleanTree \/ CleanLog
  PROVE  StepsInv' /\ CommitInv'
<1> USE DEF Unpushed, Preparing, Checking, Calling
<1>0. /\ phase' \in {"failed", "stopped", "clean_log", "cleaned"}
      /\ UNCHANGED <<row, check, run, output>>
  BY DEF CleanTree, CleanLog, codexVars
<1>1. CASE CleanTree
  <2>1. confirmed' = confirmed
    BY <1>1 DEF CleanTree, logVars
  <2>2. /\ "path" \in tree' => "path" \in tree
        /\ row.recorded /\ phase' = "clean_log" => "path" \notin tree'
        /\ phase' # "cleaned"
    <3>1. CASE ~row.recorded
      BY <1>1, <3>1 DEF CleanTree, treeVars
    <3>2. CASE row.recorded
      <4>1. PICK ok \in BOOLEAN :
              /\ RemoveTree(ok) /\ phase' = IF ok THEN "clean_log" ELSE phase
              /\ phase \in {"failed", "stopped"}
        BY <1>1, <3>2 DEF CleanTree
      <4>2. /\ tree' \subseteq tree
            /\ ok => "path" \notin tree'
        BY <4>1 DEF RemoveTree, Removals
      <4> QED
        BY <4>1, <4>2
    <3> QED
      BY <3>1, <3>2
  <2>3. row.commit # {} => Evidence'
    BY <1>0, <2>1, <2>2
    DEF WorkInv, CommitInv, Evidence, RunPassed, ChecksDone, Entries, Logged
  <2> QED
    BY <1>0, <2>2, <2>3, StepsOver DEF CommitInv
<1>2. CASE CleanLog
  <2>1. phase = "clean_log" /\ tree' = tree
    BY <1>2 DEF CleanLog, treeVars
  <2>2. row.recorded => "path" \notin tree'
    BY <2>1 DEF WorkInv, CommitInv
  <2>3. row.commit # {} => Evidence'
    BY <1>0, <2>2 DEF WorkInv, CommitInv, Evidence, RunPassed, ChecksDone
  <2> QED
    BY <1>0, <2>2, <2>3, StepsOver DEF CommitInv
<1> QED
  BY <1>1, <1>2

LEMMA QuietSteps ==
  ASSUME WorkInv,
         \/ Survivor \/ CallHelper \/ BundleCommit \/ HelperActs \/ CallEnds
         \/ OthersPush \/ Cancel \/ UNCHANGED vars
  PROVE  StepsInv' /\ CommitInv'
<1>1. /\ UNCHANGED <<phase, row, check, run, output>>
      /\ "path" \in tree' => "path" \in tree
  BY DEF Survivor, CallHelper, BundleCommit, HelperActs, CallEnds, OthersPush, Cancel,
         vars, checkFrame, callFrame, codexVars, treeVars, EditTree
<1>2. confirmed' = confirmed \/ \E n \in EntryBytes, ok \in BOOLEAN : AppendRecord(n, ok)
  BY DEF Survivor, CallHelper, BundleCommit, Bundle, HelperActs, Help, CallEnds,
         KillHelper, Respond, OthersPush, ForeignPush, Cancel, vars, logVars, logFrame
<1>3. /\ Cardinality(confirmed') \in Nat
      /\ Cardinality(confirmed') >= Cardinality(confirmed)
  <2>1. CASE confirmed' = confirmed
    BY <2>1, Numbers
  <2>2. CASE \E n \in EntryBytes, ok \in BOOLEAN : AppendRecord(n, ok)
    BY <2>2, AppendCounts DEF WorkInv
  <2> QED
    BY <1>2, <2>1, <2>2
<1> QED
  BY <1>1, <1>3, QuietKeeps

LEMMA WorkStep ==
  ASSUME WorkInv, [Next]_vars
  PROVE  WorkInv'
<1>1. LogInv'
  <2>1. UNCHANGED vars => LogMoves
    BY DEF vars, LogMoves
  <2> QED
    BY <2>1, StepMovesLog, LogMovesKeep DEF WorkInv
<1>2. CodexInv'
  <2>1. UNCHANGED vars => UNCHANGED codexVars
    BY DEF vars
  <2> QED
    BY <2>1, CodexStep, CodexUnchangedKeeps DEF WorkInv
<1>3. TreeInv' /\ CallInv'
  BY TreeStep, CallStep DEF WorkInv
<1>4. WorkTypes' /\ OpsTypes' /\ OutputInv' /\ PushInv'
  BY <1>3, WorkTypesKeep, OpsTypesKeep, OutputKeeps, PushKeeps DEF WorkInv
<1>5. StepsInv' /\ CommitInv'
  BY <1>2, EarlySteps, CodexSteps, CheckSteps, ValidateSteps, LateSteps, DieSteps,
     CleanSteps, QuietSteps DEF Next
<1> QED
  BY <1>1, <1>2, <1>3, <1>4, <1>5 DEF WorkInv

LEMMA WorkInit == Init => WorkInv
<1> SUFFICES ASSUME Init PROVE WorkInv
  OBVIOUS
<1>1. LogInv /\ CodexInv
  BY LogInitInv, CodexInitInv DEF Init
<1>2. tree = before /\ prepared = "none" /\ tree \subseteq Part /\ "registered" \notin tree
      /\ work = [head |-> SourceBase, fit |-> TRUE] /\ phase = "sync"
      /\ row = [recorded |-> FALSE, commit |-> {}, rc |-> {}]
      /\ check = [count |-> 0, passed |-> TRUE, logged |-> 0]
  BY DEF Init, NoCheck, TreeInit, Part
<1>3. TreeInv
  BY <1>2 DEF TreeInv, PreparedOrGone
<1>4. CallInv
  BY DEF Init, OperatorInit, NoCall, CallInv, Done
<1>5. OpsTypes /\ PushInv
  <2>1. /\ ops = [pc |-> "idle", action |-> "push", commit |-> {}, seen |-> {},
                  target |-> {}, temps |-> {}, sound |-> TRUE, answer |-> "none"]
        /\ remote = [base |-> Base, task |-> {}, rc |-> Base] /\ landing = FALSE
    BY DEF Init, OperatorInit, NoCall
  <2>2. Base \in Commit /\ {} \in Commit
    BY DEF Commit
  <2>3. OpsTypes
    <3>1. \A b \in {"base", "task", "rc"} : remote[b] \in Commit
      BY <2>1, <2>2
    <3> QED
      BY <2>1, <2>2, <3>1 DEF OpsTypes
  <2>4. PushInv
    BY <2>1 DEF PushInv
  <2> QED
    BY <2>3, <2>4
<1>6. OutputInv
  BY WorkConstants DEF Init, CodexInit, NoRun, NoOutput, OutputInv, Accounts,
                            Pending, One
<1>7. WorkTypes
  <2>1. SourceBase \in {SourceBase \cup c : c \in SUBSET Change}
    <3>1. SourceBase = SourceBase \cup {} /\ {} \in SUBSET Change
      OBVIOUS
    <3> QED
      BY <3>1
  <2>2. row \in [recorded : BOOLEAN, commit : SUBSET (SourceBase \cup Change), rc : Commit]
    BY <1>2 DEF Commit
  <2> QED
    BY <1>2, <2>1, <2>2, WorkConstants, FaultBound
       DEF Init, WorkTypes, TreeTypeOK, Working
<1>8. StepsInv /\ CommitInv
  BY <1>2 DEF Init, CodexInit, NoRun, NoCheck, StepsInv, CommitInv, Preparing, Checking,
              Calling
<1> QED
  BY <1>1, <1>3, <1>4, <1>5, <1>6, <1>7, <1>8 DEF WorkInv

(* The phases of the work, the run, the log, the worktree and the calls agree *)
(* at every step, whatever fails, is killed or dies.                          *)
THEOREM WorkInvariant == Spec => []WorkInv
BY WorkInit, WorkStep, PTL DEF Spec

(* All parts of the work keep their types.                                   *)
THEOREM TypeCorrect == Spec => []TypeOK
<1>1. WorkInv => TypeOK
  <2> SUFFICES ASSUME WorkInv PROVE TypeOK
    OBVIOUS
  <2>1. LogTypeOK /\ TreeTypeOK
    BY DEF WorkInv, LogInv, WorkTypes
  <2>2. CodexTypeOK
    <3>1. /\ output \in Outputs /\ MaxEvents \in Nat
          /\ output.made <= MaxEvents + 2 /\ Accounts <= output.made
          /\ output.noted <= 2 /\ output.cut <= 1
      BY WorkConstants DEF WorkInv, CodexInv, RunShape, RunType, OutputInv
    <3>2. output \in [made : 0 .. MaxEvents + 2, whole : 0 .. MaxEvents + 2,
                      noted : 0 .. 2, cut : 0 .. 1]
      BY <3>1 DEF Outputs, Accounts
    <3> QED
      BY <3>2 DEF CodexTypeOK, WorkInv, CodexInv, RunShape, RunType
  <2>3. OperatorTypeOK
    BY DEF OperatorTypeOK, WorkInv, CallInv, OpsTypes, Branch
  <2> QED
    BY <2>1, <2>2, <2>3 DEF TypeOK, WorkInv, WorkTypes
<1> QED
  BY <1>1, WorkInvariant, PTL

(* Whatever Codex, its processes, the checks, the helper, other pushers and    *)
(* the clean-up do, a change of the task is on its branch only after a run     *)
(* that ended well, whose outputs are in the log (as far as SuccessIsComplete  *)
(* says: stderr up to its limit, a final message unless its drain was cut      *)
(* off), and after all checks, the argv and the output of each of them in the  *)
(* log, up to the limit of the capture; and the log has all these entries as   *)
(* long as the worktree is there.                                              *)
THEOREM PushesAreEvidenced == Spec => []PushIsEvidenced
<1>1. WorkInv => PushIsEvidenced
  <2> SUFFICES ASSUME WorkInv PROVE PushIsEvidenced
    OBVIOUS
  <2>1. output.whole \in Nat
    BY DEF WorkInv, CodexInv, RunShape, RunType, Outputs
  <2>2. RunPassed /\ Entries(2 * Checks) =>
          Cardinality(confirmed) >= output.whole + 2 * Checks
    BY <2>1 DEF RunPassed, Entries, Logged
  <2> QED
    BY <2>2 DEF WorkInv, PushInv, CommitInv, Evidence, RunPassed, ChecksDone,
                PushIsEvidenced
<1> QED
  BY <1>1, WorkInvariant, PTL

=============================================================================
