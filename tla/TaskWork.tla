------------------------------ MODULE TaskWork ------------------------------
(***************************************************************************)
(* The work on one task, from the synchronisation of the project to the    *)
(* deployment, as the sequence of external commands that TaskExecution and *)
(* TaskRelease take for single steps: the worktree, the Codex run, the     *)
(* checks, the helper and the log they all write to, with the failure of   *)
(* any command, a cancellation and the death of the application at any     *)
(* point, and the clean-up of what a failed or cancelled task has left.    *)
(***************************************************************************)
EXTENDS Worktree, CodexRun, Operator, FiniteSets

CONSTANT Checks   \* number of configured checks

(* The commits of the task are new: nobody else has them. *)
ASSUME WorkConstants ==
  /\ Checks \in Nat /\ MaxEvents \in Nat
  /\ Change \cap (SourceBase \cup Base \cup Upstream \cup Foreign) = {}

VARIABLES
  phase,
  row,     \* what the row of the task records of the work
  check    \* the checks that were started, whether the last one passed, and
           \* how many outputs of them are in the log

vars == <<phase, row, check, live, faults, logVars, treeVars, codexVars, opsVars>>

Working == {"sync", "prepare", "checkpoint", "codex", "checks", "check",
            "check_output", "validate", "push", "merge", "deploy"}
Ends == {"failed", "stopped", "blocked", "pushed", "merged", "deployed", "down"}

Commit == SUBSET (SourceBase \cup Base \cup Change \cup Upstream \cup Foreign)

NoCheck == [count |-> 0, passed |-> TRUE, logged |-> 0]

TypeOK ==
  /\ phase \in Working \cup Ends \cup {"clean_log", "cleaned"}
  /\ row \in [recorded : BOOLEAN, commit : SUBSET (SourceBase \cup Change),
              rc : Commit]
  /\ check \in [count : 0 .. Checks, passed : BOOLEAN, logged : 0 .. Checks]
  /\ live \in BOOLEAN /\ faults \in 0 .. MaxFaults
  /\ LogTypeOK /\ TreeTypeOK /\ CodexTypeOK /\ OperatorTypeOK

Init ==
  /\ phase = "sync" /\ live = TRUE /\ faults = 0
  /\ row = [recorded |-> FALSE, commit |-> {}, rc |-> {}]
  /\ check = NoCheck
  /\ LogInit /\ TreeInit /\ CodexInit /\ OperatorInit

(* A worker whose context is cancelled leaves the row alone. *)
Fallen == IF live THEN "failed" ELSE "stopped"
Go(ok, next) == phase' = IF ok THEN next ELSE Fallen

-----------------------------------------------------------------------------
(* Preparing. *)
SyncProject ==
  /\ phase = "sync"
  /\ \E ok \in BOOLEAN : Sync(ok) /\ Go(ok, "prepare")
  /\ UNCHANGED <<row, check, live, logVars, treeVars, codexVars>>

PrepareTree ==
  /\ phase = "prepare" /\ Prepare /\ Go(prepared' = "ok", "checkpoint")
  /\ UNCHANGED <<row, check, live, logVars, codexVars, opsVars>>

(* The worktree is recorded only if the task has not been cancelled.        *)
Checkpoint ==
  /\ phase = "checkpoint" /\ Go(live, "codex")
  /\ row' = [row EXCEPT !.recorded = live]
  /\ UNCHANGED <<check, live, faults, logVars, treeVars, codexVars, opsVars>>

-----------------------------------------------------------------------------
(* The Codex run and the checks. *)
Processes ==
  \/ \E e \in Event : Emit(e)
  \/ \E d \in Descriptor \cup {"none"}, kind \in {"member", "daemon"} :
       Spawn(kind, d)
  \/ \E stderr \in {"none", "some", "over"} :
       \/ LeaderExits("error", "none", stderr)
       \/ \E final \in {"none", "text", "blocked", "large"} :
            LeaderExits("ok", final, stderr)
  \/ ChildExits

Runner ==
  \/ StartCodex \/ ScanEnds \/ CancelRun \/ ScanClosed \/ WaitReturns \/ Judge
  \/ \E n \in EntryBytes : Scan(n) \/ LogStderr(n) \/ LogFinal(n)

RunProcesses ==
  phase = "codex" /\ Processes /\ UNCHANGED <<phase, row, check, treeVars, opsVars>>

RunCodex ==
  phase = "codex" /\ Runner /\ UNCHANGED <<phase, row, check, treeVars, opsVars>>

(* Nobody looks at the worktree during the run, so what Codex has made of   *)
(* it is chosen at the end; of the run only the verdict, what its outputs   *)
(* have come to and a process that lives on remain.                         *)
CodexReturns ==
  /\ phase = "codex" /\ run.pc = "done"
  /\ phase' = CASE run.result = "error" \/ ~live -> Fallen
                [] run.result = "blocked"        -> "blocked"
                [] OTHER                         -> "checks"
  /\ IF phase' = "checks" THEN EditTree \/ UNCHANGED treeVars
                          ELSE UNCHANGED treeVars
  /\ run' = [NoRun EXCEPT !.pc = "returned", !.result = run.result,
                          !.session = run.session]
  /\ child' = IF Lives(child) THEN [child EXCEPT !.holds = "none"]
                              ELSE Gone(child)
  /\ IF run.result = "error"
       THEN leader' = "none" /\ output' = NoOutput
       ELSE /\ UNCHANGED leader
            /\ output' = [output EXCEPT !.whole = @ + output.noted, !.noted = 0]
  /\ UNCHANGED <<pipe, row, check, live, faults, logVars, opsVars>>

checkFrame == <<row, live, codexVars, opsVars>>

(* The argv of a check is logged before it runs, its output after it, also  *)
(* when it has failed.  Of a check that writes more than runSubprocess      *)
(* captures the log gets what was captured, with a note that it was cut;    *)
(* the check is none the worse for it.                                      *)
StartCheck(n) ==
  /\ phase = "checks" /\ check.count < Checks
  /\ \E ok \in BOOLEAN :
       /\ AppendRecord(n, ok) /\ Go(ok, "check")
       /\ check' = [check EXCEPT !.count = @ + 1]
  /\ UNCHANGED checkFrame /\ UNCHANGED treeVars

RunCheck ==
  /\ phase = "check" /\ phase' = "check_output"
  /\ \E passed \in {FALSE, live} : check' = [check EXCEPT !.passed = passed]
  /\ EditTree \/ UNCHANGED treeVars
  /\ UNCHANGED checkFrame /\ UNCHANGED <<faults, logVars>>

CheckLogged == [check EXCEPT !.logged = @ + 1]

BugCheckOutputOptional(n) ==
  /\ phase = "check_output"
  /\ \E ok \in BOOLEAN :
       AppendRecord(n, ok) /\ check' = IF ok THEN CheckLogged ELSE check
  /\ Go(check.passed, "checks")
  /\ UNCHANGED checkFrame /\ UNCHANGED treeVars

EndCheck(n) ==
  /\ phase = "check_output"
  /\ \E ok \in BOOLEAN :
       /\ AppendRecord(n, ok) /\ Go(ok /\ check.passed, "checks")
       /\ check' = IF ok THEN CheckLogged ELSE check
  /\ UNCHANGED checkFrame /\ UNCHANGED treeVars

ChecksPassed ==
  /\ phase = "checks" /\ check.count = Checks /\ Go(live, "validate")
  /\ UNCHANGED checkFrame /\ UNCHANGED <<check, treeVars, faults, logVars>>

(* A process that has survived the run still writes to the worktree. *)
Survivor ==
  /\ Lives(child)
  /\ phase \in {"checks", "check", "check_output", "validate", "push"}
  /\ phase = "push" => ops.pc = "bundle"
  /\ EditTree
  /\ UNCHANGED <<phase, check, faults, logVars>> /\ UNCHANGED checkFrame

(* ValidateCommit, and the checkpoint of the commit under the push lease.   *)
Validate ==
  /\ phase = "validate"
  /\ \/ /\ live /\ ValidCommit /\ row' = [row EXCEPT !.commit = work.head]
        /\ phase' = "push" /\ UNCHANGED faults
     \/ /\ phase' = Fallen /\ UNCHANGED row
        /\ Fails(IF live /\ ValidCommit THEN 1 ELSE 0)
  /\ UNCHANGED <<check, live, logVars, treeVars, codexVars, opsVars>>

-----------------------------------------------------------------------------
(* The calls of the helper. *)
Calling == {"push", "merge", "deploy"}
callFrame == <<row, check, treeVars, codexVars>>

CallHelper ==
  /\ phase \in Calling
  /\ Call(phase, IF phase = "deploy" THEN row.rc ELSE row.commit)
  /\ UNCHANGED <<phase, live, faults, logVars>> /\ UNCHANGED callFrame

BundleCommit ==
  Bundle(work.head) /\ UNCHANGED phase /\ UNCHANGED callFrame

(* A helper goes on when the application has died. *)
HelperActs == Help /\ UNCHANGED phase /\ UNCHANGED callFrame

CallEnds ==
  /\ phase # "down" /\ UNCHANGED phase /\ UNCHANGED callFrame
  /\ KillHelper \/ \E n \in EntryBytes : Respond(n)

After == [push |-> "pushed", merge |-> "merged", deploy |-> "deployed"]

CallReturns ==
  /\ phase \in Calling /\ ops.pc = "done"
  /\ Go(ops.answer = "ok" /\ live, After[phase])
  /\ row' = IF phase = "merge" /\ phase' = "merged"
              THEN [row EXCEPT !.rc = ops.target] ELSE row
  /\ UNCHANGED <<check, live, faults, logVars, treeVars, codexVars, opsVars>>

(* An administrator approves the merge, then the deployment. *)
Approve ==
  /\ live /\ ~landing
  /\ \/ phase = "pushed" /\ phase' = "merge"
     \/ phase = "merged" /\ phase' = "deploy"
  /\ ops' = NoCall
  /\ UNCHANGED <<remote, tracked, landing, live, faults, logVars>>
  /\ UNCHANGED callFrame

(* Pushes of others matter between what the helper reads and what it does.  *)
OthersPush ==
  /\ \/ phase = "sync" /\ ForeignPush("base")
     \/ phase = "push" /\ ops.pc \in {"import", "clean", "send"} /\ ForeignPush("task")
     \/ phase = "merge" /\ ops.pc \in {"fetch", "clean", "send"}
          /\ ForeignPush("rc")
     \/ phase = "deploy" /\ ops.pc = "fetch" /\ ForeignPush("rc")
  /\ UNCHANGED phase /\ UNCHANGED callFrame

-----------------------------------------------------------------------------
(* The context ends, the application dies, expired tasks are cleaned up.    *)
Cancel ==
  /\ live /\ phase \in Working /\ live' = FALSE
  /\ UNCHANGED <<phase, row, check, faults, logVars, treeVars, codexVars, opsVars>>

Appending ==
  \/ phase \in {"checks", "check_output"}
  \/ phase = "codex" /\ (run.pc \in {"log_stderr", "log_final"} \/ pipe # "none")
  \/ ops.pc = "log"

(* What a Codex process that outlives the application still does is nobody's *)
(* concern any more: its run has no result.                                  *)
Die ==
  /\ phase \in Working /\ Fails(1) /\ phase' = "down" /\ limited' = FALSE
  /\ \/ UNCHANGED <<file, confirmed>>
     \/ Appending /\ \E n \in EntryBytes : DieInAppend(n)
  /\ IF phase = "prepare" THEN DieInPrepare \/ UNCHANGED treeVars
                          ELSE UNCHANGED treeVars
  /\ IF phase = "codex"
       THEN /\ run' = [NoRun EXCEPT !.pc = "returned", !.result = "error"]
            /\ leader' = "none" /\ child' = NoChild /\ pipe' = "none"
            /\ output' = NoOutput
       ELSE UNCHANGED codexVars
  /\ UNCHANGED <<row, check, live, opsVars>>

(* The recovery fails a task that has no validated commit; one that has is  *)
(* pushed again (TaskExecution).                                            *)
Recover ==
  /\ phase = "down" /\ row.commit = {} /\ phase' = "failed"
  /\ UNCHANGED <<row, check, live, faults, logVars, treeVars, codexVars, opsVars>>

(* CleanupExpired: a worktree that cannot be removed keeps its log, and the *)
(* next clean-up tries again.                                               *)
CleanTree ==
  /\ phase \in {"failed", "stopped"}
  /\ IF row.recorded
       THEN \E ok \in BOOLEAN :
              RemoveTree(ok) /\ phase' = IF ok THEN "clean_log" ELSE phase
       ELSE phase' = "clean_log" /\ UNCHANGED <<faults, treeVars>>
  /\ UNCHANGED <<row, check, live, logVars, codexVars, opsVars>>

CleanLog ==
  /\ phase = "clean_log"
  /\ \E ok \in BOOLEAN :
       RemoveLog(ok) /\ phase' = IF ok THEN "cleaned" ELSE "failed"
  /\ UNCHANGED <<row, check, live, treeVars, codexVars, opsVars>>

-----------------------------------------------------------------------------
Next ==
  \/ SyncProject \/ PrepareTree \/ Checkpoint
  \/ RunProcesses \/ RunCodex \/ CodexReturns
  \/ \E n \in EntryBytes : StartCheck(n) \/ EndCheck(n)
  \/ RunCheck \/ ChecksPassed \/ Survivor \/ Validate
  \/ CallHelper \/ BundleCommit \/ HelperActs \/ CallEnds \/ CallReturns
  \/ Approve \/ OthersPush
  \/ Cancel \/ Die \/ Recover \/ CleanTree \/ CleanLog

Spec == Init /\ [][Next]_vars

(* The program goes on, the timer of a run expires, and a cancelled context *)
(* kills the command that is waited for.  No command or process need ever   *)
(* end by itself; only Codex has a time limit.                              *)
Killed == ~live /\ (SyncProject \/ PrepareTree \/ RunCheck \/ Validate \/ BundleCommit)

Fairness ==
  /\ WF_vars(Killed) /\ WF_vars(Checkpoint) /\ WF_vars(CodexReturns)
  /\ WF_vars(RunCodex)
  /\ WF_vars(\E n \in EntryBytes : StartCheck(n) \/ EndCheck(n))
  /\ WF_vars(ChecksPassed) /\ WF_vars(CallHelper) /\ WF_vars(CallEnds)
  /\ WF_vars(CallReturns)

FairSpec == Spec /\ Fairness

-----------------------------------------------------------------------------
(* Correctness, besides what the parts promise. *)

(* A commit is pushed for the task only after a run that ended well, whose   *)
(* outputs are in the log (SuccessIsComplete says how far), and after all    *)
(* the checks, each with its argv and its output in the log, up to the limit *)
(* of the capture and then with a note.  The log outlives the recorded       *)
(* worktree.                                                                 *)
PushIsEvidenced ==
  /\ remote.task \cap Change # {} =>
       /\ run.result = "ok" /\ run.session
       /\ output.made = output.whole + output.cut /\ output.cut <= 1
       /\ check = [count |-> Checks, passed |-> TRUE, logged |-> Checks]
       /\ row.commit \subseteq remote.task
       /\ "path" \in tree => Cardinality(confirmed) >= output.whole + 2 * Checks
  /\ phase = "cleaned" /\ row.recorded => "path" \notin tree

(* A Codex run ends whatever its processes do, and when its context is       *)
(* cancelled the work ends, whatever the commands do.                        *)
WorkEnds ==
  /\ phase = "codex" ~> phase # "codex"
  /\ ~live ~> phase \notin Working

=============================================================================
