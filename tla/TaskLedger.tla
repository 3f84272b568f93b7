----------------------------- MODULE TaskLedger -----------------------------
(***************************************************************************)
(* The durable life of the tasks: what the SQLite database holds about     *)
(* tasks, approvals, processed messages and execution locks, and how each  *)
(* committed transaction changes it.                                       *)
(*                                                                         *)
(* A command handler or a worker reads a task, computes the new row and    *)
(* saves it under the version it read, so a transaction that commits is an *)
(* atomic read-modify-write of the row.  This module has one action per    *)
(* committed transaction and takes that atomicity as given; TaskExecution  *)
(* and TaskRelease model the separate reads and versioned writes and are   *)
(* checked and proved to implement this module.                            *)
(*                                                                         *)
(* Besides the tables the state has the approvals that workers of the live *)
(* process hold (claims, lost in a crash), whether the process is up, and  *)
(* the number of operator calls made for each approval (a history).        *)
(***************************************************************************)
EXTENDS Naturals, TaskStatus

CONSTANTS
  Task, NoTask,
  Message, NoMessage,   \* keys of the command messages: group and message ID
  Commit, NoCommit,
  Project, ProjectOf,   \* project of each task
  User, Admin,          \* allowed users, and the administrators among them
  Creator, Sender       \* creator of each task, sender of each message

ASSUME LedgerConstants ==
  /\ NoTask \notin Task /\ NoMessage \notin Message /\ NoCommit \notin Commit
  /\ Task \cap Message = {}
  /\ ProjectOf \in [Task -> Project]
  /\ Admin \subseteq User
  /\ Creator \in [Task -> User] /\ Sender \in [Message -> User]

VARIABLES
  tasks,         \* rows of table tasks
  approvals,     \* rows of table approvals, by the message that created them
  lastApproval,  \* the largest approval row ID
  locks,         \* approval_execution_locks: the approval holding a project
  processed,     \* processed_messages; a task stands for its create message
  claims,        \* progress of the worker of a claimed approval (in memory)
  up,            \* a process holds the runtime lock and has recovered
  calls          \* history: operator calls made for each approval

vars == <<tasks, approvals, lastApproval, locks, processed, claims, up, calls>>

(***************************************************************************)
(* Rows.  exec abstracts the columns that persistedPrepared reads: no      *)
(* worktree, a prepared worktree without a session, or both.  key is the   *)
(* RC commit that the deploy key was derived from.                         *)
(***************************************************************************)
Row == [status : Status \cup {"absent"},
        exec   : {"none", "prepared", "session"},
        commit : Commit \cup {NoCommit},
        rc     : Commit \cup {NoCommit},
        key    : Commit \cup {NoCommit}]

NoRow == [status |-> "absent", exec |-> "none",
          commit |-> NoCommit, rc |-> NoCommit, key |-> NoCommit]

Result == {"none", "approved", "executing", "completed", "failed",
           "commit_changed", "merge_conflict", "superseded",
           "superseded_by_new_commit"}

Approval == [task   : Task \cup {NoTask},
             kind   : {"merge", "deploy"},
             commit : Commit \cup {NoCommit},
             result : Result,
             id     : Nat]

NoApproval == [task |-> NoTask, kind |-> "merge", commit |-> NoCommit,
               result |-> "none", id |-> 0]

TypeOK ==
  /\ tasks \in [Task -> Row]
  /\ approvals \in [Message -> Approval]
  /\ lastApproval \in Nat
  /\ locks \in [Project -> Message \cup {NoMessage}]
  /\ processed \in SUBSET (Message \cup Task)
  /\ claims \in [Message -> {"none", "claimed", "called"}]
  /\ up \in BOOLEAN
  /\ calls \in [Message -> Nat]

Init ==
  /\ tasks = [t \in Task |-> NoRow]
  /\ approvals = [m \in Message |-> NoApproval]
  /\ lastApproval = 0
  /\ locks = [p \in Project |-> NoMessage]
  /\ processed = {}
  /\ claims = [m \in Message |-> "none"]
  /\ up = TRUE
  /\ calls = [m \in Message |-> 0]

-----------------------------------------------------------------------------
(* Definitions named Bug... are mistakes to test the properties with (see   *)
(* TaskStatus); they are not part of the specification.                     *)

(* Authorisation. *)
CanApprove(u) == u \in Admin
CanOperate(u, t) == u \in Admin \/ u = Creator[t]

(* The status in which an approval of a kind is executed, and the commit of *)
(* a row that it is bound to.                                               *)
ExecutingStatus(kind) == IF kind = "merge" THEN "merging" ELSE "deploying"
BoundCommit(kind, row) == IF kind = "merge" THEN row.commit ELSE row.rc

IsApproved(m, t, kind) ==
  /\ approvals[m].task = t
  /\ approvals[m].kind = kind
  /\ approvals[m].result = "approved"

(* UPDATE approvals SET result = r WHERE task, kind and result = 'approved' *)
Invalidated(t, kind, r) ==
  [m \in Message |-> IF IsApproved(m, t, kind)
                       THEN [approvals[m] EXCEPT !.result = r]
                       ELSE approvals[m]]

SetRow(t, row) == tasks' = [tasks EXCEPT ![t] = row]

SetStatus(t, next) ==
  /\ CanTransition(tasks[t].status, next)
  /\ SetRow(t, [tasks[t] EXCEPT !.status = next])

ProcessMessage(k) ==
  /\ k \notin processed
  /\ processed' = processed \cup {k}

-----------------------------------------------------------------------------
(* Commands. *)
CreateDraft(t) ==
  /\ up /\ tasks[t].status = "absent"
  /\ SetRow(t, [tasks[t] EXCEPT !.status = "draft"])
  /\ UNCHANGED <<approvals, lastApproval, locks, processed, claims, up, calls>>

(* Planning ends: the plan awaits its confirmation, or the task fails.  The *)
(* message that is marked processed is the one that created the task.       *)
FinishPlanning(t, next) ==
  /\ up /\ tasks[t].status = "draft"
  /\ SetStatus(t, next)
  /\ ProcessMessage(t)
  /\ UNCHANGED <<approvals, lastApproval, locks, claims, up, calls>>

(* Status and log queries change no task but consume their message; so does *)
(* the create message of a task that was cancelled while it was a draft.    *)
RecordCommand(k, t) ==
  /\ up /\ tasks[t].status # "absent"
  /\ \/ k = t /\ tasks[t].status # "draft"
     \/ k \in Message /\ CanOperate(Sender[k], t)
  /\ ProcessMessage(k)
  /\ UNCHANGED <<tasks, approvals, lastApproval, locks, claims, up, calls>>

Confirm(t, m) ==
  /\ up /\ tasks[t].status = "awaiting_confirmation"
  /\ Sender[m] = Creator[t]
  /\ SetStatus(t, "queued")
  /\ ProcessMessage(m)
  /\ UNCHANGED <<approvals, lastApproval, locks, claims, up, calls>>

Supplement(t, m) ==
  /\ up /\ tasks[t].status \in {"blocked", "awaiting_merge_approval"}
  /\ CanOperate(Sender[m], t)
  /\ ProcessMessage(m)
  /\ SetRow(t, [tasks[t] EXCEPT !.status = "queued",
                                 !.commit = NoCommit, !.rc = NoCommit])
  /\ approvals' = Invalidated(t, "merge", "superseded_by_new_commit")
  /\ UNCHANGED <<lastApproval, locks, claims, up, calls>>

Cancel(t, m) ==
  /\ up
  /\ CanOperate(Sender[m], t)
  /\ SetStatus(t, "cancelled")
  /\ ProcessMessage(m)
  /\ UNCHANGED <<approvals, lastApproval, locks, claims, up, calls>>

(* An approval is bound to the commit of the row at that moment; an earlier *)
(* approval of the same kind that is still 'approved' is superseded.        *)
RecordApproval(t, kind, m) ==
  /\ approvals' = [Invalidated(t, kind, "superseded") EXCEPT ![m] =
                     [task |-> t, kind |-> kind, result |-> "approved",
                      commit |-> BoundCommit(kind, tasks[t]),
                      id |-> lastApproval + 1]]
  /\ lastApproval' = lastApproval + 1

ApproveMerge(t, m) ==
  /\ up /\ CanApprove(Sender[m])
  /\ tasks[t].status = "awaiting_merge_approval"
  /\ tasks[t].commit # NoCommit
  /\ SetStatus(t, "merging")
  /\ ProcessMessage(m)
  /\ RecordApproval(t, "merge", m)
  /\ UNCHANGED <<locks, claims, up, calls>>

ApproveDeploy(t, m) ==
  /\ up /\ CanApprove(Sender[m])
  /\ tasks[t].status \in {"awaiting_deploy_approval", "deploy_failed"}
  /\ tasks[t].rc # NoCommit
  /\ SetRow(t, [tasks[t] EXCEPT !.status = "deploying", !.key = tasks[t].rc])
  /\ ProcessMessage(m)
  /\ RecordApproval(t, "deploy", m)
  /\ UNCHANGED <<locks, claims, up, calls>>

-----------------------------------------------------------------------------
(* The scheduler executes a task and pushes its commit. *)
Internal == UNCHANGED <<lastApproval, locks, processed, claims, up, calls>>

ClaimTask(t) ==
  /\ up /\ tasks[t].status = "queued"
  /\ SetStatus(t, "running")
  /\ UNCHANGED approvals /\ Internal

(* Checkpoints: the prepared worktree, then the Codex session. *)
CheckpointPrepared(t) ==
  /\ up /\ tasks[t].status = "running" /\ tasks[t].exec = "none"
  /\ SetRow(t, [tasks[t] EXCEPT !.exec = "prepared"])
  /\ UNCHANGED approvals /\ Internal

CheckpointSession(t) ==
  /\ up /\ tasks[t].status = "running" /\ tasks[t].exec # "none"
  /\ SetRow(t, [tasks[t] EXCEPT !.exec = "session"])
  /\ UNCHANGED approvals /\ Internal

Block(t) ==
  /\ up /\ tasks[t].status = "running" /\ tasks[t].exec # "none"
  /\ SetRow(t, [tasks[t] EXCEPT !.status = "blocked", !.exec = "session"])
  /\ UNCHANGED approvals /\ Internal

StartChecks(t) ==
  /\ up /\ tasks[t].status = "running" /\ tasks[t].exec = "session"
  /\ SetStatus(t, "checking")
  /\ UNCHANGED approvals /\ Internal

CheckpointCommit(t, c) ==
  /\ up /\ tasks[t].status = "checking"
  /\ SetRow(t, [tasks[t] EXCEPT !.commit = c])
  /\ UNCHANGED approvals /\ Internal

RecordPush(t) ==
  /\ up /\ tasks[t].status = "checking" /\ tasks[t].commit # NoCommit
  /\ SetStatus(t, "pushed")
  /\ approvals' = Invalidated(t, "merge", "superseded_by_new_commit")
  /\ Internal

AwaitMergeApproval(t) ==
  /\ up /\ tasks[t].status = "pushed"
  /\ SetStatus(t, "awaiting_merge_approval")
  /\ UNCHANGED approvals /\ Internal

FailTask(t) ==
  /\ up /\ tasks[t].status \in {"queued", "running", "blocked", "checking", "pushed"}
  /\ SetStatus(t, "failed")
  /\ UNCHANGED approvals /\ Internal

-----------------------------------------------------------------------------
(* Approvals are executed: claimed with the lock of the project, handed to  *)
(* the privileged operator, completed together with the task's new status.  *)
Newest(m) ==
  \A n \in Message :
    IsApproved(n, approvals[m].task, approvals[m].kind)
      => approvals[n].id <= approvals[m].id

BugClaimIgnoresLock(m) ==
  LET a == approvals[m] IN
  /\ up /\ a.result = "approved" /\ Newest(m)
  /\ tasks[a.task].status = ExecutingStatus(a.kind)
  /\ BoundCommit(a.kind, tasks[a.task]) = a.commit
  /\ approvals' = [approvals EXCEPT ![m].result = "executing"]
  /\ locks' = [locks EXCEPT ![ProjectOf[a.task]] = m]
  /\ claims' = [claims EXCEPT ![m] = "claimed"]
  /\ UNCHANGED <<tasks, lastApproval, processed, up, calls>>

ClaimApproval(m) ==
  LET a == approvals[m] IN
  /\ up /\ a.result = "approved" /\ Newest(m)
  /\ tasks[a.task].status = ExecutingStatus(a.kind)
  /\ BoundCommit(a.kind, tasks[a.task]) = a.commit
  /\ locks[ProjectOf[a.task]] = NoMessage
  /\ approvals' = [approvals EXCEPT ![m].result = "executing"]
  /\ locks' = [locks EXCEPT ![ProjectOf[a.task]] = m]
  /\ claims' = [claims EXCEPT ![m] = "claimed"]
  /\ UNCHANGED <<tasks, lastApproval, processed, up, calls>>

CallOperator(m) ==
  LET a == approvals[m] IN
  /\ up /\ claims[m] = "claimed"
  /\ tasks[a.task].status = ExecutingStatus(a.kind)
  /\ BoundCommit(a.kind, tasks[a.task]) = a.commit
  /\ claims' = [claims EXCEPT ![m] = "called"]
  /\ calls' = [calls EXCEPT ![m] = @ + 1]
  /\ UNCHANGED <<tasks, approvals, lastApproval, locks, processed, up>>

(* CompleteApproval saves the row, consumes the executing approval and      *)
(* deletes the lock, or does none of it.                                    *)
Complete(m, row, r) ==
  LET t == approvals[m].task IN
  /\ up /\ claims[m] # "none"
  /\ approvals[m].result = "executing" /\ locks[ProjectOf[t]] = m
  /\ CanTransition(tasks[t].status, row.status)
  /\ SetRow(t, row)
  /\ approvals' = [approvals EXCEPT ![m].result = r]
  /\ locks' = [locks EXCEPT ![ProjectOf[t]] = NoMessage]
  /\ claims' = [claims EXCEPT ![m] = "none"]
  /\ UNCHANGED <<lastApproval, processed, up, calls>>

Target(m) == tasks[approvals[m].task]

CompleteMerge(m, c) ==
  /\ approvals[m].kind = "merge" /\ claims[m] = "called"
  /\ Complete(m, [Target(m) EXCEPT !.status = "merged", !.rc = c,
                                   !.key = NoCommit], "completed")

(* A merge can be refused before the operator is called.  A refusal is the  *)
(* new status of the task and the result of its approval.                   *)
Refusal == {<<"failed", "failed">>,
            <<"merge_conflict", "commit_changed">>,
            <<"merge_conflict", "merge_conflict">>}

RefuseMerge(m, refusal) ==
  /\ approvals[m].kind = "merge"
  /\ Complete(m, [Target(m) EXCEPT !.status = refusal[1]], refusal[2])

CompleteDeploy(m) ==
  /\ approvals[m].kind = "deploy" /\ claims[m] = "called"
  /\ Complete(m, [Target(m) EXCEPT !.status = "deployed"], "completed")

(* The RC branch moved: the task adopts its head and must be approved anew. *)
RetargetDeploy(m, c) ==
  /\ approvals[m].kind = "deploy" /\ claims[m] = "called"
  /\ Complete(m, [Target(m) EXCEPT !.status = "awaiting_deploy_approval",
                                   !.rc = c, !.key = NoCommit],
              "commit_changed")

FailDeploy(m) ==
  /\ approvals[m].kind = "deploy"
  /\ Complete(m, [Target(m) EXCEPT !.status = "deploy_failed"], "failed")

(* The worker ends without completing: its context was cancelled, or the    *)
(* store failed.  Row, approval and lock stay as they are until a restart.  *)
Abandon(m) ==
  /\ up /\ claims[m] # "none"
  /\ claims' = [claims EXCEPT ![m] = "none"]
  /\ UNCHANGED <<tasks, approvals, lastApproval, locks, processed, up, calls>>

AwaitDeployApproval(t) ==
  /\ up /\ tasks[t].status = "merged"
  /\ SetStatus(t, "awaiting_deploy_approval")
  /\ UNCHANGED approvals /\ Internal

-----------------------------------------------------------------------------
(* The process dies; the next one recovers before it serves anything. *)
Crash ==
  /\ up
  /\ up' = FALSE
  /\ claims' = [m \in Message |-> "none"]
  /\ UNCHANGED <<tasks, approvals, lastApproval, locks, processed, calls>>

BugRecoveryReplays ==
  /\ ~up
  /\ up' = TRUE
  /\ locks' = [p \in Project |-> NoMessage]
  /\ approvals' = [m \in Message |->
                     IF approvals[m].result = "executing"
                       THEN [approvals[m] EXCEPT !.result = "approved"]
                       ELSE approvals[m]]
  /\ UNCHANGED <<tasks, lastApproval, processed, claims, calls>>

BugRecoveryKeepsLocks ==
  /\ ~up
  /\ up' = TRUE
  /\ tasks' = [t \in Task |-> [tasks[t] EXCEPT !.status =
                 Recovered(tasks[t].status, tasks[t].commit # NoCommit)]]
  /\ UNCHANGED <<locks, approvals, lastApproval, processed, claims, calls>>

RecoverInterrupted ==
  /\ ~up
  /\ up' = TRUE
  /\ tasks' = [t \in Task |-> [tasks[t] EXCEPT !.status =
                 Recovered(tasks[t].status, tasks[t].commit # NoCommit)]]
  /\ locks' = [p \in Project |->
                 IF /\ locks[p] # NoMessage
                    /\ tasks'[approvals[locks[p]].task].status
                         \notin {"merging", "deploying"}
                   THEN NoMessage
                   ELSE locks[p]]
  /\ UNCHANGED <<approvals, lastApproval, processed, claims, calls>>

-----------------------------------------------------------------------------
Command ==
  \E t \in Task :
    \/ CreateDraft(t)
    \/ \E next \in {"awaiting_confirmation", "failed"} : FinishPlanning(t, next)
    \/ \E k \in Message \cup {t} : RecordCommand(k, t)
    \/ \E m \in Message : \/ Confirm(t, m)
                          \/ Supplement(t, m)
                          \/ Cancel(t, m)
                          \/ ApproveMerge(t, m)
                          \/ ApproveDeploy(t, m)

Execute ==
  \E t \in Task :
    \/ ClaimTask(t)
    \/ CheckpointPrepared(t)
    \/ CheckpointSession(t)
    \/ Block(t)
    \/ StartChecks(t)
    \/ \E c \in Commit : CheckpointCommit(t, c)
    \/ RecordPush(t)
    \/ AwaitMergeApproval(t)
    \/ FailTask(t)
    \/ AwaitDeployApproval(t)

Release ==
  \E m \in Message :
    \/ ClaimApproval(m)
    \/ CallOperator(m)
    \/ \E c \in Commit : CompleteMerge(m, c) \/ RetargetDeploy(m, c)
    \/ \E refusal \in Refusal : RefuseMerge(m, refusal)
    \/ CompleteDeploy(m)
    \/ FailDeploy(m)
    \/ Abandon(m)

Next == Command \/ Execute \/ Release \/ Crash \/ RecoverInterrupted

Spec == Init /\ [][Next]_vars

-----------------------------------------------------------------------------
(* Correctness. *)

(* A project's lock is held for an approval that is executing, of a task of *)
(* that project, whose status and commit are still the approved ones: no    *)
(* command and no crash before the recovery takes the task away from under  *)
(* the lock.                                                                *)
LockSound ==
  \A p \in Project : locks[p] # NoMessage =>
    LET a == approvals[locks[p]] IN
    /\ a.result = "executing"
    /\ a.task \in Task /\ ProjectOf[a.task] = p
    /\ tasks[a.task].status = ExecutingStatus(a.kind)
    /\ BoundCommit(a.kind, tasks[a.task]) = a.commit

(* A worker that may call the operator holds the lock of its project, so    *)
(* one project never has two merges or deployments at the same time         *)
(* (design document, section on the scheduler).                             *)
OneReleasePerProject ==
  /\ \A m \in Message : claims[m] # "none" =>
       up /\ locks[ProjectOf[approvals[m].task]] = m
  /\ \A m, n \in Message :
       /\ claims[m] # "none" /\ claims[n] # "none"
       /\ ProjectOf[approvals[m].task] = ProjectOf[approvals[n].task]
       => m = n

(* An approval message causes at most one call of the operator, however     *)
(* often the process dies and whatever happened to the first call.          *)
CalledAtMostOnce == \A m \in Message : calls[m] <= 1

(* A task never has two approvals of one kind that could still be claimed.  *)
OneLiveApproval ==
  \A m, n \in Message : \A t \in Task, kind \in {"merge", "deploy"} :
    IsApproved(m, t, kind) /\ IsApproved(n, t, kind) => m = n

(* A task that is merging or deploying can be moved on: an approval bound   *)
(* to its commit is waiting to be claimed, or was claimed and still holds   *)
(* the project, so its worker or the next recovery ends it.                 *)
ReleaseHasApproval ==
  \A t \in Task : \A kind \in {"merge", "deploy"} :
    tasks[t].status = ExecutingStatus(kind) =>
      \E m \in Message :
        /\ approvals[m].task = t /\ approvals[m].kind = kind
        /\ approvals[m].commit = BoundCommit(kind, tasks[t])
        /\ \/ approvals[m].result = "approved"
           \/ locks[ProjectOf[t]] = m

(* A queued task is new or has both a worktree and a session to resume, so  *)
(* the refusal of an incomplete execution state is never met, whatever the  *)
(* checkpoint at which an earlier run was interrupted.                      *)
QueuedIsResumable ==
  \A t \in Task : tasks[t].status = "queued" => tasks[t].exec # "prepared"

(* The columns that the later stages rely on are there: a pushed task has   *)
(* its commit, a merged one its RC commit, and the deploy key of a task     *)
(* that is deploying belongs to the RC commit that was approved.            *)
CommitsPresent ==
  \A t \in Task :
    LET row == tasks[t] IN
    /\ row.status \in {"pushed", "awaiting_merge_approval", "merging"}
         => row.commit # NoCommit /\ row.exec = "session"
    /\ row.status \in {"merged", "awaiting_deploy_approval", "deploying",
                       "deployed", "deploy_failed"}
         => row.commit # NoCommit /\ row.rc # NoCommit
    /\ row.status = "deploying" => row.key = row.rc

(* The lock of a project and the worker that may call the operator belong   *)
(* together: no release runs without the lock, none beside another, and no  *)
(* two approvals of one task wait for it.                                   *)
ReleaseIsLocked == LockSound /\ OneReleasePerProject /\ OneLiveApproval

(* No row is ever stranded: what is queued can start, what is released has  *)
(* an approval that ends it, and each stage finds the columns it relies on. *)
RowsCanGoOn == QueuedIsResumable /\ ReleaseHasApproval /\ CommitsPresent

(* Every change of a status is one of the table, the raw SQL of the         *)
(* recovery and the completion of approvals included; so a terminal status  *)
(* is final.                                                                *)
LegalStatusChange(t) ==
  \/ tasks'[t].status = tasks[t].status
  \/ tasks[t].status = "absent" /\ tasks'[t].status = "draft"
  \/ CanTransition(tasks[t].status, tasks'[t].status)

StatusMachine == [][\A t \in Task : LegalStatusChange(t)]_vars

(* A call of the operator executes what an administrator approved, and does *)
(* so for the first time: the approving sender is one, the call happens     *)
(* while the task is in the approved stage, and the commit is still that of *)
(* the task.                                                                *)
AuthorisedCall(m) ==
  LET a == approvals[m] IN
  /\ calls[m] = 0 /\ calls'[m] = 1
  /\ Sender[m] \in Admin
  /\ a.task \in Task /\ a.result = "executing"
  /\ tasks[a.task].status = ExecutingStatus(a.kind)
  /\ a.commit = BoundCommit(a.kind, tasks[a.task])
  /\ a.kind = "deploy" => tasks[a.task].key = a.commit

CallsAuthorised ==
  [][\A m \in Message : calls'[m] # calls[m] => AuthorisedCall(m)]_vars

(* After a restart no project is locked and no task is left in a stage that *)
(* only the lost process could have ended.                                  *)
RestartClean ==
  [][~up /\ up' =>
       /\ \A p \in Project : locks'[p] = NoMessage
       /\ \A t \in Task : ~ Interrupted(tasks'[t].status,
                                        tasks'[t].commit # NoCommit)]_vars

-----------------------------------------------------------------------------
(* The inductive invariant behind the properties above. *)

(* What each stage of the life of a task guarantees about its columns. *)
RowOK(row) ==
  /\ row.status \in {"absent", "draft", "awaiting_confirmation"}
       => row.exec = "none"
  /\ row.status = "queued" => row.exec # "prepared"
  /\ row.status \in {"blocked", "checking"} => row.exec = "session"
  /\ row.status \in {"pushed", "awaiting_merge_approval", "merging"}
       => row.commit # NoCommit /\ row.exec = "session"
  /\ row.status \in {"merged", "awaiting_deploy_approval", "deploying",
                     "deployed", "deploy_failed"}
       => row.commit # NoCommit /\ row.rc # NoCommit
  /\ row.status = "deploying" => row.key = row.rc

RowSound == \A t \in Task : RowOK(tasks[t])

(* An approval row exists only for a processed message, and then it was     *)
(* sent by an administrator for a task.                                     *)
ApprovalSound ==
  \A m \in Message : approvals[m].result # "none" =>
    m \in processed /\ approvals[m].task \in Task /\ Sender[m] \in Admin

(* Workers hold the lock of the project of the approval they execute. *)
ClaimSound ==
  \A m \in Message : claims[m] # "none" =>
    up /\ approvals[m].task \in Task /\ locks[ProjectOf[approvals[m].task]] = m

(* A call uses up its approval; a claim that has not called yet is fresh. *)
CallSound ==
  \A m \in Message :
    /\ calls[m] <= 1
    /\ calls[m] # 0 => approvals[m].result \notin {"none", "approved"}
    /\ claims[m] = "claimed" => calls[m] = 0

IInv ==
  /\ TypeOK /\ RowSound /\ ApprovalSound /\ LockSound /\ ClaimSound
  /\ CallSound /\ OneLiveApproval /\ ReleaseHasApproval

=============================================================================
