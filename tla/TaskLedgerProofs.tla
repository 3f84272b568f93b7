-------------------------- MODULE TaskLedgerProofs --------------------------
(***************************************************************************)
(* Proofs about TaskLedger for any number of tasks, messages, projects,    *)
(* users and commits.  Each conjunct of the inductive invariant IInv has   *)
(* a lemma that every step preserves it, with one step per action that     *)
(* disturbs it; the theorems at the end combine them.                      *)
(***************************************************************************)
EXTENDS TaskLedger, TLAPS

USE LedgerConstants

(* Every initial state satisfies the inductive invariant. *)
LEMMA InitIInv == Init => IInv
<1> SUFFICES ASSUME Init PROVE IInv
  OBVIOUS
<1>1. TypeOK
  BY DEF Init, TypeOK, NoRow, Row, NoApproval, Approval, Result
<1>2. RowSound /\ ReleaseHasApproval
  BY DEF Init, RowSound, RowOK, ReleaseHasApproval, NoRow, ExecutingStatus
<1>3. ApprovalSound /\ OneLiveApproval /\ CallSound
  BY DEF Init, ApprovalSound, OneLiveApproval, IsApproved, CallSound,
         NoApproval
<1>4. LockSound /\ ClaimSound
  BY DEF Init, LockSound, ClaimSound
<1> QED
  BY <1>1, <1>2, <1>3, <1>4 DEF IInv

(* Invalidating approvals keeps them well-typed and only touches approved   *)
(* rows, whose result becomes r.                                            *)
LEMMA InvalidatedRows ==
  ASSUME approvals \in [Message -> Approval],
         NEW t \in Task, NEW kind \in {"merge", "deploy"}, NEW r \in Result
  PROVE  /\ Invalidated(t, kind, r) \in [Message -> Approval]
         /\ \A m \in Message :
              LET b == Invalidated(t, kind, r)[m] IN
              /\ b.task = approvals[m].task /\ b.kind = approvals[m].kind
              /\ b.commit = approvals[m].commit /\ b.id = approvals[m].id
              /\ b.result = IF IsApproved(m, t, kind)
                              THEN r ELSE approvals[m].result
<1>1. ASSUME NEW m \in Message
      PROVE  /\ [approvals[m] EXCEPT !.result = r] \in Approval
             /\ [approvals[m] EXCEPT !.result = r].task = approvals[m].task
             /\ [approvals[m] EXCEPT !.result = r].kind = approvals[m].kind
             /\ [approvals[m] EXCEPT !.result = r].commit = approvals[m].commit
             /\ [approvals[m] EXCEPT !.result = r].id = approvals[m].id
             /\ [approvals[m] EXCEPT !.result = r].result = r
  BY DEF Approval
<1> QED
  BY <1>1 DEF Invalidated

(* Recording an approval adds one approved row and supersedes older ones. *)
LEMMA RecordedRows ==
  ASSUME TypeOK, NEW t \in Task, NEW kind \in {"merge", "deploy"},
         NEW m \in Message, RecordApproval(t, kind, m)
  PROVE  /\ approvals' \in [Message -> Approval]
         /\ lastApproval' \in Nat
         /\ approvals'[m].task = t /\ approvals'[m].kind = kind
         /\ approvals'[m].result = "approved"
         /\ approvals'[m].commit = BoundCommit(kind, tasks[t])
         /\ \A n \in Message \ {m} :
              /\ approvals'[n].task = approvals[n].task
              /\ approvals'[n].kind = approvals[n].kind
              /\ approvals'[n].commit = approvals[n].commit
              /\ approvals'[n].result = IF IsApproved(n, t, kind)
                                          THEN "superseded"
                                          ELSE approvals[n].result
<1> DEFINE old == Invalidated(t, kind, "superseded")
           new == [task |-> t, kind |-> kind, result |-> "approved",
                   commit |-> BoundCommit(kind, tasks[t]),
                   id |-> lastApproval + 1]
<1>1. /\ old \in [Message -> Approval]
      /\ \A n \in Message :
           /\ old[n].task = approvals[n].task /\ old[n].kind = approvals[n].kind
           /\ old[n].commit = approvals[n].commit
           /\ old[n].result = IF IsApproved(n, t, kind)
                                THEN "superseded" ELSE approvals[n].result
  BY InvalidatedRows DEF TypeOK, Result
<1>2. tasks[t] \in Row
  BY DEF TypeOK
<1>3. new \in Approval
  BY <1>2 DEF Approval, TypeOK, BoundCommit, Row, Result
<1>4. approvals' = [old EXCEPT ![m] = new] /\ lastApproval' = lastApproval + 1
  BY DEF RecordApproval
<1>5. /\ approvals' \in [Message -> Approval]
      /\ approvals'[m] = new
      /\ \A n \in Message \ {m} : approvals'[n] = old[n]
  <2> HIDE DEF old, new
  <2> QED
    BY <1>1, <1>3, <1>4
<1> QED
  BY <1>1, <1>4, <1>5 DEF TypeOK

(* What the completions of approvals have in common: the row of the task    *)
(* changes as a whole, keeps its commit, and leaves the executing status.   *)
Completion(m) ==
  \/ \E c \in Commit : CompleteMerge(m, c) \/ RetargetDeploy(m, c)
  \/ \E refusal \in Refusal : RefuseMerge(m, refusal)
  \/ CompleteDeploy(m) \/ FailDeploy(m)

Released == {"merged", "merge_conflict", "failed", "awaiting_deploy_approval",
             "deployed", "deploy_failed"}

(* A completion is an instance of Complete with a sound new row. *)
LEMMA CompletionRows ==
  ASSUME TypeOK, RowSound, ApprovalSound, NEW m \in Message, Completion(m)
  PROVE  /\ approvals[m].task \in Task
         /\ \E row \in Row, r \in Result \ {"none", "approved", "executing"} :
              /\ Complete(m, row, r)
              /\ row.status \in Released
              /\ row.exec = Target(m).exec /\ row.commit = Target(m).commit
              /\ RowOK(row)
<1>1. approvals[m].result = "executing" /\ approvals[m].kind \in {"merge", "deploy"}
  BY DEF Completion, CompleteMerge, RetargetDeploy, RefuseMerge, CompleteDeploy,
         FailDeploy, Complete
<1>2. approvals[m].task \in Task /\ Target(m) \in Row
  BY <1>1 DEF ApprovalSound, TypeOK, Target
<1>3. CASE \E c \in Commit : CompleteMerge(m, c)
  <2> PICK c \in Commit : CompleteMerge(m, c)
    BY <1>3
  <2> DEFINE row == [Target(m) EXCEPT !.status = "merged", !.rc = c,
                                      !.key = NoCommit]
  <2>1. Complete(m, row, "completed")
    BY DEF CompleteMerge
  <2>2. row \in Row /\ row.status = "merged" /\ row.rc = c
        /\ row.exec = Target(m).exec /\ row.commit = Target(m).commit
    BY <1>2 DEF Row, Status
  <2>3. Target(m).status = "merging"
    BY <2>1, <2>2 DEF Complete, CanTransition, Target
  <2> QED
    BY <1>2, <2>1, <2>2, <2>3 DEF Target, RowSound, RowOK, Released, Result
<1>4. CASE \E c \in Commit : RetargetDeploy(m, c)
  <2> PICK c \in Commit : RetargetDeploy(m, c)
    BY <1>4
  <2> DEFINE row == [Target(m) EXCEPT !.status = "awaiting_deploy_approval",
                                      !.rc = c, !.key = NoCommit]
  <2>1. Complete(m, row, "commit_changed")
    BY DEF RetargetDeploy
  <2>2. row \in Row /\ row.status = "awaiting_deploy_approval" /\ row.rc = c
        /\ row.exec = Target(m).exec /\ row.commit = Target(m).commit
    BY <1>2 DEF Row, Status
  <2>3. Target(m).status \in {"merged", "deploying", "pushed"}
    BY <2>1, <2>2 DEF Complete, CanTransition, Target
  <2> QED
    BY <1>2, <2>1, <2>2, <2>3 DEF Target, RowSound, RowOK, Released, Result
<1>5. CASE \E refusal \in Refusal : RefuseMerge(m, refusal)
  <2> PICK next \in {"failed", "merge_conflict"},
           r \in {"failed", "commit_changed", "merge_conflict"} :
         Complete(m, [Target(m) EXCEPT !.status = next], r)
    BY <1>5 DEF Refusal, RefuseMerge
  <2> DEFINE row == [Target(m) EXCEPT !.status = next]
  <2>1. Complete(m, row, r)
    OBVIOUS
  <2>2. row \in Row /\ row.status = next
        /\ row.exec = Target(m).exec /\ row.commit = Target(m).commit
    BY <1>2, <2>1 DEF Row, Status
  <2> QED
    BY <1>2, <2>1, <2>2 DEF Released, Result, RowOK
<1>6. CASE CompleteDeploy(m) \/ FailDeploy(m)
  <2> PICK next \in {"deployed", "deploy_failed"}, r \in {"completed", "failed"} :
         Complete(m, [Target(m) EXCEPT !.status = next], r)
    BY <1>6 DEF CompleteDeploy, FailDeploy
  <2> DEFINE row == [Target(m) EXCEPT !.status = next]
  <2>1. row \in Row /\ row.status = next /\ row.rc = Target(m).rc
        /\ row.exec = Target(m).exec /\ row.commit = Target(m).commit
    BY <1>2 DEF Row, Status
  <2>2. Complete(m, row, r)
    OBVIOUS
  <2> HIDE DEF row
  <2>3. Target(m).status = "deploying"
    BY <2>1, <2>2 DEF Complete, CanTransition, Target
  <2>4. RowOK(Target(m))
    BY <1>2 DEF Target, RowSound
  <2>5. RowOK(row)
    BY <2>1, <2>3, <2>4 DEF RowOK
  <2> QED
    BY <1>2, <2>1, <2>2, <2>5 DEF Released, Result
<1> QED
  BY <1>3, <1>4, <1>5, <1>6 DEF Completion

-----------------------------------------------------------------------------
(* The steps that change one row outside the release stages: the commands    *)
(* except the approvals, and the execution of a task.                        *)
RowStep(t) ==
  \/ CreateDraft(t)
  \/ \E next \in {"awaiting_confirmation", "failed"} : FinishPlanning(t, next)
  \/ \E m \in Message : Confirm(t, m) \/ Supplement(t, m) \/ Cancel(t, m)
  \/ ClaimTask(t) \/ CheckpointPrepared(t) \/ CheckpointSession(t)
  \/ Block(t) \/ StartChecks(t)
  \/ \E c \in Commit : CheckpointCommit(t, c)
  \/ RecordPush(t) \/ AwaitMergeApproval(t) \/ FailTask(t)
  \/ AwaitDeployApproval(t)

Busy == {"merging", "deploying"}

RowEffect(t, row) ==
  /\ row \in Row /\ RowOK(row)
  /\ SetRow(t, row)
  /\ tasks[t].status \notin Busy /\ row.status \notin Busy

(* A step that changes one row leaves a sound row outside merging and       *)
(* deploying, and starts outside them.                                      *)
LEMMA RowStepRow ==
  ASSUME TypeOK, RowSound, NEW t \in Task, RowStep(t)
  PROVE  \E row \in Row : RowEffect(t, row)
<1>1. tasks[t] \in Row /\ RowOK(tasks[t])
  BY DEF TypeOK, RowSound
<1> DEFINE moved(s) == [tasks[t] EXCEPT !.status = s]
<1>2. ASSUME NEW s \in Status
      PROVE  /\ moved(s) \in Row /\ moved(s).status = s
             /\ moved(s).exec = tasks[t].exec /\ moved(s).key = tasks[t].key
             /\ moved(s).commit = tasks[t].commit /\ moved(s).rc = tasks[t].rc
  BY <1>1 DEF Row
<1>3. ASSUME NEW s \in Status, SetRow(t, moved(s)), RowOK(moved(s)),
             tasks[t].status \notin Busy, s \notin Busy
      PROVE  \E row \in Row : RowEffect(t, row)
  <2>1. moved(s) \in Row /\ moved(s).status \notin Busy
    BY <1>2, <1>3
  <2> HIDE DEF moved
  <2> QED
    BY <1>3, <2>1 DEF RowEffect
<1> HIDE DEF moved
<1>4. CASE CreateDraft(t)
  <2>1. SetRow(t, moved("draft")) /\ tasks[t].status = "absent"
    BY <1>4 DEF CreateDraft, moved
  <2>2. "draft" \in Status
    BY DEF Status
  <2> QED
    BY <1>1, <1>2, <1>3, <2>1, <2>2 DEF RowOK, Busy
<1>5. CASE \/ \E next \in {"awaiting_confirmation", "failed"} : FinishPlanning(t, next)
           \/ \E m \in Message : Confirm(t, m) \/ Cancel(t, m)
           \/ ClaimTask(t) \/ StartChecks(t) \/ RecordPush(t)
           \/ AwaitMergeApproval(t) \/ FailTask(t) \/ AwaitDeployApproval(t)
  <2>1. PICK s \in Status :
             /\ SetRow(t, moved(s)) /\ CanTransition(tasks[t].status, s)
             /\ s \in {"awaiting_confirmation", "failed", "queued", "cancelled",
                       "running", "checking", "pushed",
                       "awaiting_merge_approval", "awaiting_deploy_approval"}
             /\ s = "queued" => tasks[t].status = "awaiting_confirmation"
             /\ s = "failed" => tasks[t].status # "merging"
             /\ s = "checking" => tasks[t].exec = "session"
             /\ s = "pushed" => tasks[t].commit # NoCommit
             /\ s = "awaiting_deploy_approval" => tasks[t].status = "merged"
    BY <1>5 DEF FinishPlanning, Confirm, Cancel, ClaimTask, StartChecks,
         RecordPush, AwaitMergeApproval, FailTask, AwaitDeployApproval,
         SetStatus, moved, Status
  <2>2. tasks[t].status \notin Busy /\ s \notin Busy
    BY <2>1 DEF CanTransition, Busy
  <2>3. RowOK(moved(s))
    BY <1>1, <1>2, <2>1 DEF RowOK, CanTransition
  <2> QED
    BY <1>3, <2>1, <2>2, <2>3
<1>6. CASE \E m \in Message : Supplement(t, m)
  <2> DEFINE row == [tasks[t] EXCEPT !.status = "queued", !.commit = NoCommit,
                                     !.rc = NoCommit]
  <2>1. /\ SetRow(t, row)
        /\ tasks[t].status \in {"blocked", "awaiting_merge_approval"}
    BY <1>6 DEF Supplement
  <2>2. row \in Row /\ row.status = "queued" /\ row.exec = tasks[t].exec
    BY <1>1 DEF Row, Status
  <2> QED
    BY <1>1, <2>1, <2>2 DEF RowEffect, RowOK, Busy
<1>7. CASE CheckpointPrepared(t) \/ CheckpointSession(t)
  <2>1. PICK e \in {"prepared", "session"} :
             SetRow(t, [tasks[t] EXCEPT !.exec = e]) /\ tasks[t].status = "running"
    BY <1>7 DEF CheckpointPrepared, CheckpointSession
  <2>2. [tasks[t] EXCEPT !.exec = e] \in Row
        /\ [tasks[t] EXCEPT !.exec = e].status = "running"
    BY <1>1, <2>1 DEF Row
  <2> QED
    BY <2>1, <2>2 DEF RowEffect, RowOK, Busy
<1>8. CASE Block(t)
  <2> DEFINE row == [tasks[t] EXCEPT !.status = "blocked", !.exec = "session"]
  <2>1. SetRow(t, row) /\ tasks[t].status = "running"
    BY <1>8 DEF Block
  <2>2. row \in Row /\ row.status = "blocked" /\ row.exec = "session"
    BY <1>1 DEF Row, Status
  <2> QED
    BY <2>1, <2>2 DEF RowEffect, RowOK, Busy
<1>9. CASE \E c \in Commit : CheckpointCommit(t, c)
  <2> PICK c \in Commit : CheckpointCommit(t, c)
    BY <1>9
  <2> DEFINE row == [tasks[t] EXCEPT !.commit = c]
  <2>1. SetRow(t, row) /\ tasks[t].status = "checking"
    BY DEF CheckpointCommit
  <2>2. row \in Row /\ row.status = "checking" /\ row.exec = tasks[t].exec
    BY <1>1, <2>1 DEF Row
  <2> QED
    BY <1>1, <2>1, <2>2 DEF RowEffect, RowOK, Busy
<1> QED
  BY <1>4, <1>5, <1>6, <1>7, <1>8, <1>9 DEF RowStep

(* The rest of such a step: approvals are at most invalidated, and nothing  *)
(* of the release changes.                                                  *)
Superseding(t) ==
  approvals' \in {approvals, Invalidated(t, "merge", "superseded_by_new_commit")}

(* What a step on one row leaves alone. *)
LEMMA RowStepFrame ==
  ASSUME TypeOK, NEW t \in Task, RowStep(t)
  PROVE  /\ UNCHANGED <<lastApproval, locks, claims, up, calls>>
         /\ processed \subseteq processed' /\ processed' \subseteq Message \cup Task
         /\ Superseding(t)
<1>1. Superseding(t) /\ UNCHANGED <<lastApproval, locks, claims, up, calls>>
  BY DEF RowStep, CreateDraft, FinishPlanning, Confirm, Supplement, Cancel,
       ClaimTask, CheckpointPrepared, CheckpointSession, Block, StartChecks,
       CheckpointCommit, RecordPush, AwaitMergeApproval, FailTask,
       AwaitDeployApproval, Internal, Superseding
<1>2. \/ processed' = processed
      \/ \E k \in Message \cup Task : processed' = processed \cup {k}
  BY DEF RowStep, CreateDraft, FinishPlanning, Confirm, Supplement, Cancel,
       ClaimTask, CheckpointPrepared, CheckpointSession, Block, StartChecks,
       CheckpointCommit, RecordPush, AwaitMergeApproval, FailTask,
       AwaitDeployApproval, Internal, ProcessMessage
<1> QED
  BY <1>1, <1>2 DEF TypeOK

(* What such a step leaves in the approvals. *)
LEMMA SupersedingRows ==
  ASSUME TypeOK, NEW t \in Task, Superseding(t)
  PROVE  /\ approvals' \in [Message -> Approval]
         /\ \A m \in Message :
              /\ approvals'[m].task = approvals[m].task
              /\ approvals'[m].kind = approvals[m].kind
              /\ approvals'[m].commit = approvals[m].commit
              /\ \/ approvals'[m].result = approvals[m].result
                 \/ /\ IsApproved(m, t, "merge")
                    /\ approvals'[m].result = "superseded_by_new_commit"
<1>1. approvals \in [Message -> Approval] /\ "superseded_by_new_commit" \in Result
  BY DEF TypeOK, Result
<1>2. CASE approvals' = approvals
  BY <1>1, <1>2
<1>3. CASE approvals' = Invalidated(t, "merge", "superseded_by_new_commit")
  <2> DEFINE new == Invalidated(t, "merge", "superseded_by_new_commit")
  <2>1. /\ new \in [Message -> Approval]
        /\ \A m \in Message :
             /\ new[m].task = approvals[m].task /\ new[m].kind = approvals[m].kind
             /\ new[m].commit = approvals[m].commit
             /\ new[m].result = IF IsApproved(m, t, "merge")
                                  THEN "superseded_by_new_commit"
                                  ELSE approvals[m].result
    BY <1>1, InvalidatedRows
  <2> HIDE DEF new
  <2> QED
    BY <1>3, <2>1 DEF new
<1> QED
  BY <1>2, <1>3 DEF Superseding

-----------------------------------------------------------------------------
(* The effect of an approval command, of a completion and of the recovery,   *)
(* row by row.                                                               *)
Approve(t, kind, m) ==
  \/ kind = "merge" /\ ApproveMerge(t, m)
  \/ kind = "deploy" /\ ApproveDeploy(t, m)

(* An approval command moves its task into the executing status and adds an *)
(* approval bound to the commit of the task.                                *)
LEMMA ApproveEffect ==
  ASSUME TypeOK, RowSound, NEW t \in Task, NEW kind \in {"merge", "deploy"},
         NEW m \in Message, Approve(t, kind, m)
  PROVE  /\ tasks' \in [Task -> Row] /\ RowSound'
         /\ tasks'[t].status = ExecutingStatus(kind)
         /\ tasks[t].status \notin Busy
         /\ BoundCommit(kind, tasks'[t]) = BoundCommit(kind, tasks[t])
         /\ \A u \in Task \ {t} : tasks'[u] = tasks[u]
         /\ m \notin processed /\ processed' = processed \cup {m}
         /\ Sender[m] \in Admin
         /\ RecordApproval(t, kind, m)
         /\ UNCHANGED <<locks, claims, up, calls>>
<1>1. tasks[t] \in Row /\ RowOK(tasks[t])
  BY DEF TypeOK, RowSound
<1>2. \E row \in Row :
        /\ SetRow(t, row) /\ RowOK(row) /\ row.status = ExecutingStatus(kind)
        /\ BoundCommit(kind, row) = BoundCommit(kind, tasks[t])
  <2>1. CASE kind = "merge"
    <3> DEFINE row == [tasks[t] EXCEPT !.status = "merging"]
    <3>1. row \in Row /\ row.status = "merging" /\ row.commit = tasks[t].commit
          /\ row.exec = tasks[t].exec
      BY <1>1 DEF Row, Status
    <3>2. SetRow(t, row) /\ tasks[t].status = "awaiting_merge_approval"
      BY <2>1 DEF Approve, ApproveMerge, SetStatus
    <3> HIDE DEF row
    <3>3. RowOK(row)
      BY <1>1, <3>1, <3>2 DEF RowOK
    <3> QED
      BY <2>1, <3>1, <3>2, <3>3 DEF BoundCommit, ExecutingStatus
  <2>2. CASE kind = "deploy"
    <3> DEFINE row == [tasks[t] EXCEPT !.status = "deploying", !.key = tasks[t].rc]
    <3>1. row \in Row /\ row.status = "deploying" /\ row.rc = tasks[t].rc
          /\ row.key = tasks[t].rc /\ row.commit = tasks[t].commit
      BY <1>1 DEF Row, Status
    <3>2. /\ SetRow(t, row) /\ tasks[t].rc # NoCommit
          /\ tasks[t].status \in {"awaiting_deploy_approval", "deploy_failed"}
      BY <2>2 DEF Approve, ApproveDeploy
    <3> HIDE DEF row
    <3>3. RowOK(row)
      BY <1>1, <3>1, <3>2 DEF RowOK
    <3> QED
      BY <2>2, <3>1, <3>2, <3>3 DEF BoundCommit, ExecutingStatus
  <2> QED
    BY <2>1, <2>2
<1>3. tasks[t].status \notin Busy
  BY DEF Approve, ApproveMerge, ApproveDeploy, Busy
<1> QED
  BY <1>2, <1>3 DEF Approve, ApproveMerge, ApproveDeploy, SetRow, TypeOK, RowSound,
                    ProcessMessage, CanApprove

(* A completion ends the execution of one approval and frees its project. *)
LEMMA CompletionEffect ==
  ASSUME IInv, NEW m \in Message, Completion(m), NEW t, t = approvals[m].task
  PROVE  /\ t \in Task
         /\ tasks' \in [Task -> Row] /\ RowSound'
         /\ tasks[t].status = ExecutingStatus(approvals[m].kind)
         /\ tasks'[t].status \in Released
         /\ tasks'[t].exec = tasks[t].exec /\ tasks'[t].commit = tasks[t].commit
         /\ CanTransition(tasks[t].status, tasks'[t].status)
         /\ \A u \in Task \ {t} : tasks'[u] = tasks[u]
         /\ approvals' \in [Message -> Approval]
         /\ \A n \in Message :
              /\ approvals'[n].task = approvals[n].task
              /\ approvals'[n].kind = approvals[n].kind
              /\ approvals'[n].commit = approvals[n].commit
              /\ n # m => approvals'[n] = approvals[n]
         /\ approvals[m].result = "executing"
         /\ approvals'[m].result \notin {"none", "approved", "executing"}
         /\ locks[ProjectOf[t]] = m
         /\ locks' = [locks EXCEPT ![ProjectOf[t]] = NoMessage]
         /\ claims' = [claims EXCEPT ![m] = "none"]
         /\ UNCHANGED <<lastApproval, processed, up, calls>>
<1>1. /\ t \in Task
      /\ \E row \in Row, r \in Result \ {"none", "approved", "executing"} :
           /\ Complete(m, row, r)
           /\ row.status \in Released
           /\ row.exec = Target(m).exec /\ row.commit = Target(m).commit
           /\ RowOK(row)
  BY CompletionRows DEF IInv
<1>2. PICK row \in Row, r \in Result \ {"none", "approved", "executing"} :
           /\ Complete(m, row, r)
           /\ row.status \in Released
           /\ row.exec = Target(m).exec /\ row.commit = Target(m).commit
           /\ RowOK(row)
  BY <1>1
<1>3. /\ tasks' = [tasks EXCEPT ![t] = row]
      /\ approvals' = [approvals EXCEPT ![m].result = r]
      /\ locks[ProjectOf[t]] = m /\ approvals[m].result = "executing"
      /\ locks' = [locks EXCEPT ![ProjectOf[t]] = NoMessage]
      /\ claims' = [claims EXCEPT ![m] = "none"]
      /\ CanTransition(tasks[t].status, row.status)
      /\ UNCHANGED <<lastApproval, processed, up, calls>>
  BY <1>2 DEF Complete, SetRow
<1>4. tasks'[t] = row /\ tasks' \in [Task -> Row]
      /\ \A u \in Task \ {t} : tasks'[u] = tasks[u]
  BY <1>1, <1>3 DEF IInv, TypeOK
<1>5. RowSound'
  BY <1>2, <1>4 DEF IInv, RowSound
<1>6. /\ approvals' \in [Message -> Approval]
      /\ \A n \in Message :
           /\ approvals'[n].task = approvals[n].task
           /\ approvals'[n].kind = approvals[n].kind
           /\ approvals'[n].commit = approvals[n].commit
           /\ n # m => approvals'[n] = approvals[n]
      /\ approvals'[m].result = r
  <2>1. approvals[m] \in Approval /\ approvals \in [Message -> Approval]
    BY DEF IInv, TypeOK
  <2> DEFINE b == [approvals[m] EXCEPT !.result = r]
  <2>2. /\ b \in Approval /\ b.task = approvals[m].task /\ b.kind = approvals[m].kind
        /\ b.commit = approvals[m].commit /\ b.result = r
    BY <1>2, <2>1 DEF Approval
  <2>3. approvals' = [approvals EXCEPT ![m] = b]
    BY <1>3
  <2> HIDE DEF b
  <2> QED
    BY <2>1, <2>2, <2>3
<1>7. tasks[t].status = ExecutingStatus(approvals[m].kind)
  BY <1>1, <1>3 DEF IInv, LockSound, TypeOK
<1> QED
  BY <1>1, <1>2, <1>3, <1>4, <1>5, <1>6, <1>7 DEF Target

(* What the recovery makes of a status. *)
LEMMA RecoveredStatus ==
  ASSUME NEW old \in Status \cup {"absent"}, NEW stored \in BOOLEAN
  PROVE  LET s == Recovered(old, stored) IN
         /\ s \in Status \cup {"absent"} /\ s \notin Busy
         /\ \/ s = old
            \/ /\ s \in {"failed", "deploy_failed"}
               /\ old \in {"running", "checking", "merging", "deploying"}
               /\ s = "deploy_failed" => old = "deploying"
            \/ s = "awaiting_merge_approval" /\ old = "pushed"
            \/ s = "awaiting_deploy_approval" /\ old = "merged"
<1>1. CASE ~Interrupted(old, stored)
  <2>1. Recovered(old, stored) = old
    BY <1>1 DEF Recovered
  <2>2. old \notin Busy
    BY <1>1 DEF Interrupted, Busy
  <2> QED
    BY <2>1, <2>2
<1>2. CASE Interrupted(old, stored) /\ old \in {"running", "checking", "merging"}
  <2>1. Recovered(old, stored) = "failed"
    BY <1>2 DEF Recovered
  <2> QED
    BY <1>2, <2>1 DEF Busy, Status
<1>3. CASE Interrupted(old, stored) /\ old \in {"pushed", "merged", "deploying"}
  BY <1>3 DEF Recovered, Busy, Status
<1> QED
  BY <1>1, <1>2, <1>3 DEF Interrupted

(* The recovery leaves sound rows, none of them executing, and no locks. *)
LEMMA RecoveryEffect ==
  ASSUME IInv, RecoverInterrupted
  PROVE  /\ tasks' \in [Task -> Row] /\ RowSound'
         /\ \A t \in Task :
              /\ tasks'[t].status =
                   Recovered(tasks[t].status, tasks[t].commit # NoCommit)
              /\ tasks'[t].status \notin Busy
              /\ tasks'[t].commit = tasks[t].commit
              /\ tasks'[t].exec = tasks[t].exec
         /\ locks' = [p \in Project |-> NoMessage]
         /\ up' /\ UNCHANGED <<approvals, lastApproval, processed, claims, calls>>
<1> DEFINE moved(t) == [tasks[t] EXCEPT !.status =
                          Recovered(tasks[t].status, tasks[t].commit # NoCommit)]
<1>1. ASSUME NEW t \in Task
      PROVE  /\ moved(t) \in Row /\ RowOK(moved(t))
             /\ moved(t).status = Recovered(tasks[t].status, tasks[t].commit # NoCommit)
             /\ moved(t).status \notin Busy
             /\ moved(t).commit = tasks[t].commit /\ moved(t).exec = tasks[t].exec
  <2>1. tasks[t] \in Row /\ RowOK(tasks[t])
    BY DEF IInv, TypeOK, RowSound
  <2> DEFINE s == Recovered(tasks[t].status, tasks[t].commit # NoCommit)
  <2>2. /\ s \in Status \cup {"absent"} /\ s \notin Busy
        /\ \/ s = tasks[t].status
           \/ /\ s \in {"failed", "deploy_failed"}
              /\ tasks[t].status \in {"running", "checking", "merging", "deploying"}
              /\ s = "deploy_failed" => tasks[t].status = "deploying"
           \/ s = "awaiting_merge_approval" /\ tasks[t].status = "pushed"
           \/ s = "awaiting_deploy_approval" /\ tasks[t].status = "merged"
    BY <2>1, RecoveredStatus DEF Row
  <2> HIDE DEF s
  <2>3. /\ moved(t) \in Row /\ moved(t).status = s
        /\ moved(t).exec = tasks[t].exec /\ moved(t).key = tasks[t].key
        /\ moved(t).commit = tasks[t].commit /\ moved(t).rc = tasks[t].rc
    BY <2>1, <2>2 DEF Row, s
  <2> HIDE DEF moved
  <2>4. RowOK(moved(t))
    BY <2>1, <2>2, <2>3 DEF RowOK
  <2> QED
    BY <2>2, <2>3, <2>4 DEF s
<1>2. tasks' = [t \in Task |-> moved(t)]
  BY DEF RecoverInterrupted
<1> HIDE DEF moved
<1>3. \A t \in Task : tasks'[t] = moved(t)
  BY <1>2
<1>4. ASSUME NEW p \in Project, locks[p] # NoMessage
      PROVE  tasks'[approvals[locks[p]].task].status \notin Busy
  BY <1>1, <1>3, <1>4 DEF IInv, LockSound
<1>5. locks' = [p \in Project |-> NoMessage]
  BY <1>4 DEF RecoverInterrupted, Busy
<1>6. up' /\ UNCHANGED <<approvals, lastApproval, processed, claims, calls>>
  BY DEF RecoverInterrupted
<1>7. \A t \in Task : tasks'[t] \in Row /\ RowOK(tasks'[t])
  BY <1>1, <1>3
<1>8. RowSound'
  BY <1>7 DEF RowSound
<1>9. tasks' \in [Task -> Row]
  BY <1>2, <1>3, <1>7
<1>10. \A t \in Task :
         /\ tasks'[t].status = Recovered(tasks[t].status, tasks[t].commit # NoCommit)
         /\ tasks'[t].status \notin Busy
         /\ tasks'[t].commit = tasks[t].commit
         /\ tasks'[t].exec = tasks[t].exec
  BY <1>1, <1>3
<1> QED
  BY <1>5, <1>6, <1>8, <1>9, <1>10

(* Every step is of one of these kinds. *)
LEMMA StepKinds ==
  ASSUME [Next]_vars
  PROVE  \/ \E t \in Task : RowStep(t)
         \/ \E t \in Task, k \in Message \cup Task : RecordCommand(k, t)
         \/ \E t \in Task, kind \in {"merge", "deploy"}, m \in Message :
              Approve(t, kind, m)
         \/ \E m \in Message : \/ ClaimApproval(m) \/ CallOperator(m)
                             \/ Completion(m) \/ Abandon(m)
         \/ Crash \/ RecoverInterrupted
         \/ UNCHANGED vars
<1>1. ASSUME Command
      PROVE  \/ \E t \in Task : RowStep(t)
             \/ \E t \in Task, k \in Message \cup Task : RecordCommand(k, t)
             \/ \E t \in Task, kind \in {"merge", "deploy"}, m \in Message :
                  Approve(t, kind, m)
  BY <1>1 DEF Command, RowStep, Approve
<1>2. ASSUME Execute PROVE \E t \in Task : RowStep(t)
  BY <1>2 DEF Execute, RowStep
<1>3. ASSUME Release
      PROVE  \E m \in Message : \/ ClaimApproval(m) \/ CallOperator(m)
                               \/ Completion(m) \/ Abandon(m)
  BY <1>3 DEF Release, Completion
<1> QED
  BY <1>1, <1>2, <1>3 DEF Next

(* A claim changes the result of one approval and takes the project's lock. *)
LEMMA ClaimEffect ==
  ASSUME TypeOK, ApprovalSound, NEW m \in Message, ClaimApproval(m),
         NEW t, t = approvals[m].task
  PROVE  /\ t \in Task /\ ProjectOf[t] \in Project
         /\ approvals[m].result = "approved" /\ approvals'[m].result = "executing"
         /\ tasks[t].status = ExecutingStatus(approvals[m].kind)
         /\ BoundCommit(approvals[m].kind, tasks[t]) = approvals[m].commit
         /\ approvals' \in [Message -> Approval]
         /\ \A n \in Message :
              /\ approvals'[n].task = approvals[n].task
              /\ approvals'[n].kind = approvals[n].kind
              /\ approvals'[n].commit = approvals[n].commit
              /\ n # m => approvals'[n] = approvals[n]
         /\ locks[ProjectOf[t]] = NoMessage
         /\ locks' = [locks EXCEPT ![ProjectOf[t]] = m]
         /\ claims' = [claims EXCEPT ![m] = "claimed"]
         /\ up /\ UNCHANGED <<tasks, lastApproval, processed, up, calls>>
<1> DEFINE b == [approvals[m] EXCEPT !.result = "executing"]
<1>1. approvals[m] \in Approval /\ approvals \in [Message -> Approval]
  BY DEF TypeOK
<1>2. /\ b \in Approval /\ b.task = approvals[m].task /\ b.kind = approvals[m].kind
      /\ b.commit = approvals[m].commit /\ b.result = "executing"
  BY <1>1 DEF Approval, Result
<1>3. approvals' = [approvals EXCEPT ![m] = b]
  BY DEF ClaimApproval
<1>4. t \in Task /\ ProjectOf[t] \in Project
  BY DEF ClaimApproval, ApprovalSound
<1> HIDE DEF b
<1>5. /\ approvals' \in [Message -> Approval] /\ approvals'[m] = b
      /\ \A n \in Message \ {m} : approvals'[n] = approvals[n]
  BY <1>1, <1>2, <1>3
<1> QED
  BY <1>2, <1>4, <1>5 DEF ClaimApproval

-----------------------------------------------------------------------------
(* Every step preserves each conjunct of the inductive invariant. *)

(* The types are preserved. *)
LEMMA TypeStep ==
  ASSUME IInv, [Next]_vars
  PROVE  TypeOK' /\ RowSound'
<1>1. TypeOK /\ RowSound /\ ApprovalSound
  BY DEF IInv
<1>2. ASSUME NEW t \in Task, RowStep(t) PROVE TypeOK' /\ RowSound'
  <2>1. PICK row \in Row : RowEffect(t, row)
    BY <1>1, <1>2, RowStepRow
  <2>2. tasks' \in [Task -> Row] /\ RowSound'
    BY <1>1, <2>1 DEF RowEffect, SetRow, TypeOK, RowSound
  <2>3. approvals' \in [Message -> Approval] /\ processed' \subseteq Message \cup Task
        /\ UNCHANGED <<lastApproval, locks, claims, up, calls>>
    BY <1>1, <1>2, RowStepFrame, SupersedingRows
  <2> QED
    BY <1>1, <2>2, <2>3 DEF TypeOK
<1>3. ASSUME NEW t \in Task, NEW kind \in {"merge", "deploy"}, NEW m \in Message,
             Approve(t, kind, m)
      PROVE  TypeOK' /\ RowSound'
  BY <1>1, <1>3, ApproveEffect, RecordedRows DEF TypeOK
<1>4. ASSUME NEW m \in Message, ClaimApproval(m) PROVE TypeOK' /\ RowSound'
  <2>1. /\ approvals' \in [Message -> Approval]
        /\ locks' \in [Project -> Message \cup {NoMessage}]
        /\ UNCHANGED <<tasks, lastApproval, processed, up, calls>>
    BY <1>1, <1>4, ClaimEffect DEF TypeOK, ClaimApproval
  <2>2. claims' \in [Message -> {"none", "claimed", "called"}]
    BY <1>1, <1>4 DEF TypeOK, ClaimApproval
  <2> QED
    BY <1>1, <2>1, <2>2 DEF TypeOK, RowSound
<1>5. ASSUME NEW m \in Message, Completion(m) PROVE TypeOK' /\ RowSound'
  <2>1. /\ approvals[m].task \in Task /\ approvals' \in [Message -> Approval]
        /\ tasks' \in [Task -> Row] /\ RowSound'
        /\ UNCHANGED <<lastApproval, processed, up, calls>>
    BY <1>5, CompletionEffect
  <2>2. /\ locks' \in [Project -> Message \cup {NoMessage}]
        /\ claims' \in [Message -> {"none", "claimed", "called"}]
    BY <1>1, <1>5, <2>1, CompletionEffect DEF TypeOK
  <2> QED
    BY <1>1, <2>1, <2>2 DEF TypeOK
<1>6. ASSUME NEW m \in Message, CallOperator(m) \/ Abandon(m)
      PROVE  TypeOK' /\ RowSound'
  BY <1>1, <1>6 DEF CallOperator, Abandon, TypeOK, RowSound
<1>7. ASSUME NEW t \in Task, NEW k \in Message \cup Task, RecordCommand(k, t)
      PROVE  TypeOK' /\ RowSound'
  BY <1>1, <1>7 DEF RecordCommand, ProcessMessage, TypeOK, RowSound
<1>8. CASE Crash
  BY <1>1, <1>8 DEF Crash, TypeOK, RowSound
<1>9. CASE RecoverInterrupted
  BY <1>1, <1>9, RecoveryEffect DEF TypeOK
<1>10. CASE UNCHANGED vars
  BY <1>1, <1>10 DEF vars, TypeOK, RowSound
<1> QED
  BY <1>2, <1>3, <1>4, <1>5, <1>6, <1>7, <1>8, <1>9, <1>10, StepKinds

(* Approvals belong to processed messages of administrators. *)
LEMMA ApprovalStep ==
  ASSUME IInv, [Next]_vars
  PROVE  ApprovalSound'
<1>1. TypeOK /\ RowSound /\ ApprovalSound
  BY DEF IInv
<1>2. ASSUME NEW t \in Task, RowStep(t) PROVE ApprovalSound'
  BY <1>1, <1>2, RowStepFrame, SupersedingRows DEF ApprovalSound, IsApproved
<1>3. ASSUME NEW t \in Task, NEW kind \in {"merge", "deploy"}, NEW m \in Message,
             Approve(t, kind, m)
      PROVE  ApprovalSound'
  BY <1>1, <1>3, ApproveEffect, RecordedRows DEF ApprovalSound, IsApproved
<1>4. ASSUME NEW m \in Message, ClaimApproval(m) PROVE ApprovalSound'
  BY <1>1, <1>4, ClaimEffect DEF ApprovalSound
<1>5. ASSUME NEW m \in Message, Completion(m) PROVE ApprovalSound'
  BY <1>1, <1>5, CompletionEffect DEF ApprovalSound
<1>6. ASSUME NEW m \in Message, CallOperator(m) \/ Abandon(m) PROVE ApprovalSound'
  BY <1>1, <1>6 DEF CallOperator, Abandon, ApprovalSound
<1>7. ASSUME NEW t \in Task, NEW k \in Message \cup Task, RecordCommand(k, t)
      PROVE  ApprovalSound'
  BY <1>1, <1>7 DEF RecordCommand, ProcessMessage, ApprovalSound
<1>8. CASE Crash
  BY <1>1, <1>8 DEF Crash, ApprovalSound
<1>9. CASE RecoverInterrupted
  BY <1>1, <1>9 DEF RecoverInterrupted, ApprovalSound
<1>10. CASE UNCHANGED vars
  BY <1>1, <1>10 DEF vars, ApprovalSound
<1> QED
  BY <1>2, <1>3, <1>4, <1>5, <1>6, <1>7, <1>8, <1>9, <1>10, StepKinds

(* A lock survives only steps that leave its task alone: the row steps and   *)
(* the approval commands all start outside merging and deploying.            *)
LEMMA LockStep ==
  ASSUME IInv, [Next]_vars
  PROVE  LockSound'
<1>1. TypeOK /\ RowSound /\ ApprovalSound /\ LockSound
  BY DEF IInv
<1> USE DEF ExecutingStatus, BoundCommit
<1>2. ASSUME NEW t \in Task, RowStep(t) PROVE LockSound'
  <2>1. PICK row \in Row : RowEffect(t, row)
    BY <1>1, <1>2, RowStepRow
  <2>2. tasks[t].status \notin Busy /\ \A u \in Task \ {t} : tasks'[u] = tasks[u]
    BY <1>1, <2>1 DEF RowEffect, SetRow, TypeOK
  <2>3. /\ locks' = locks
        /\ \A m \in Message :
             /\ approvals'[m].task = approvals[m].task
             /\ approvals'[m].kind = approvals[m].kind
             /\ approvals'[m].commit = approvals[m].commit
             /\ approvals[m].result = "executing" => approvals'[m].result = "executing"
    BY <1>1, <1>2, RowStepFrame, SupersedingRows DEF IsApproved
  <2> SUFFICES ASSUME NEW p \in Project, locks[p] # NoMessage
               PROVE  /\ approvals'[locks[p]].result = "executing"
                      /\ approvals'[locks[p]].task \in Task
                      /\ ProjectOf[approvals'[locks[p]].task] = p
                      /\ tasks'[approvals'[locks[p]].task].status =
                           ExecutingStatus(approvals'[locks[p]].kind)
                      /\ BoundCommit(approvals'[locks[p]].kind,
                                     tasks'[approvals'[locks[p]].task])
                           = approvals'[locks[p]].commit
    BY <2>3 DEF LockSound
  <2> DEFINE m == locks[p]
             a == approvals[m]
  <2>4. /\ m \in Message /\ a.result = "executing" /\ a.task \in Task
        /\ ProjectOf[a.task] = p /\ tasks[a.task].status = ExecutingStatus(a.kind)
        /\ BoundCommit(a.kind, tasks[a.task]) = a.commit
    BY <1>1 DEF LockSound, TypeOK
  <2>5. ExecutingStatus(a.kind) \in Busy
    BY DEF Busy
  <2>6. tasks'[a.task] = tasks[a.task]
    BY <2>2, <2>4, <2>5
  <2>7. /\ approvals'[m].task = a.task /\ approvals'[m].kind = a.kind
        /\ approvals'[m].commit = a.commit /\ approvals'[m].result = "executing"
    BY <2>3, <2>4
  <2> QED
    BY <2>4, <2>6, <2>7
<1>3. ASSUME NEW t \in Task, NEW kind \in {"merge", "deploy"}, NEW m \in Message,
             Approve(t, kind, m)
      PROVE  LockSound'
  <2>1. /\ tasks[t].status \notin Busy /\ \A u \in Task \ {t} : tasks'[u] = tasks[u]
        /\ m \notin processed /\ locks' = locks
        /\ RecordApproval(t, kind, m)
    BY <1>1, <1>3, ApproveEffect
  <2>2. \A n \in Message : approvals[n].result = "executing" =>
          /\ approvals'[n].task = approvals[n].task
          /\ approvals'[n].kind = approvals[n].kind
          /\ approvals'[n].commit = approvals[n].commit
          /\ approvals'[n].result = "executing"
    <3>1. approvals[m].result = "none"
      BY <1>1, <2>1 DEF ApprovalSound
    <3> QED
      BY <1>1, <2>1, <3>1, RecordedRows DEF IsApproved
  <2> QED
    BY <1>1, <2>1, <2>2 DEF LockSound, TypeOK, Busy
<1>4. ASSUME NEW m \in Message, ClaimApproval(m) PROVE LockSound'
  <2> DEFINE t == approvals[m].task
  <2>1. \A p \in Project \ {ProjectOf[t]} : locks'[p] = locks[p]
    BY <1>1, <1>4, ClaimEffect DEF TypeOK
  <2>2. locks'[ProjectOf[t]] = m
    BY <1>1, <1>4, ClaimEffect DEF TypeOK
  <2>3. \A p \in Project : locks[p] # m
    BY <1>1, <1>4, ClaimEffect DEF LockSound, TypeOK
  <2> QED
    BY <1>1, <1>4, <2>1, <2>2, <2>3, ClaimEffect DEF LockSound, TypeOK
<1>5. ASSUME NEW m \in Message, Completion(m) PROVE LockSound'
  <2> DEFINE t == approvals[m].task
  <2>1. /\ t \in Task /\ \A u \in Task \ {t} : tasks'[u] = tasks[u]
        /\ \A n \in Message :
              /\ approvals'[n].task = approvals[n].task
              /\ approvals'[n].kind = approvals[n].kind
              /\ approvals'[n].commit = approvals[n].commit
              /\ n # m => approvals'[n] = approvals[n]
        /\ locks' = [locks EXCEPT ![ProjectOf[t]] = NoMessage]
    BY <1>5, CompletionEffect
  <2>2. /\ locks'[ProjectOf[t]] = NoMessage
        /\ \A p \in Project \ {ProjectOf[t]} : locks'[p] = locks[p]
    BY <1>1, <2>1 DEF TypeOK
  <2>3. ASSUME NEW p \in Project \ {ProjectOf[t]}, locks[p] # NoMessage
        PROVE  locks[p] # m /\ approvals[locks[p]].task # t
    BY <1>1, <2>3 DEF LockSound
  <2> QED
    BY <1>1, <2>1, <2>2, <2>3 DEF LockSound, TypeOK
<1>6. ASSUME NEW m \in Message, CallOperator(m) \/ Abandon(m) PROVE LockSound'
  BY <1>1, <1>6 DEF CallOperator, Abandon, LockSound
<1>7. ASSUME NEW t \in Task, NEW k \in Message \cup Task, RecordCommand(k, t)
      PROVE  LockSound'
  BY <1>1, <1>7 DEF RecordCommand, LockSound
<1>8. CASE Crash
  BY <1>1, <1>8 DEF Crash, LockSound
<1>9. CASE RecoverInterrupted
  BY <1>9, RecoveryEffect DEF LockSound
<1>10. CASE UNCHANGED vars
  BY <1>1, <1>10 DEF vars, LockSound
<1> QED
  BY <1>2, <1>3, <1>4, <1>5, <1>6, <1>7, <1>8, <1>9, <1>10, StepKinds

(* Workers keep the lock of the approval they execute. *)
LEMMA ClaimStep ==
  ASSUME IInv, [Next]_vars
  PROVE  ClaimSound'
<1>1. TypeOK /\ RowSound /\ ApprovalSound /\ LockSound /\ ClaimSound
  BY DEF IInv
<1>2. ASSUME NEW t \in Task, RowStep(t) PROVE ClaimSound'
  BY <1>1, <1>2, RowStepFrame, SupersedingRows DEF ClaimSound
<1>3. ASSUME NEW t \in Task, NEW kind \in {"merge", "deploy"}, NEW m \in Message,
             Approve(t, kind, m)
      PROVE  ClaimSound'
  <2>1. approvals[m].result = "none" /\ UNCHANGED <<locks, claims, up>>
    BY <1>1, <1>3, ApproveEffect DEF ApprovalSound
  <2>2. claims[m] = "none"
    BY <1>1, <2>1 DEF ClaimSound, LockSound, TypeOK
  <2> QED
    BY <1>1, <1>3, <2>1, <2>2, ApproveEffect, RecordedRows DEF ClaimSound
<1>4. ASSUME NEW m \in Message, ClaimApproval(m) PROVE ClaimSound'
  <2>1. \A n \in Message \ {m} : claims'[n] = claims[n]
    BY <1>1, <1>4, ClaimEffect DEF TypeOK
  <2> QED
    BY <1>1, <1>4, <2>1, ClaimEffect DEF ClaimSound, TypeOK
<1>5. ASSUME NEW m \in Message, Completion(m) PROVE ClaimSound'
  <2> DEFINE t == approvals[m].task
  <2>1. /\ t \in Task /\ locks[ProjectOf[t]] = m /\ up' = up
        /\ \A n \in Message : approvals'[n].task = approvals[n].task
        /\ locks' = [locks EXCEPT ![ProjectOf[t]] = NoMessage]
        /\ claims' = [claims EXCEPT ![m] = "none"]
    BY <1>5, CompletionEffect
  <2>2. /\ claims'[m] = "none"
        /\ \A n \in Message \ {m} : claims'[n] = claims[n]
        /\ \A p \in Project \ {ProjectOf[t]} : locks'[p] = locks[p]
    BY <1>1, <2>1 DEF TypeOK
  <2> QED
    BY <1>1, <2>1, <2>2 DEF ClaimSound
<1>6. ASSUME NEW m \in Message, CallOperator(m) \/ Abandon(m) PROVE ClaimSound'
  BY <1>1, <1>6 DEF CallOperator, Abandon, ClaimSound, TypeOK
<1>7. ASSUME NEW t \in Task, NEW k \in Message \cup Task, RecordCommand(k, t)
      PROVE  ClaimSound'
  BY <1>1, <1>7 DEF RecordCommand, ClaimSound
<1>8. CASE Crash
  BY <1>8 DEF Crash, ClaimSound
<1>9. CASE RecoverInterrupted
  BY <1>1, <1>9 DEF RecoverInterrupted, ClaimSound
<1>10. CASE UNCHANGED vars
  BY <1>1, <1>10 DEF vars, ClaimSound
<1> QED
  BY <1>2, <1>3, <1>4, <1>5, <1>6, <1>7, <1>8, <1>9, <1>10, StepKinds

(* A called approval is never fresh again. *)
LEMMA CallStep ==
  ASSUME IInv, [Next]_vars
  PROVE  CallSound'
<1>1. TypeOK /\ RowSound /\ ApprovalSound /\ LockSound /\ ClaimSound /\ CallSound
  BY DEF IInv
<1>2. ASSUME NEW t \in Task, RowStep(t) PROVE CallSound'
  BY <1>1, <1>2, RowStepFrame, SupersedingRows DEF CallSound, IsApproved
<1>3. ASSUME NEW t \in Task, NEW kind \in {"merge", "deploy"}, NEW m \in Message,
             Approve(t, kind, m)
      PROVE  CallSound'
  <2>1. calls[m] = 0
    BY <1>1, <1>3, ApproveEffect DEF ApprovalSound, CallSound, TypeOK
  <2> QED
    BY <1>1, <1>3, <2>1, ApproveEffect, RecordedRows DEF CallSound, IsApproved
<1>4. ASSUME NEW m \in Message, ClaimApproval(m) PROVE CallSound'
  <2>1. calls[m] = 0
    BY <1>1, <1>4, ClaimEffect DEF CallSound, TypeOK
  <2> QED
    BY <1>1, <1>4, <2>1, ClaimEffect DEF CallSound, TypeOK
<1>5. ASSUME NEW m \in Message, Completion(m) PROVE CallSound'
  BY <1>1, <1>5, CompletionEffect DEF CallSound, TypeOK
<1>6. ASSUME NEW m \in Message, CallOperator(m) PROVE CallSound'
  <2>1. calls[m] = 0 /\ approvals[m].result = "executing"
    BY <1>1, <1>6 DEF CallOperator, CallSound, ClaimSound, LockSound, TypeOK
  <2> QED
    BY <1>1, <1>6, <2>1 DEF CallOperator, CallSound, TypeOK
<1>7. ASSUME NEW m \in Message, Abandon(m) PROVE CallSound'
  BY <1>1, <1>7 DEF Abandon, CallSound, TypeOK
<1>8. ASSUME NEW t \in Task, NEW k \in Message \cup Task, RecordCommand(k, t)
      PROVE  CallSound'
  BY <1>1, <1>8 DEF RecordCommand, CallSound
<1>9. CASE Crash
  BY <1>1, <1>9 DEF Crash, CallSound
<1>10. CASE RecoverInterrupted
  BY <1>1, <1>10 DEF RecoverInterrupted, CallSound
<1>11. CASE UNCHANGED vars
  BY <1>1, <1>11 DEF vars, CallSound
<1> QED
  BY <1>2, <1>3, <1>4, <1>5, <1>6, <1>7, <1>8, <1>9, <1>10, <1>11, StepKinds

(* No step adds a second claimable approval beside a first. *)
LEMMA LiveStep ==
  ASSUME IInv, [Next]_vars
  PROVE  OneLiveApproval'
<1>1. TypeOK /\ RowSound /\ ApprovalSound /\ OneLiveApproval
  BY DEF IInv
<1>2. ASSUME NEW t \in Task, RowStep(t) PROVE OneLiveApproval'
  BY <1>1, <1>2, RowStepFrame, SupersedingRows DEF OneLiveApproval, IsApproved
<1>3. ASSUME NEW t \in Task, NEW kind \in {"merge", "deploy"}, NEW m \in Message,
             Approve(t, kind, m)
      PROVE  OneLiveApproval'
  BY <1>1, <1>3, ApproveEffect, RecordedRows DEF OneLiveApproval, IsApproved
<1>4. ASSUME NEW m \in Message, ClaimApproval(m) PROVE OneLiveApproval'
  BY <1>1, <1>4, ClaimEffect DEF OneLiveApproval, IsApproved
<1>5. ASSUME NEW m \in Message, Completion(m) PROVE OneLiveApproval'
  BY <1>1, <1>5, CompletionEffect DEF OneLiveApproval, IsApproved
<1>6. CASE UNCHANGED approvals
  BY <1>1, <1>6 DEF OneLiveApproval, IsApproved
<1> QED
  BY <1>2, <1>3, <1>4, <1>5, <1>6, StepKinds
     DEF RecordCommand, CallOperator, Abandon, Crash, RecoverInterrupted, vars

(* A task that is executing keeps the approval that can end it. *)
LEMMA HasApprovalStep ==
  ASSUME IInv, [Next]_vars
  PROVE  ReleaseHasApproval'
<1>1. TypeOK /\ RowSound /\ ApprovalSound /\ LockSound /\ ReleaseHasApproval
  BY DEF IInv
<1> DEFINE Backed(t, kind) ==
             \E m \in Message :
               /\ approvals[m].task = t /\ approvals[m].kind = kind
               /\ approvals[m].commit = BoundCommit(kind, tasks[t])
               /\ approvals[m].result = "approved" \/ locks[ProjectOf[t]] = m
<1> SUFFICES ASSUME NEW t \in Task, NEW kind \in {"merge", "deploy"},
                    (tasks[t].status)' = ExecutingStatus(kind)
             PROVE  Backed(t, kind)'
  BY DEF ReleaseHasApproval, ExecutingStatus
<1>2. ASSUME tasks'[t] = tasks[t]
      PROVE  \E m \in Message :
               /\ approvals[m].task = t /\ approvals[m].kind = kind
               /\ approvals[m].commit = BoundCommit(kind, tasks'[t])
               /\ approvals[m].result = "approved" \/ locks[ProjectOf[t]] = m
  BY <1>1, <1>2 DEF ReleaseHasApproval
<1> ExecutingStatus(kind) \in Busy
  BY DEF ExecutingStatus, Busy
<1>3. ASSUME NEW u \in Task, RowStep(u) PROVE Backed(t, kind)'
  <2>1. PICK row \in Row : RowEffect(u, row)
    BY <1>1, <1>3, RowStepRow
  <2>2. t # u /\ tasks'[t] = tasks[t]
    BY <1>1, <2>1 DEF RowEffect, SetRow, TypeOK
  <2> QED
    BY <1>1, <1>2, <1>3, <2>2, RowStepFrame, SupersedingRows DEF IsApproved
<1>4. ASSUME NEW u \in Task, NEW k \in {"merge", "deploy"}, NEW m \in Message,
             Approve(u, k, m)
      PROVE  Backed(t, kind)'
  <2>1. CASE t = u
    BY <1>1, <1>4, <2>1, ApproveEffect, RecordedRows DEF ExecutingStatus
  <2>2. CASE t # u
    <3>1. tasks'[t] = tasks[t] /\ locks' = locks /\ approvals[m].result = "none"
      BY <1>1, <1>4, <2>2, ApproveEffect DEF ApprovalSound
    <3>2. locks[ProjectOf[t]] # m
      BY <1>1, <3>1 DEF LockSound, TypeOK
    <3> QED
      BY <1>1, <1>2, <1>4, <2>2, <3>1, <3>2, ApproveEffect, RecordedRows
         DEF IsApproved
  <2> QED
    BY <2>1, <2>2
<1>5. ASSUME NEW m \in Message, ClaimApproval(m) PROVE Backed(t, kind)'
  <2>1. PICK n \in Message :
             /\ approvals[n].task = t /\ approvals[n].kind = kind
             /\ approvals[n].commit = BoundCommit(kind, tasks'[t])
             /\ approvals[n].result = "approved" \/ locks[ProjectOf[t]] = n
    BY <1>1, <1>2, <1>5, ClaimEffect
  <2>2. /\ locks'[ProjectOf[approvals[m].task]] = m
        /\ \A p \in Project : locks[p] # NoMessage => locks'[p] = locks[p]
    BY <1>1, <1>5, ClaimEffect DEF TypeOK
  <2> QED
    BY <1>1, <1>5, <2>1, <2>2, ClaimEffect
<1>6. ASSUME NEW m \in Message, Completion(m) PROVE Backed(t, kind)'
  <2> DEFINE u == approvals[m].task
  <2>1. /\ u \in Task /\ tasks'[u].status \in Released
        /\ t # u => tasks'[t] = tasks[t]
        /\ \A n \in Message :
              /\ approvals'[n].task = approvals[n].task
              /\ approvals'[n].kind = approvals[n].kind
              /\ approvals'[n].commit = approvals[n].commit
              /\ n # m => approvals'[n] = approvals[n]
        /\ locks[ProjectOf[u]] = m
        /\ locks' = [locks EXCEPT ![ProjectOf[u]] = NoMessage]
    BY <1>6, CompletionEffect
  <2>2. t # u
    BY <2>1 DEF Released, Busy
  <2>3. \A p \in Project : locks[p] # m => locks'[p] = locks[p]
    BY <1>1, <2>1 DEF TypeOK
  <2> QED
    BY <1>2, <2>1, <2>2, <2>3
<1>7. CASE UNCHANGED <<tasks, approvals, locks>>
  BY <1>2, <1>7
<1>8. CASE RecoverInterrupted
  BY <1>8, RecoveryEffect
<1> QED
  BY <1>3, <1>4, <1>5, <1>6, <1>7, <1>8, StepKinds
     DEF RecordCommand, CallOperator, Abandon, Crash, vars

(* The whole invariant is inductive. *)
LEMMA IInvStep == IInv /\ [Next]_vars => IInv'
BY TypeStep, ApprovalStep, LockStep, ClaimStep, CallStep, LiveStep,
   HasApprovalStep DEF IInv

-----------------------------------------------------------------------------
(* The theorems. *)

(* The inductive invariant holds in every reachable state. *)
THEOREM Invariance == Spec => []IInv
<1>1. Init => IInv
  BY InitIInv
<1>2. IInv /\ [Next]_vars => IInv'
  BY IInvStep
<1> QED
  BY <1>1, <1>2, PTL DEF Spec

(* The variables always have their types. *)
THEOREM TypeCorrect == Spec => []TypeOK
<1>1. IInv => TypeOK
  BY DEF IInv
<1> QED
  BY <1>1, Invariance, PTL

(* A locked project is merging or deploying exactly what was approved. *)
THEOREM LocksAreSound == Spec => []LockSound
<1>1. IInv => LockSound
  BY DEF IInv
<1> QED
  BY <1>1, Invariance, PTL

(* No project ever has two approvals in execution. *)
THEOREM ReleasesAreExclusive == Spec => []OneReleasePerProject
<1>1. IInv => OneReleasePerProject
  BY DEF IInv, ClaimSound, OneReleasePerProject
<1> QED
  BY <1>1, Invariance, PTL

(* No approval leads to a second call of the operator. *)
THEOREM NoSecondCall == Spec => []CalledAtMostOnce
<1>1. IInv => CalledAtMostOnce
  BY DEF IInv, CallSound, CalledAtMostOnce
<1> QED
  BY <1>1, Invariance, PTL

(* At most one approval of a task and kind can still be claimed. *)
THEOREM ApprovalsDoNotCompete == Spec => []OneLiveApproval
<1>1. IInv => OneLiveApproval
  BY DEF IInv
<1> QED
  BY <1>1, Invariance, PTL

(* Releases run under the lock of their project, one at a time, and no two   *)
(* approvals of a task compete for it.                                       *)
THEOREM ReleasesAreLocked == Spec => []ReleaseIsLocked
  BY LocksAreSound, ReleasesAreExclusive, ApprovalsDoNotCompete, PTL DEF ReleaseIsLocked

(* A task in merging or deploying always has the approval that ends it. *)
THEOREM ReleasesCanEnd == Spec => []ReleaseHasApproval
<1>1. IInv => ReleaseHasApproval
  BY DEF IInv
<1> QED
  BY <1>1, Invariance, PTL

(* A queued task is never half prepared. *)
THEOREM QueuedTasksResume == Spec => []QueuedIsResumable
<1>1. IInv => QueuedIsResumable
  BY DEF IInv, RowSound, RowOK, QueuedIsResumable
<1> QED
  BY <1>1, Invariance, PTL

(* The commits that the later stages use are present. *)
THEOREM RowsAreComplete == Spec => []CommitsPresent
<1>1. IInv => CommitsPresent
  BY DEF IInv, RowSound, RowOK, CommitsPresent
<1> QED
  BY <1>1, Invariance, PTL

(* Every row can go on from the status it is in. *)
THEOREM NoRowIsStranded == Spec => []RowsCanGoOn
  BY ReleasesCanEnd, QueuedTasksResume, RowsAreComplete, PTL DEF RowsCanGoOn

(* Every status change, of the recovery too, is one of the table. *)
LEMMA StatusStep ==
  ASSUME IInv, [Next]_vars, NEW t \in Task
  PROVE  LegalStatusChange(t)
<1>1. TypeOK /\ RowSound
  BY DEF IInv
<1>2. ASSUME NEW u \in Task, RowStep(u) PROVE LegalStatusChange(t)
  <2>1. PICK row \in Row : RowEffect(u, row)
    BY <1>1, <1>2, RowStepRow
  <2>2. tasks'[u] = row /\ (t # u => tasks'[t] = tasks[t])
    BY <1>1, <2>1 DEF RowEffect, SetRow, TypeOK
  <2> DEFINE moved(s) == [tasks[u] EXCEPT !.status = s]
  <2>3. tasks[u] \in Row /\ \A s : moved(s).status = s
    BY <1>1 DEF TypeOK, Row
  <2>4. ASSUME NEW s, SetStatus(u, s)
        PROVE  CanTransition(tasks[u].status, tasks'[u].status)
    BY <1>1, <2>3, <2>4 DEF SetStatus, SetRow, TypeOK
  <2>5. CASE \/ \E next \in {"awaiting_confirmation", "failed"} : FinishPlanning(u, next)
             \/ \E m \in Message : Confirm(u, m) \/ Cancel(u, m)
             \/ ClaimTask(u) \/ StartChecks(u) \/ RecordPush(u)
             \/ AwaitMergeApproval(u) \/ FailTask(u) \/ AwaitDeployApproval(u)
    <3>1. CanTransition(tasks[u].status, tasks'[u].status)
      BY <2>4, <2>5 DEF FinishPlanning, Confirm, Cancel, ClaimTask, StartChecks,
           RecordPush, AwaitMergeApproval, FailTask, AwaitDeployApproval
    <3> QED
      BY <2>2, <3>1 DEF LegalStatusChange
  <2>6. CASE \/ CheckpointPrepared(u) \/ CheckpointSession(u)
             \/ \E c \in Commit : CheckpointCommit(u, c)
    <3>1. /\ \A e : [tasks[u] EXCEPT !.exec = e].status = tasks[u].status
          /\ \A c : [tasks[u] EXCEPT !.commit = c].status = tasks[u].status
      BY <2>3 DEF Row
    <3>2. \/ \E e : SetRow(u, [tasks[u] EXCEPT !.exec = e])
          \/ \E c : SetRow(u, [tasks[u] EXCEPT !.commit = c])
      BY <2>6 DEF CheckpointPrepared, CheckpointSession, CheckpointCommit
    <3>3. \A r : SetRow(u, r) => tasks'[u] = r
      BY <1>1 DEF SetRow, TypeOK
    <3>4. tasks'[u].status = tasks[u].status
      BY <3>1, <3>2, <3>3
    <3> QED
      BY <2>2, <3>4 DEF LegalStatusChange
  <2>7. CASE CreateDraft(u)
    <3>1. tasks[u].status = "absent" /\ tasks'[u].status = "draft"
      BY <1>1, <2>3, <2>7 DEF CreateDraft, SetRow, TypeOK
    <3> QED
      BY <2>2, <3>1 DEF LegalStatusChange
  <2>8. CASE Block(u) \/ \E m \in Message : Supplement(u, m)
    <3>1. /\ [tasks[u] EXCEPT !.status = "blocked",
                               !.exec = "session"].status = "blocked"
          /\ [tasks[u] EXCEPT !.status = "queued", !.commit = NoCommit,
                               !.rc = NoCommit].status = "queued"
      BY <2>3 DEF Row
    <3>2. CanTransition(tasks[u].status, tasks'[u].status)
      BY <1>1, <2>8, <3>1 DEF Block, Supplement, SetRow, TypeOK, CanTransition
    <3> QED
      BY <2>2, <3>2 DEF LegalStatusChange
  <2> QED
    BY <1>2, <2>5, <2>6, <2>7, <2>8 DEF RowStep
<1>3. ASSUME NEW u \in Task, NEW kind \in {"merge", "deploy"}, NEW m \in Message,
             Approve(u, kind, m)
      PROVE  LegalStatusChange(t)
  <2>1. CanTransition(tasks[u].status, ExecutingStatus(kind))
    BY <1>3 DEF Approve, ApproveMerge, ApproveDeploy, CanTransition, ExecutingStatus
  <2> QED
    BY <1>1, <1>3, <2>1, ApproveEffect DEF LegalStatusChange
<1>4. ASSUME NEW m \in Message, Completion(m) PROVE LegalStatusChange(t)
  BY <1>4, CompletionEffect DEF LegalStatusChange
<1>5. CASE UNCHANGED tasks
  BY <1>5 DEF LegalStatusChange
<1>6. CASE RecoverInterrupted
  <2>1. tasks'[t].status = Recovered(tasks[t].status, tasks[t].commit # NoCommit)
    BY <1>6, RecoveryEffect
  <2> QED
    BY <2>1 DEF LegalStatusChange, Recovered, Interrupted, CanTransition
<1> QED
  BY <1>2, <1>3, <1>4, <1>5, <1>6, StepKinds
     DEF RecordCommand, ClaimApproval, CallOperator, Abandon, Crash, vars

(* No action and no recovery ever changes a status against the table. *)
THEOREM StatusesFollowTheTable == Spec => StatusMachine
<1>1. IInv /\ [Next]_vars => [\A t \in Task : LegalStatusChange(t)]_vars
  BY StatusStep
<1> QED
  BY <1>1, Invariance, PTL DEF Spec, StatusMachine

(* The operator is called only for what an administrator approved. *)
LEMMA CallIsAuthorised ==
  ASSUME IInv, [Next]_vars, NEW m \in Message, calls'[m] # calls[m]
  PROVE  AuthorisedCall(m)
<1>1. TypeOK /\ RowSound /\ ApprovalSound /\ LockSound /\ ClaimSound
  BY DEF IInv
<1>2. CallOperator(m)
  <2>1. ASSUME NEW t \in Task, RowStep(t) PROVE calls' = calls
    BY <1>1, <2>1, RowStepFrame
  <2>2. ASSUME NEW n \in Message, Completion(n) PROVE calls' = calls
    BY <2>2, CompletionEffect
  <2>3. ASSUME NEW t \in Task, NEW kind \in {"merge", "deploy"}, NEW n \in Message,
               Approve(t, kind, n)
        PROVE  calls' = calls
    BY <2>3 DEF Approve, ApproveMerge, ApproveDeploy
  <2>4. \E n \in Message : CallOperator(n)
    BY <2>1, <2>2, <2>3, StepKinds
       DEF RecordCommand, ClaimApproval, Abandon, Crash, RecoverInterrupted, vars
  <2> QED
    BY <1>1, <2>4 DEF CallOperator, TypeOK
<1>3. /\ locks[ProjectOf[approvals[m].task]] = m /\ approvals[m].task \in Task
      /\ ProjectOf[approvals[m].task] \in Project /\ approvals[m] \in Approval
  BY <1>1, <1>2 DEF CallOperator, ClaimSound, TypeOK
<1>4. approvals[m].result = "executing" /\ Sender[m] \in Admin
  BY <1>1, <1>3 DEF LockSound, ApprovalSound
<1>5. RowOK(tasks[approvals[m].task])
  BY <1>1, <1>3 DEF RowSound
<1>6. calls[m] = 0 /\ calls'[m] = 1
  BY <1>1, <1>2 DEF IInv, CallSound, CallOperator, TypeOK
<1> QED
  BY <1>2, <1>3, <1>4, <1>5, <1>6
     DEF AuthorisedCall, CallOperator, RowOK, ExecutingStatus, BoundCommit, Approval

(* The operator runs only what an administrator approved for that commit,    *)
(* and runs it once.                                                         *)
THEOREM CallsAreAuthorised == Spec => CallsAuthorised
<1>1. IInv /\ [Next]_vars =>
        [\A m \in Message : calls'[m] # calls[m] => AuthorisedCall(m)]_vars
  BY CallIsAuthorised
<1> QED
  BY <1>1, Invariance, PTL DEF Spec, CallsAuthorised

(* A restart releases every project and resolves every interrupted task. *)
LEMMA RecoveryIsClean ==
  ASSUME IInv, [Next]_vars, ~up, up'
  PROVE  /\ \A p \in Project : locks'[p] = NoMessage
         /\ \A t \in Task : ~ Interrupted(tasks'[t].status,
                                          tasks'[t].commit # NoCommit)
<1>1. RecoverInterrupted
  <2>1. ASSUME NEW t \in Task, RowStep(t) PROVE up' = up
    BY <2>1, RowStepFrame DEF IInv
  <2>2. ASSUME NEW m \in Message, Completion(m) PROVE up' = up
    BY <2>2, CompletionEffect
  <2> QED
    BY <2>1, <2>2, StepKinds
       DEF RecordCommand, Approve, ApproveMerge, ApproveDeploy, ClaimApproval,
           CallOperator, Abandon, Crash, vars
<1>2. \A t \in Task :
        /\ tasks'[t].status = Recovered(tasks[t].status, tasks[t].commit # NoCommit)
        /\ tasks'[t].commit = tasks[t].commit
  BY <1>1, RecoveryEffect
<1>3. \A t \in Task : ~ Interrupted(tasks'[t].status, tasks'[t].commit # NoCommit)
  BY <1>2 DEF Recovered, Interrupted
<1> QED
  BY <1>1, <1>3, RecoveryEffect

(* After every restart all projects are free and no task is left behind. *)
THEOREM RestartsAreClean == Spec => RestartClean
<1>1. IInv /\ [Next]_vars =>
        [~up /\ up' =>
           /\ \A p \in Project : locks'[p] = NoMessage
           /\ \A t \in Task : ~ Interrupted(tasks'[t].status,
                                            tasks'[t].commit # NoCommit)]_vars
  BY RecoveryIsClean
<1> QED
  BY <1>1, Invariance, PTL DEF Spec, RestartClean

=============================================================================
