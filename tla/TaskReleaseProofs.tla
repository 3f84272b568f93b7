-------------------------- MODULE TaskReleaseProofs --------------------------
(***************************************************************************)
(* Proofs about TaskRelease for any number of tasks, messages, projects,   *)
(* pushers and faults.  The inductive invariant IInv has one lemma for     *)
(* each of its conjuncts; the theorems about the properties follow, and    *)
(* the last part shows that every step is a transaction of TaskLedger or   *)
(* invisible to it.                                                        *)
(***************************************************************************)
EXTENDS TaskRelease, TLAPS

USE ReleaseConstants

RowType == [status : Status, commit : Commit \cup {NoCommit},
            rc : RcCommit \cup {NoCommit}, key : RcCommit \cup {NoCommit}]

-----------------------------------------------------------------------------
(* RC commits are closed under adding what a merge or another pusher adds. *)
LEMMA RcCommitGrows ==
  ASSUME NEW h \in RcCommit
  PROVE  /\ \A t \in Task : h \cup {TaskCommit[t]} \in RcCommit
         /\ \A c \in Foreign : h \cup {c} \in RcCommit
<1> DEFINE All == {TaskCommit[t] : t \in Task} \cup Foreign
<1> HIDE DEF All
<1>1. PICK s \in SUBSET All : h = {Base} \cup s
  BY DEF RcCommit, All
<1>2. \A c \in All : s \cup {c} \in SUBSET All /\ h \cup {c} = {Base} \cup (s \cup {c})
  BY <1>1
<1>3. \A c \in All : h \cup {c} \in RcCommit
  BY <1>2 DEF RcCommit, All
<1> QED
  BY <1>3 DEF All

(* The copies of different tasks, and of different readers, are different. *)
LEMMA CopiesDiffer ==
  /\ \A t, u \in Task : t # ScanItem(u) /\ t # W(u) /\ ScanItem(t) # W(u)
  /\ \A t, u \in Task : t # u => ScanItem(t) # ScanItem(u) /\ W(t) # W(u)
<1>1. \A t, u \in Task : ScanItem(t) # W(u)
  BY DEF ScanItem, W
<1>2. \A t, u \in Task : t # u => ScanItem(t) # ScanItem(u) /\ W(t) # W(u)
  BY DEF ScanItem, W
<1>3. \A t, u \in Task : t # ScanItem(u) /\ t # W(u)
  <2> SUFFICES ASSUME NEW t \in Task, NEW u \in Task, t = ScanItem(u) \/ t = W(u)
               PROVE  FALSE
    OBVIOUS
  <2>1. t \in {"scan", "worker"} \X Task
    BY DEF ScanItem, W
  <2> QED
    BY <2>1
<1> QED
  BY <1>1, <1>2, <1>3

(* A save replaces one row and makes the other copies of it stale. *)
LEMMA SaveEffect ==
  ASSUME Typing, NEW t \in Task, NEW x \in Copies(t), NEW row \in RowType,
         Save(x, t, row)
  PROVE  /\ x \in current
         /\ rows' \in [Task -> RowType] /\ rows'[t] = row
         /\ \A u \in Task \ {t} : rows'[u] = rows[u]
         /\ current' \subseteq current
         /\ \A u \in Task \ {t} : \A y \in Copies(u) : y \in current => y \in current'
         /\ \A y \in Copies(t) : y \in current' <=> y = x
<1>1. /\ x \in current /\ rows' = [rows EXCEPT ![t] = row]
      /\ current' = (current \ Copies(t)) \cup {x}
  BY DEF Save
<1>2. rows \in [Task -> RowType]
  BY DEF Typing, TypeOK, RowType
<1>3. \A u \in Task \ {t} : \A y \in Copies(u) : y \notin Copies(t)
  BY CopiesDiffer DEF Copies
<1> QED
  BY <1>1, <1>2, <1>3

(* A row whose status alone changes. *)
LEMMA MovedRow ==
  ASSUME Typing, NEW t \in Task, NEW next \in Status
  PROVE  /\ Moved(t, next) \in RowType /\ Moved(t, next).status = next
         /\ Moved(t, next).commit = rows[t].commit
         /\ Moved(t, next).rc = rows[t].rc /\ Moved(t, next).key = rows[t].key
<1>1. rows[t] \in RowType
  BY DEF Typing, TypeOK, RowType
<1> QED
  BY <1>1 DEF Moved, RowType

(* Approvals that are replaced keep everything but an approved result. *)
LEMMA ReplacedRows ==
  ASSUME Typing, NEW t \in Task, NEW kind \in {"merge", "deploy"},
         NEW r \in {"superseded", "superseded_by_new_commit"}
  PROVE  /\ Replaced(t, kind, r) \in [Message -> Ledger!Approval]
         /\ \A m \in Message :
              LET b == Replaced(t, kind, r)[m] IN
              /\ b.task = approvals[m].task /\ b.kind = approvals[m].kind
              /\ b.commit = approvals[m].commit /\ b.id = approvals[m].id
              /\ b.result = IF /\ approvals[m].task = t /\ approvals[m].kind = kind
                               /\ approvals[m].result = "approved"
                              THEN r ELSE approvals[m].result
<1>1. ASSUME NEW m \in Message
      PROVE  LET b == [approvals[m] EXCEPT !.result = r] IN
             /\ b \in Ledger!Approval
             /\ b.task = approvals[m].task /\ b.kind = approvals[m].kind
             /\ b.commit = approvals[m].commit /\ b.id = approvals[m].id
             /\ b.result = r
  BY DEF Typing, Ledger!Approval, Ledger!Result
<1> QED
  BY <1>1 DEF Replaced, Typing

-----------------------------------------------------------------------------
(* What the steps that change the tables do, once the invariant has excluded *)
(* the branches that are never taken.                                        *)

Same(m) == /\ approvals'[m].task = approvals[m].task
           /\ approvals'[m].kind = approvals[m].kind
           /\ approvals'[m].commit = approvals[m].commit

CommandRow(t, row) ==
  \/ /\ rows[t].status = "awaiting_merge_approval" /\ row.status = "merging"
     /\ row.commit = rows[t].commit
  \/ /\ rows[t].status \in {"awaiting_deploy_approval", "deploy_failed"}
     /\ row.status = "deploying" /\ row.commit = rows[t].commit
     /\ row.rc = rows[t].rc /\ row.key = rows[t].rc
  \/ row.status \in {"queued", "cancelled"} /\ row.commit \in {rows[t].commit, NoCommit}

(* What a handler saves, given what it was admitted with. *)
LEMMA CommandSaves ==
  ASSUME IInv, NEW t \in Task, CommitCommand(t)
  PROVE  /\ handlers[t] \in Message /\ Admits(handlers[t], t)
         /\ handlers[t] \notin processed
         /\ approvals[handlers[t]].result = "none"
         /\ rows[t].status \notin {"merging", "deploying", "merged", "deployed"}
         /\ \E row \in RowType : Save(t, t, row) /\ CommandRow(t, row)
<1>1. handlers[t] \in Message /\ Admits(handlers[t], t) /\ handlers[t] \notin processed
  BY DEF IInv, Typing, TypeOK, CommitCommand, HandlerSound
<1>2. approvals[handlers[t]].result = "none"
  BY <1>1 DEF IInv, ApprovalSound
<1>3. rows[t].status \notin {"merging", "deploying", "merged", "deployed"}
  BY <1>1 DEF Admits, CanTransition
<1>4. Typing /\ rows[t] \in RowType
  BY DEF IInv, Typing, TypeOK, RowType
<1>5. CASE CommandOf[handlers[t]] = "merge"
  <2>1. Save(t, t, Moved(t, "merging"))
    BY <1>5 DEF CommitCommand, Approve
  <2>2. rows[t].status = "awaiting_merge_approval"
    BY <1>1, <1>5 DEF Admits
  <2> QED
    BY <1>1, <1>2, <1>3, <1>4, <2>1, <2>2, MovedRow DEF CommandRow, Status
<1>6. CASE CommandOf[handlers[t]] = "deploy"
  <2>1. PICK r \in RowType : /\ r = Moved(t, "deploying") /\ r.status = "deploying"
                             /\ r.rc = rows[t].rc /\ r.commit = rows[t].commit
    BY <1>4, MovedRow DEF Status
  <2>2. Save(t, t, [r EXCEPT !.key = rows[t].rc])
    BY <1>6, <2>1 DEF CommitCommand, Approve
  <2>3. rows[t].status \in {"awaiting_deploy_approval", "deploy_failed"}
    BY <1>1, <1>6 DEF Admits
  <2>4. PICK c \in RcCommit \cup {NoCommit} : c = rows[t].rc
    BY <1>4 DEF RowType
  <2> DEFINE row == [r EXCEPT !.key = c]
  <2>5. /\ row \in RowType /\ row.status = r.status /\ row.commit = r.commit
        /\ row.rc = r.rc /\ row.key = c
    BY DEF RowType
  <2>6. Save(t, t, row)
    BY <2>2, <2>4
  <2> HIDE DEF row
  <2>7. CommandRow(t, row)
    BY <2>1, <2>3, <2>4, <2>5 DEF CommandRow
  <2> QED
    BY <1>1, <1>2, <1>3, <2>5, <2>6, <2>7
<1>7. CASE CommandOf[handlers[t]] = "supplement"
  <2>1. PICK r \in RowType : r = Moved(t, "queued") /\ r.status = "queued"
    BY <1>4, MovedRow DEF Status
  <2>2. Save(t, t, [r EXCEPT !.commit = NoCommit, !.rc = NoCommit])
    BY <1>7, <2>1 DEF CommitCommand
  <2> DEFINE row == [r EXCEPT !.commit = NoCommit, !.rc = NoCommit]
  <2>3. row \in RowType /\ row.status = r.status /\ row.commit = NoCommit
    BY DEF RowType
  <2>4. Save(t, t, row)
    BY <2>2
  <2> HIDE DEF row
  <2>5. CommandRow(t, row)
    BY <2>1, <2>3 DEF CommandRow
  <2> QED
    BY <1>1, <1>2, <1>3, <2>3, <2>4, <2>5
<1>8. CASE CommandOf[handlers[t]] = "cancel"
  <2>1. Save(t, t, Moved(t, "cancelled"))
    BY <1>8 DEF CommitCommand
  <2> QED
    BY <1>1, <1>2, <1>3, <1>4, <2>1, MovedRow DEF CommandRow, Status
<1> QED
  BY <1>1, <1>5, <1>6, <1>7, <1>8

(* What a handler does to the approvals. *)
LEMMA CommandApproves ==
  ASSUME IInv, NEW t \in Task, CommitCommand(t)
  PROVE  LET m == handlers[t]  a == approvals'[m] IN
         /\ approvals' \in [Message -> Ledger!Approval] /\ lastApproval' \in Nat
         /\ \A n \in Message \ {m} :
              /\ Same(n)
              /\ \/ approvals'[n].result = approvals[n].result
                 \/ /\ approvals[n].result = "approved"
                    /\ approvals'[n].result \in {"superseded", "superseded_by_new_commit"}
         /\ \/ a.result = "none"
            \/ /\ a.task = t /\ a.result = "approved" /\ Sender[m] \in Admin
               /\ a.commit = BoundCommit(a.kind, rows[t])
               /\ a.kind = "merge" => rows[t].status = "awaiting_merge_approval"
               /\ a.kind = "deploy" => rows[t].status \in {"awaiting_deploy_approval",
                                                           "deploy_failed"}
<1> DEFINE m == handlers[t]
<1>1. m \in Message /\ Admits(m, t) /\ approvals[m].result = "none"
  BY CommandSaves
<1>2. Typing /\ rows[t] \in RowType
  BY DEF IInv, Typing, TypeOK, RowType
<1> HIDE DEF m
<1>3. CASE CommandOf[m] \in {"merge", "deploy"}
  <2> DEFINE kind == CommandOf[m]
             old == Replaced(t, kind, "superseded")
             new == [task |-> t, kind |-> kind, result |-> "approved",
                     commit |-> BoundCommit(kind, rows[t]), id |-> lastApproval + 1]
  <2>1. approvals' = [old EXCEPT ![m] = new] /\ lastApproval' = lastApproval + 1
    BY <1>3 DEF CommitCommand, Approve, m
  <2>2. BoundCommit(kind, rows[t]) \in Commit \cup {NoCommit}
    BY <1>2 DEF BoundCommit, RowType, Commit
  <2>3. new \in Ledger!Approval
    BY <1>2, <1>3, <2>2 DEF Ledger!Approval, Ledger!Result, Typing
  <2>4. old \in [Message -> Ledger!Approval]
    BY <1>2, <1>3, ReplacedRows
  <2>5. /\ approvals' \in [Message -> Ledger!Approval] /\ approvals'[m] = new
        /\ \A n \in Message \ {m} : approvals'[n] = old[n]
    <3> HIDE DEF old, new
    <3> QED
      BY <1>1, <2>1, <2>3, <2>4
  <2>6. \A n \in Message \ {m} :
          /\ Same(n)
          /\ \/ approvals'[n].result = approvals[n].result
             \/ /\ approvals[n].result = "approved"
                /\ approvals'[n].result \in {"superseded", "superseded_by_new_commit"}
    <3> HIDE DEF old, new
    <3> USE DEF old
    <3> QED
      BY <1>2, <1>3, <2>5, ReplacedRows DEF Same
  <2>7. /\ new.task = t /\ new.result = "approved" /\ new.kind = kind
        /\ new.commit = BoundCommit(new.kind, rows[t])
    OBVIOUS
  <2>8. /\ Sender[m] \in Admin
        /\ kind = "merge" => rows[t].status = "awaiting_merge_approval"
        /\ kind = "deploy" => rows[t].status \in {"awaiting_deploy_approval", "deploy_failed"}
    BY <1>1, <1>3 DEF Admits
  <2>9. lastApproval' \in Nat
    BY <2>1, <1>2 DEF Typing
  <2> HIDE DEF old, new
  <2> QED
    BY <2>5, <2>6, <2>7, <2>8, <2>9 DEF m
<1>4. CASE CommandOf[m] = "supplement"
  <2>1. approvals' = Replaced(t, "merge", "superseded_by_new_commit")
        /\ lastApproval' = lastApproval
    BY <1>4 DEF CommitCommand, m
  <2> QED
    BY <1>1, <1>2, <2>1, ReplacedRows DEF m, Same, Typing
<1>5. CASE CommandOf[m] = "cancel"
  <2>1. approvals' = approvals /\ lastApproval' = lastApproval
    BY <1>5 DEF CommitCommand, m
  <2> QED
    BY <1>1, <1>2, <2>1 DEF m, Same, Typing
<1> QED
  BY <1>1, <1>3, <1>4, <1>5

FinishRow(t, row) ==
  /\ row.commit = rows[t].commit
  /\ \/ /\ rows[t].status = "merging" /\ row.status = "merged"
        /\ InRc(t, row.rc) /\ workers[t].outcome = "ok" /\ Kind(t) = "merge"
     \/ /\ rows[t].status = "merging" /\ row.status \in {"failed", "merge_conflict"}
        /\ workers[t].outcome # "ok"
     \/ /\ rows[t].status = "deploying" /\ row.status \in {"deployed", "deploy_failed"}
        /\ row.rc = rows[t].rc /\ InRc(t, row.rc) /\ Kind(t) = "deploy"
        /\ row.status = "deployed" => <<t, row.rc>> \in deployed
     \/ /\ rows[t].status = "deploying" /\ row.status = "awaiting_deploy_approval"
        /\ InRc(t, row.rc) /\ Kind(t) = "deploy"

(* What a worker knows of its approval, and what the answer may be. *)
LEMMA AtFinish ==
  ASSUME IInv, NEW t \in Task, workers[t].pc = "finish"
  PROVE  LET w == workers[t]  m == w.approval  a == approvals[m] IN
         /\ m \in Message /\ locks[P(t)] = m
         /\ a.task = t /\ a.kind = w.kind /\ w.kind \in {"merge", "deploy"}
         /\ a.result = "executing" /\ calls[m] # 0 /\ W(t) \in current
         /\ rows[t].status = ExecutingStatus(w.kind)
         /\ BoundCommit(w.kind, rows[t]) = a.commit
         /\ w.kind = "merge" =>
              /\ w.outcome \in {"ok", "failed", "commit_changed", "merge_conflict"}
              /\ w.outcome = "ok" => InRc(t, w.head)
         /\ w.kind = "deploy" =>
              /\ w.outcome \in {"ok", "failed", "commit_changed"}
              /\ w.outcome = "commit_changed" => InRc(t, w.head)
              /\ w.outcome = "ok" => <<t, rows[t].rc>> \in deployed
<1> DEFINE w == workers[t]  m == w.approval  a == approvals[m]
<1>1. m \in Message
  BY DEF IInv, Typing, TypeOK, MutexSound
<1>2. w.kind \in {"merge", "deploy"} /\ P(t) \in Project /\ m # NoMessage
  BY <1>1 DEF IInv, Typing, TypeOK, P
<1>3. /\ locks[P(t)] = m /\ a.task = t /\ a.kind = w.kind /\ a.result = "executing"
      /\ calls[m] # 0 /\ W(t) \in current
      /\ helpers[m].pc = "done"
      /\ w.outcome = helpers[m].outcome /\ w.head = helpers[m].head
  BY DEF IInv, WorkerSound
<1>4. rows[t].status = ExecutingStatus(w.kind) /\ BoundCommit(w.kind, rows[t]) = a.commit
  BY <1>2, <1>3 DEF IInv, LockSound
<1>5. /\ w.kind = "merge" =>
           /\ w.outcome \in {"ok", "failed", "commit_changed", "merge_conflict"}
           /\ w.outcome = "ok" => InRc(t, w.head)
      /\ w.kind = "deploy" =>
           /\ w.outcome \in {"ok", "failed", "commit_changed"}
           /\ w.outcome = "commit_changed" => InRc(t, w.head)
           /\ w.outcome = "ok" => <<t, a.commit>> \in deployed
  BY <1>1, <1>3 DEF IInv, HelperSound
<1>6. w.kind = "deploy" => a.commit = rows[t].rc
  BY <1>4 DEF BoundCommit
<1> QED
  BY <1>1, <1>2, <1>3, <1>4, <1>5, <1>6

LEMMA FinishSaves ==
  ASSUME IInv, NEW t \in Task, Finish(t)
  PROVE  /\ Row(t) \in RowType /\ Save(W(t), t, Row(t)) /\ FinishRow(t, Row(t))
<1> DEFINE w == workers[t]  o == w.outcome  h == w.head
<1>1. w.pc = "finish" /\ Save(W(t), t, Row(t))
  BY DEF Finish, At
<1>2. Typing /\ rows[t] \in RowType /\ h \in RcCommit \cup {NoCommit}
  BY DEF IInv, Typing, TypeOK, RowType
<1>3. /\ rows[t].status = ExecutingStatus(w.kind)
      /\ w.kind = "merge" =>
           /\ o \in {"ok", "failed", "commit_changed", "merge_conflict"}
           /\ o = "ok" => InRc(t, h)
      /\ w.kind = "deploy" =>
           /\ o \in {"ok", "failed", "commit_changed"}
           /\ o = "commit_changed" => InRc(t, h)
           /\ o = "ok" => <<t, rows[t].rc>> \in deployed
  BY <1>1, AtFinish
<1>4. w.kind \in {"merge", "deploy"}
  BY <1>2 DEF Typing, TypeOK
<1> HIDE DEF h, o
<1> SUFFICES Row(t) \in RowType /\ FinishRow(t, Row(t))
  BY <1>1
<1>5. CASE w.kind = "merge" /\ o = "ok"
  <2>1. Row(t) = [Moved(t, "merged") EXCEPT !.rc = h, !.key = NoCommit]
    BY <1>5 DEF Row, Kind, o, h
  <2>2. PICK r \in RowType : /\ r = Moved(t, "merged") /\ r.status = "merged"
                             /\ r.commit = rows[t].commit
    BY <1>2, MovedRow DEF Status
  <2> DEFINE row == [r EXCEPT !.rc = h, !.key = NoCommit]
  <2>3. row \in RowType /\ row.status = r.status /\ row.commit = r.commit /\ row.rc = h
    BY <1>2 DEF RowType
  <2>4. Row(t) = row
    BY <2>1, <2>2
  <2> HIDE DEF row
  <2> QED
    BY <1>3, <1>5, <2>2, <2>3, <2>4 DEF FinishRow, Kind, ExecutingStatus, o
<1>6. CASE w.kind = "merge" /\ o # "ok"
  <2>1. \E next \in {"failed", "merge_conflict"} : Row(t) = Moved(t, next)
    BY <1>3, <1>6 DEF Row, Kind, o
  <2> QED
    BY <1>2, <1>3, <1>6, <2>1, MovedRow DEF FinishRow, Kind, ExecutingStatus, Status, o
<1>7. CASE w.kind = "deploy" /\ o = "commit_changed"
  <2>1. Row(t) = [Moved(t, "awaiting_deploy_approval") EXCEPT !.rc = h, !.key = NoCommit]
    BY <1>7 DEF Row, Kind, o, h
  <2>2. PICK r \in RowType : /\ r = Moved(t, "awaiting_deploy_approval")
                             /\ r.status = "awaiting_deploy_approval"
                             /\ r.commit = rows[t].commit
    BY <1>2, MovedRow DEF Status
  <2> DEFINE row == [r EXCEPT !.rc = h, !.key = NoCommit]
  <2>3. row \in RowType /\ row.status = r.status /\ row.commit = r.commit /\ row.rc = h
    BY <1>2 DEF RowType
  <2>4. Row(t) = row
    BY <2>1, <2>2
  <2> HIDE DEF row
  <2> QED
    BY <1>3, <1>7, <2>2, <2>3, <2>4 DEF FinishRow, Kind, ExecutingStatus, o
<1>8. CASE w.kind = "deploy" /\ o # "commit_changed"
  <2>1. PICK next \in {"deployed", "deploy_failed"} :
          Row(t) = Moved(t, next) /\ (next = "deployed" => o = "ok")
    BY <1>3, <1>8 DEF Row, Kind, o
  <2>2. InRc(t, rows[t].rc)
    BY <1>3, <1>8 DEF IInv, RowSound, ExecutingStatus
  <2>3. PICK r \in RowType : /\ r = Moved(t, next) /\ r.status = next
                             /\ r.commit = rows[t].commit /\ r.rc = rows[t].rc
    BY <1>2, MovedRow DEF Status
  <2>4. rows[t].status = "deploying"
    BY <1>3, <1>8 DEF ExecutingStatus
  <2>5. r.status = "deployed" => <<t, r.rc>> \in deployed
    BY <1>3, <1>8, <2>1, <2>3
  <2> QED
    BY <1>8, <2>1, <2>2, <2>3, <2>4, <2>5 DEF FinishRow, Kind
<1> QED
  BY <1>4, <1>5, <1>6, <1>7, <1>8

(* Completing an approval changes its result and nothing else of it. *)
LEMMA FinishApproves ==
  ASSUME IInv, NEW t \in Task, Finish(t)
  PROVE  LET m == workers[t].approval IN
         /\ approvals' \in [Message -> Ledger!Approval] /\ lastApproval' = lastApproval
         /\ \A n \in Message \ {m} : approvals'[n] = approvals[n]
         /\ Same(m)
         /\ approvals'[m].result \in {"completed", "failed", "commit_changed",
                                      "merge_conflict"}
<1> DEFINE m == workers[t].approval  o == workers[t].outcome
           r == IF o = "ok" THEN "completed" ELSE o
<1>1. workers[t].pc = "finish"
  BY DEF Finish, At
<1>2. m \in Message /\ r \in {"completed", "failed", "commit_changed", "merge_conflict"}
  BY <1>1, AtFinish
<1>3. approvals \in [Message -> Ledger!Approval]
  BY DEF IInv, Typing
<1>4. approvals' = [approvals EXCEPT ![m] = [approvals[m] EXCEPT !.result = r]]
  <2>1. approvals' = [approvals EXCEPT ![m].result = r]
    BY DEF Finish
  <2> QED
    BY <2>1
<1> HIDE DEF m, r
<1>5. LET b == [approvals[m] EXCEPT !.result = r] IN
      /\ b \in Ledger!Approval /\ b.task = approvals[m].task
      /\ b.kind = approvals[m].kind /\ b.commit = approvals[m].commit /\ b.result = r
  BY <1>2, <1>3 DEF Ledger!Approval, Ledger!Result
<1>6. lastApproval' = lastApproval
  BY DEF Finish
<1> QED
  BY <1>2, <1>3, <1>4, <1>5, <1>6 DEF Same, m

RecoveredRow(t, row) ==
  /\ row.commit = rows[t].commit /\ row.rc = rows[t].rc /\ row.key = rows[t].key
  /\ \/ row.status = rows[t].status
        /\ rows[t].status \notin {"pushed", "merging", "merged", "deploying"}
     \/ row.status = "failed"
     \/ rows[t].status = "pushed" /\ row.status = "awaiting_merge_approval"
     \/ rows[t].status = "merged" /\ row.status = "awaiting_deploy_approval"
     \/ rows[t].status = "deploying" /\ row.status = "deploy_failed"

(* The recovery moves every task out of the stages of the release, so it    *)
(* leaves no lock.                                                          *)
LEMMA RecoverySaves ==
  ASSUME IInv, RecoverInterrupted
  PROVE  /\ rows' \in [Task -> RowType]
         /\ \A t \in Task : RecoveredRow(t, rows'[t])
         /\ locks' = [p \in Project |-> NoMessage]
<1>1. Typing
  BY DEF IInv
<1>2. ASSUME NEW t \in Task
      PROVE  LET s == Recovered(rows[t].status, rows[t].commit # NoCommit) IN
             /\ s \in Status
             /\ \/ s = rows[t].status
                   /\ rows[t].status \notin {"pushed", "merging", "merged", "deploying"}
                \/ s = "failed"
                \/ rows[t].status = "pushed" /\ s = "awaiting_merge_approval"
                \/ rows[t].status = "merged" /\ s = "awaiting_deploy_approval"
                \/ rows[t].status = "deploying" /\ s = "deploy_failed"
  <2> DEFINE old == rows[t].status  b == rows[t].commit # NoCommit
  <2>1. old \in Status
    BY <1>1 DEF Typing, TypeOK
  <2>2. CASE ~Interrupted(old, b)
    BY <2>1, <2>2 DEF Recovered, Interrupted
  <2>3. CASE old \in {"running", "checking", "merging"} /\ Interrupted(old, b)
    <3>1. Recovered(old, b) = "failed"
      BY <2>3 DEF Recovered
    <3> QED
      BY <3>1 DEF Status
  <2>4. CASE old \in {"pushed", "merged", "deploying"} /\ Interrupted(old, b)
    BY <2>4 DEF Recovered, Status
  <2> QED
    BY <2>2, <2>3, <2>4 DEF Interrupted
<1>3. rows' = [t \in Task |-> Moved(t, Recovered(rows[t].status,
                                                rows[t].commit # NoCommit))]
  BY DEF RecoverInterrupted
<1>4. ASSUME NEW t \in Task
      PROVE  rows'[t] \in RowType /\ RecoveredRow(t, rows'[t])
  <2> DEFINE s == Recovered(rows[t].status, rows[t].commit # NoCommit)
  <2>1. rows'[t] = Moved(t, s) /\ s \in Status
    BY <1>2, <1>3
  <2> HIDE DEF s
  <2>2. /\ rows'[t] \in RowType /\ rows'[t].status = s
        /\ rows'[t].commit = rows[t].commit /\ rows'[t].rc = rows[t].rc
        /\ rows'[t].key = rows[t].key
    BY <1>1, <2>1, MovedRow
  <2> QED
    BY <1>2, <2>2 DEF RecoveredRow, s
<1>5. rows' \in [Task -> RowType]
  BY <1>3, <1>4
<1>6. ASSUME NEW p \in Project, locks[p] # NoMessage
      PROVE  rows'[approvals[locks[p]].task].status \notin {"merging", "deploying"}
  <2>1. approvals[locks[p]].task \in Task
    BY <1>6 DEF IInv, LockSound
  <2>2. RecoveredRow(approvals[locks[p]].task, rows'[approvals[locks[p]].task])
    BY <1>4, <2>1
  <2> QED
    BY <2>2 DEF RecoveredRow
<1>7. locks' = [p \in Project |->
        IF /\ locks[p] # NoMessage
           /\ rows'[approvals[locks[p]].task].status \notin {"merging", "deploying"}
          THEN NoMessage ELSE locks[p]]
  BY DEF RecoverInterrupted
<1> QED
  BY <1>4, <1>5, <1>6, <1>7

(* A claim takes one approved approval and the free lock of its project. *)
LEMMA ClaimTakes ==
  ASSUME IInv, NEW t \in Task, Claim(t)
  PROVE  \/ /\ UNCHANGED <<approvals, locks>> /\ Go(t, "exit")
         \/ \E m \in Message :
              /\ Claimable(t, m)
              /\ approvals' \in [Message -> Ledger!Approval]
              /\ \A n \in Message \ {m} : approvals'[n] = approvals[n]
              /\ Same(m) /\ approvals'[m].result = "executing"
              /\ locks' = [locks EXCEPT ![P(t)] = m]
              /\ workers' = [workers EXCEPT ![t].pc = "git", ![t].approval = m]
<1> SUFFICES ASSUME NEW m \in Message, Claimable(t, m),
                    approvals' = [approvals EXCEPT ![m].result = "executing"],
                    locks' = [locks EXCEPT ![P(t)] = m],
                    workers' = [workers EXCEPT ![t].pc = "git", ![t].approval = m]
             PROVE  /\ approvals' \in [Message -> Ledger!Approval]
                    /\ \A n \in Message \ {m} : approvals'[n] = approvals[n]
                    /\ Same(m) /\ approvals'[m].result = "executing"
  BY DEF Claim
<1>1. approvals \in [Message -> Ledger!Approval]
  BY DEF IInv, Typing
<1>2. approvals' = [approvals EXCEPT ![m] = [approvals[m] EXCEPT !.result = "executing"]]
  OBVIOUS
<1>3. LET b == [approvals[m] EXCEPT !.result = "executing"] IN
      /\ b \in Ledger!Approval /\ b.task = approvals[m].task
      /\ b.kind = approvals[m].kind /\ b.commit = approvals[m].commit
      /\ b.result = "executing"
  BY <1>1 DEF Ledger!Approval, Ledger!Result
<1> QED
  BY <1>1, <1>2, <1>3 DEF Same

(* The steps that change the tables; every other step leaves them alone. *)
WorkFrame == UNCHANGED <<processed, inbox, handlers, scan, up>>
MovesOn(t) == MoveOn(t) /\ World /\ UNCHANGED scanFrame

TableStep(t) ==
  \/ CommitCommand(t) \/ MovesOn(t)
  \/ (Claim(t) \/ Finish(t) \/ MoveMerged(t)) /\ WorkFrame

LEMMA TableSteps ==
  ASSUME [Next]_vars
  PROVE  \/ Tables /\ UNCHANGED processed
         \/ \E t \in Task : TableStep(t)
         \/ RecoverInterrupted
<1>1. CASE \E t \in Task : CommitCommand(t)
  BY <1>1 DEF TableStep
<1>2. CASE \E t \in Task : \E m \in Message : Read(t, m)
  BY <1>2 DEF Read, Tables
<1>3. ASSUME NEW t \in Task, Work(t)
      PROVE  (Tables /\ UNCHANGED processed) \/ TableStep(t)
  BY <1>3 DEF Work, LockRelease, Load, Call, Answered, Notify, Exit, Tables, TableStep,
              WorkFrame
<1>4. CASE \E t \in Task : StoreFails(t) /\ UNCHANGED <<processed, inbox, handlers, scan, up>>
  BY <1>4 DEF StoreFails, Tables
<1>5. CASE Scan
  BY <1>5 DEF Scan, scanFrame, List, Start, TableStep, MovesOn, Tables
<1>6. CASE (\E m \in Message : Help(m)) \/ (\E p \in Project : ForeignPush(p)) \/ Crash
  BY <1>6 DEF Help, ForeignPush, Crash, Tables
<1>7. CASE UNCHANGED vars
  BY <1>7 DEF vars, Tables
<1> QED
  BY <1>1, <1>2, <1>3, <1>4, <1>5, <1>6, <1>7 DEF Next

(* The steps that reach the repository or a helper, and those that change   *)
(* whether the process is up; every other step leaves them alone.           *)
LEMMA WorldSteps ==
  ASSUME [Next]_vars
  PROVE  \/ World
         \/ \E t \in Task : Call(t) /\ WorkFrame
         \/ \E m \in Message : Help(m)
         \/ \E p \in Project : ForeignPush(p)
<1>1. ASSUME NEW t \in Task, Work(t) PROVE World \/ (Call(t) /\ WorkFrame)
  BY <1>1 DEF Work, WorkFrame, LockRelease, Load, Claim, Answered, Finish, MoveMerged,
              Notify, Exit
<1>2. CASE \E t \in Task : \/ CommitCommand(t) \/ StoreFails(t)
                           \/ \E m \in Message : Read(t, m)
  BY <1>2 DEF CommitCommand, StoreFails, Read
<1>3. CASE Scan \/ Crash \/ RecoverInterrupted
  BY <1>3 DEF Scan, Crash, RecoverInterrupted
<1>4. CASE UNCHANGED vars
  BY <1>4 DEF vars, World
<1> QED
  BY <1>1, <1>2, <1>3, <1>4 DEF Next

LEMMA UpSteps ==
  ASSUME [Next]_vars
  PROVE  UNCHANGED up \/ Crash \/ RecoverInterrupted
<1>1. CASE \E t \in Task : \/ CommitCommand(t) \/ Work(t)
                           \/ StoreFails(t) /\ WorkFrame
                           \/ \E m \in Message : Read(t, m)
  BY <1>1 DEF CommitCommand, Work, WorkFrame, Read
<1>2. CASE Scan
  BY <1>2 DEF Scan, scanFrame
<1>3. CASE (\E m \in Message : Help(m)) \/ (\E p \in Project : ForeignPush(p))
  BY <1>3 DEF Help, ForeignPush
<1>4. CASE UNCHANGED vars
  BY <1>4 DEF vars
<1> QED
  BY <1>1, <1>2, <1>3, <1>4 DEF Next, WorkFrame

(* A branch of the project and the deployments only grow. *)
InRcNext(t, c) == c \in RcCommit /\ TaskCommit[t] \in c /\ c \subseteq rcHead'[P(t)]

LEMMA WorldGrows ==
  ASSUME IInv, [Next]_vars
  PROVE  /\ rcHead' \in [Project -> RcCommit]
         /\ deployed \subseteq deployed'
         /\ \A t \in Task : \A c : InRc(t, c) => InRcNext(t, c)
<1>1. rcHead \in [Project -> RcCommit]
  BY DEF IInv, Typing, TypeOK
<1>2. \/ UNCHANGED <<rcHead, deployed>>
      \/ \E m \in Message : PushMerge(m) \/ RunDeploy(m)
      \/ \E p \in Project : ForeignPush(p)
  <2>1. ASSUME NEW m \in Message, Help(m)
        PROVE  UNCHANGED <<rcHead, deployed>> \/ PushMerge(m) \/ RunDeploy(m)
    BY <2>1 DEF Help, FetchMerge, FetchDeploy
  <2> QED
    BY <2>1, WorldSteps DEF World, Call
<1>3. /\ rcHead' \in [Project -> RcCommit] /\ deployed \subseteq deployed'
      /\ \A p \in Project : rcHead[p] \subseteq rcHead'[p]
  <2>1. CASE UNCHANGED <<rcHead, deployed>>
    BY <1>1, <2>1
  <2>2. ASSUME NEW m \in Message, PushMerge(m)
        PROVE  /\ rcHead' \in [Project -> RcCommit] /\ deployed \subseteq deployed'
               /\ \A p \in Project : rcHead[p] \subseteq rcHead'[p]
    <3> DEFINE p == Shared(m)  new == helpers[m].head \cup {approvals[m].commit}
    <3>1. /\ deployed' = deployed
          /\ \/ UNCHANGED rcHead
             \/ rcHead[p] = helpers[m].head /\ rcHead' = [rcHead EXCEPT ![p] = new]
      BY <2>2 DEF PushMerge
    <3>2. approvals[m].kind = "merge" /\ helpers[m].pc = "ready"
      BY <2>2 DEF PushMerge
    <3>3. helpers[m].head \in RcCommit /\ approvals[m].result # "none"
      BY <3>2 DEF IInv, HelperSound
    <3>4. approvals[m].task \in Task /\ approvals[m].commit = TaskCommit[approvals[m].task]
      BY <3>2, <3>3 DEF IInv, ApprovalSound
    <3>5. new \in RcCommit
      BY <3>3, <3>4, RcCommitGrows
    <3> HIDE DEF p
    <3> QED
      BY <1>1, <3>1, <3>5
  <2>3. ASSUME NEW m \in Message, RunDeploy(m)
        PROVE  /\ rcHead' \in [Project -> RcCommit] /\ deployed \subseteq deployed'
               /\ \A p \in Project : rcHead[p] \subseteq rcHead'[p]
    BY <1>1, <2>3 DEF RunDeploy
  <2>4. ASSUME NEW p \in Project, ForeignPush(p)
        PROVE  /\ rcHead' \in [Project -> RcCommit] /\ deployed \subseteq deployed'
               /\ \A q \in Project : rcHead[q] \subseteq rcHead'[q]
    <3>1. PICK c \in Foreign : rcHead' = [rcHead EXCEPT ![p] = rcHead[p] \cup {c}]
      BY <2>4 DEF ForeignPush
    <3>2. rcHead[p] \cup {c} \in RcCommit
      BY <1>1, RcCommitGrows
    <3>3. deployed' = deployed
      BY <2>4 DEF ForeignPush
    <3> QED
      BY <1>1, <3>1, <3>2, <3>3
  <2> QED
    BY <1>2, <2>1, <2>2, <2>3, <2>4
<1> QED
  BY <1>3 DEF InRc, InRcNext, P

(* An approval row is never taken back: what it approves is fixed, and once *)
(* it is claimed it can only be completed, by the worker that claimed it.   *)
LEMMA ApprovalsKeep ==
  ASSUME IInv, [Next]_vars, NEW m \in Message, approvals[m].result # "none"
  PROVE  /\ Same(m) /\ approvals'[m].result # "none"
         /\ approvals[m].result # "approved" => approvals'[m].result # "approved"
         /\ \/ approvals[m].result \notin {"approved", "executing"}
               /\ approvals'[m].result = approvals[m].result
            \/ approvals[m].result = "approved"
            \/ approvals[m].result = "executing" /\ approvals'[m].result = "executing"
            \/ /\ approvals[m].result = "executing"
               /\ \E t \in Task : Finish(t) /\ workers[t].approval = m
<1>1. CASE UNCHANGED approvals
  BY <1>1 DEF Same
<1>2. ASSUME NEW t \in Task, CommitCommand(t)
      PROVE  /\ Same(m) /\ approvals'[m].result # "none"
             /\ \/ approvals'[m].result = approvals[m].result
                \/ approvals[m].result = "approved" /\ approvals'[m].result # "approved"
  BY <1>2, CommandSaves, CommandApproves
<1>3. ASSUME NEW t \in Task, Claim(t)
      PROVE  /\ Same(m) /\ approvals'[m].result # "none"
             /\ \/ approvals'[m].result = approvals[m].result
                \/ approvals[m].result = "approved" /\ approvals'[m].result # "approved"
  BY <1>3, ClaimTakes DEF Same, Claimable
<1>4. ASSUME NEW t \in Task, Finish(t)
      PROVE  /\ Same(m) /\ approvals'[m].result # "none"
             /\ \/ approvals'[m].result = approvals[m].result
                \/ /\ workers[t].approval = m /\ approvals[m].result = "executing"
                   /\ approvals'[m].result # "approved"
  <2>1. workers[t].pc = "finish"
    BY <1>4 DEF Finish, At
  <2>2. CASE m = workers[t].approval
    BY <1>4, <2>1, <2>2, FinishApproves, AtFinish
  <2>3. CASE m # workers[t].approval
    BY <1>4, <2>3, FinishApproves DEF Same
  <2> QED
    BY <2>2, <2>3
<1>5. \/ UNCHANGED approvals
      \/ \E t \in Task : CommitCommand(t) \/ Claim(t) \/ Finish(t)
  BY TableSteps DEF TableStep, Tables, MovesOn, scanFrame, MoveMerged, RecoverInterrupted
<1> QED
  BY <1>1, <1>2, <1>3, <1>4, <1>5

-----------------------------------------------------------------------------
(* The variables stay in their types. *)

WorkerType ==
  [pc : {"idle", "wait", "load", "claim", "git", "call", "finish",
         "to_awaiting", "notify", "exit"},
   kind : {"merge", "deploy"}, approval : Message \cup {NoMessage},
   outcome : Outcome, head : RcCommit \cup {NoCommit}]
HelperType == [pc : {"none", "started", "ready", "done"}, outcome : Outcome,
               head : RcCommit \cup {NoCommit}]

LEMMA NextTables ==
  ASSUME IInv, [Next]_vars
  PROVE  /\ rows' \in [Task -> RowType]
         /\ approvals' \in [Message -> Ledger!Approval] /\ lastApproval' \in Nat
         /\ locks' \in [Project -> Message \cup {NoMessage}]
         /\ processed' \subseteq Message
<1> DEFINE Typed == /\ rows' \in [Task -> RowType]
                    /\ approvals' \in [Message -> Ledger!Approval] /\ lastApproval' \in Nat
                    /\ locks' \in [Project -> Message \cup {NoMessage}]
                    /\ processed' \subseteq Message
<1> SUFFICES Typed
  OBVIOUS
<1>1. /\ Typing /\ rows \in [Task -> RowType]
      /\ approvals \in [Message -> Ledger!Approval] /\ lastApproval \in Nat
      /\ locks \in [Project -> Message \cup {NoMessage}]
      /\ processed \subseteq Message
  BY DEF IInv, Typing, TypeOK, RowType
<1>2. CASE Tables /\ UNCHANGED processed
  BY <1>1, <1>2 DEF Tables
<1>3. ASSUME NEW t \in Task, CommitCommand(t)
      PROVE  Typed
  <2>1. locks' = locks /\ processed' = processed \cup {handlers[t]}
    BY <1>3 DEF CommitCommand
  <2>2. rows' \in [Task -> RowType]
    BY <1>1, <1>3, CommandSaves, SaveEffect DEF Copies
  <2> QED
    BY <1>1, <1>3, <2>1, <2>2, CommandSaves, CommandApproves
<1>4. ASSUME NEW t \in Task, MovesOn(t) \/ (MoveMerged(t) /\ WorkFrame)
      PROVE  Typed
  <2>1. /\ UNCHANGED <<approvals, lastApproval, locks, processed>>
        /\ \/ UNCHANGED rows
           \/ \E x \in Copies(t) : Save(x, t, Moved(t, "awaiting_deploy_approval"))
    BY <1>4 DEF MovesOn, MoveOn, scanFrame, MoveMerged, WorkFrame, Copies
  <2>2. rows' \in [Task -> RowType]
    BY <1>1, <2>1, SaveEffect, MovedRow DEF Status
  <2> QED
    BY <1>1, <2>1, <2>2
<1>5. ASSUME NEW t \in Task, Claim(t) /\ WorkFrame
      PROVE  Typed
  <2>1. UNCHANGED <<rows, lastApproval, processed>> /\ P(t) \in Project
    BY <1>5 DEF Claim, WorkFrame, P
  <2>2. CASE UNCHANGED <<approvals, locks>>
    BY <1>1, <2>1, <2>2
  <2>3. CASE \E m \in Message : /\ approvals' \in [Message -> Ledger!Approval]
                                /\ locks' = [locks EXCEPT ![P(t)] = m]
    BY <1>1, <2>1, <2>3
  <2> QED
    BY <1>5, <2>2, <2>3, ClaimTakes
<1>6. ASSUME NEW t \in Task, Finish(t) /\ WorkFrame
      PROVE  Typed
  <2>1. UNCHANGED processed /\ locks' = [locks EXCEPT ![P(t)] = NoMessage]
    BY <1>6 DEF Finish, WorkFrame
  <2>2. rows' \in [Task -> RowType]
    BY <1>1, <1>6, FinishSaves, SaveEffect DEF Copies
  <2> QED
    BY <1>1, <1>6, <2>1, <2>2, FinishApproves
<1>7. CASE RecoverInterrupted
  <2>1. UNCHANGED <<approvals, lastApproval, processed>>
    BY <1>7 DEF RecoverInterrupted
  <2> QED
    BY <1>1, <1>7, <2>1, RecoverySaves
<1> HIDE DEF Typed
<1>8. ASSUME NEW t \in Task, TableStep(t)
      PROVE  Typed
  BY <1>3, <1>4, <1>5, <1>6, <1>8 DEF TableStep
<1> QED
  BY <1>2, <1>7, <1>8, TableSteps

(* The variables of the process. *)
LEMMA NextProcess ==
  ASSUME IInv, [Next]_vars
  PROVE  /\ inbox' \subseteq Message
         /\ handlers' \in [Task -> Message \cup {NoMessage}]
         /\ scan' \in [phase : {"merging", "deploying", "merged"}, todo : SUBSET Task]
         /\ releaseMu' \in [Project -> Task \cup {NoTask}]
         /\ up' \in BOOLEAN /\ faults' \in 0 .. MaxFaults
<1>1. /\ inbox \subseteq Message /\ handlers \in [Task -> Message \cup {NoMessage}]
      /\ scan \in [phase : {"merging", "deploying", "merged"}, todo : SUBSET Task]
      /\ releaseMu \in [Project -> Task \cup {NoTask}]
      /\ up \in BOOLEAN /\ faults \in 0 .. MaxFaults
  BY DEF IInv, Typing, TypeOK
<1>2. inbox' \subseteq Message /\ handlers' \in [Task -> Message \cup {NoMessage}]
  <2>1. \/ UNCHANGED <<inbox, handlers>>
        \/ UNCHANGED inbox /\ \E t \in Task : handlers' = [handlers EXCEPT ![t] = NoMessage]
        \/ \E t \in Task, m \in Message :
             inbox' = inbox \ {m} /\ handlers' = [handlers EXCEPT ![t] = m]
        \/ UNCHANGED inbox /\ handlers' = [t \in Task |-> NoMessage]
    BY DEF Next, vars, CommitCommand, Read, Work, StoreFails, Scan, scanFrame, Help,
           ForeignPush, Crash, RecoverInterrupted
  <2> QED
    BY <1>1, <2>1
<1>3. scan' \in [phase : {"merging", "deploying", "merged"}, todo : SUBSET Task]
  <2>1. \/ UNCHANGED scan
        \/ \E t \in Task : scan' = [scan EXCEPT !.todo = @ \ {t}]
        \/ \E next \in {"merging", "deploying", "merged"}, todo \in SUBSET Task :
             scan' = [phase |-> next, todo |-> todo]
    BY DEF Next, vars, CommitCommand, Read, Work, StoreFails, Scan, List, Start, MoveOn,
           Help, ForeignPush, Crash, RecoverInterrupted
  <2>2. ASSUME NEW t \in Task, scan' = [scan EXCEPT !.todo = @ \ {t}]
        PROVE  scan' \in [phase : {"merging", "deploying", "merged"}, todo : SUBSET Task]
    BY <1>1, <2>2
  <2> QED
    BY <1>1, <2>1, <2>2
<1>4. releaseMu' \in [Project -> Task \cup {NoTask}]
  <2>1. \/ UNCHANGED releaseMu
        \/ \E p, t \in Task \cup {NoTask} : \E q \in Project :
              releaseMu' = [releaseMu EXCEPT ![q] = t]
        \/ releaseMu' = [p \in Project |-> NoTask]
    BY DEF Next, vars, CommitCommand, Read, Work, StoreFails, Scan, scanFrame, Help,
           ForeignPush, Crash, RecoverInterrupted, LockRelease, Load, Claim, Call,
           Answered, Finish, MoveMerged, Notify, Exit, P
  <2> QED
    BY <1>1, <2>1
<1>5. up' \in BOOLEAN /\ faults' \in 0 .. MaxFaults
  <2>1. /\ UNCHANGED up \/ up' \in BOOLEAN
        /\ UNCHANGED faults \/ Fault
    BY DEF Next, vars, CommitCommand, Read, Work, StoreFails, Scan, scanFrame, Help,
           ForeignPush, Crash, RecoverInterrupted, LockRelease, Load, Claim, Call,
           Answered, Finish, MoveMerged, Notify, Exit, List, Start, MoveOn
  <2> QED
    BY <1>1, <2>1 DEF Fault
<1> QED
  BY <1>2, <1>3, <1>4, <1>5

(* The workers, their helpers and the copies of rows. *)
LEMMA NextWorkers ==
  ASSUME IInv, [Next]_vars
  PROVE  workers' \in [Task -> WorkerType]
<1>1. workers \in [Task -> WorkerType] /\ helpers \in [Message -> HelperType]
      /\ \A t \in Task : workers[t].pc \in {"git", "call", "finish"} =>
                           workers[t].approval \in Message
  BY DEF IInv, Typing, TypeOK, WorkerType, HelperType, MutexSound
<1>2. Idle \in WorkerType
  BY DEF Idle, WorkerType, Outcome
<1>3. \/ UNCHANGED workers
      \/ workers' = [t \in Task |-> Idle]
      \/ \E t \in Task : workers' = [workers EXCEPT ![t] = Idle]
      \/ \E t \in Task, kind \in {"merge", "deploy"} :
           workers' = [workers EXCEPT ![t] = [Idle EXCEPT !.pc = "wait", !.kind = kind]]
      \/ \E t \in Task, pc \in {"load", "claim", "exit", "call", "notify"} : Go(t, pc)
      \/ \E t \in Task : Claim(t) \/ Call(t) \/ Answered(t) \/ Finish(t) \/ StoreFails(t)
  BY DEF Next, vars, CommitCommand, Read, Work, Scan, List, Start, MoveOn, Help,
         ForeignPush, Crash, RecoverInterrupted, LockRelease, Load, MoveMerged, Notify,
         Exit
<1> DEFINE Updates(w) ==
      /\ \A m \in Message : [w EXCEPT !.pc = "git", !.approval = m] \in WorkerType
      /\ \A o \in Outcome : [w EXCEPT !.pc = "finish", !.outcome = o] \in WorkerType
      /\ \A o \in Outcome, h \in RcCommit \cup {NoCommit} :
           [w EXCEPT !.pc = "finish", !.outcome = o, !.head = h] \in WorkerType
      /\ \A pc \in {"to_awaiting", "notify", "exit"} :
           [w EXCEPT !.pc = pc, !.approval = NoMessage] \in WorkerType
<1>10. ASSUME NEW w \in WorkerType PROVE Updates(w)
  BY DEF WorkerType
<1>11. \A t \in Task : Updates(workers[t])
  <2> HIDE DEF Updates
  <2> QED
    BY <1>1, <1>10
<1>4. ASSUME NEW t \in Task, NEW kind \in {"merge", "deploy"}
      PROVE  [Idle EXCEPT !.pc = "wait", !.kind = kind] \in WorkerType
  BY DEF Idle, WorkerType, Outcome
<1>5. ASSUME NEW t \in Task,
             NEW pc \in {"load", "claim", "exit", "call", "notify"}, Go(t, pc)
      PROVE  workers' \in [Task -> WorkerType]
  <2>1. [workers[t] EXCEPT !.pc = pc] \in WorkerType
    BY <1>1 DEF WorkerType
  <2> QED
    BY <1>1, <1>5, <2>1 DEF Go
<1>6. ASSUME NEW t \in Task, Claim(t)
      PROVE  workers' \in [Task -> WorkerType]
  <2>1. ASSUME NEW m \in Message
        PROVE  [workers[t] EXCEPT !.pc = "git", !.approval = m] \in WorkerType
    BY <1>11
  <2>2. \/ Go(t, "exit")
        \/ \E m \in Message :
             workers' = [workers EXCEPT ![t].pc = "git", ![t].approval = m]
    BY <1>6 DEF Claim
  <2>3. ASSUME NEW m \in Message,
               workers' = [workers EXCEPT ![t].pc = "git", ![t].approval = m]
        PROVE  workers' \in [Task -> WorkerType]
    <3>1. workers' = [workers EXCEPT ![t] = [workers[t] EXCEPT !.pc = "git",
                                                               !.approval = m]]
      BY <2>3
    <3> QED
      BY <1>1, <2>1, <3>1
  <2> QED
    BY <1>5, <2>2, <2>3
<1>7. ASSUME NEW t \in Task, Call(t)
      PROVE  workers' \in [Task -> WorkerType]
  <2>1. ASSUME NEW o \in Outcome
        PROVE  [workers[t] EXCEPT !.pc = "finish", !.outcome = o] \in WorkerType
    BY <1>11
  <2>2. \/ Go(t, "call") \/ Go(t, "exit")
        \/ \E o \in Outcome :
             workers' = [workers EXCEPT ![t].pc = "finish", ![t].outcome = o]
    BY <1>7 DEF Call, Outcome
  <2> QED
    BY <1>1, <1>5, <2>1, <2>2
<1>8. ASSUME NEW t \in Task, Answered(t)
      PROVE  workers' \in [Task -> WorkerType]
  <2> DEFINE h == helpers[workers[t].approval]
  <2>1. h \in HelperType
    BY <1>1, <1>8 DEF Answered, At
  <2>2. workers' = [workers EXCEPT ![t].pc = "finish", ![t].outcome = h.outcome,
                                   ![t].head = h.head]
    BY <1>8 DEF Answered
  <2> HIDE DEF h
  <2>3. h.outcome \in Outcome /\ h.head \in RcCommit \cup {NoCommit}
    BY <2>1 DEF HelperType
  <2>4. [workers[t] EXCEPT !.pc = "finish", !.outcome = h.outcome, !.head = h.head]
          \in WorkerType
    BY <1>11, <2>3
  <2> QED
    BY <1>1, <2>2, <2>4
<1>9. ASSUME NEW t \in Task, Finish(t) \/ StoreFails(t)
      PROVE  workers' \in [Task -> WorkerType]
  <2>1. \E pc \in {"to_awaiting", "notify", "exit"} :
          workers' = [workers EXCEPT ![t].pc = pc, ![t].approval = NoMessage]
    <3>1. CASE StoreFails(t)
      BY <3>1 DEF StoreFails
    <3>2. CASE Finish(t)
      <4> DEFINE pc == IF Kind(t) = "merge" /\ workers[t].outcome = "ok"
                         THEN "to_awaiting" ELSE "notify"
      <4>1. workers' = [workers EXCEPT ![t].approval = NoMessage, ![t].pc = pc]
        BY <3>2 DEF Finish
      <4>2. pc \in {"to_awaiting", "notify"}
        OBVIOUS
      <4> HIDE DEF pc
      <4>3. workers' = [workers EXCEPT ![t].pc = pc, ![t].approval = NoMessage]
        BY <4>1
      <4> QED
        BY <4>2, <4>3
    <3> QED
      BY <1>9, <3>1, <3>2
  <2>2. ASSUME NEW pc \in {"to_awaiting", "notify", "exit"}
        PROVE  [workers[t] EXCEPT !.pc = pc, !.approval = NoMessage] \in WorkerType
    BY <1>11
  <2> QED
    BY <1>1, <2>1, <2>2
<1> QED
  BY <1>1, <1>2, <1>3, <1>4, <1>5, <1>6, <1>7, <1>8, <1>9

(* A helper works for an approval that is claimed. *)
LEMMA HelperTask ==
  ASSUME IInv, NEW m \in Message, helpers[m].pc # "none"
  PROVE  /\ approvals[m].result \notin {"none", "approved"} /\ calls[m] # 0
         /\ approvals[m].task \in Task /\ Shared(m) \in Project
         /\ rcHead[Shared(m)] \in RcCommit
         /\ approvals[m].kind \in {"merge", "deploy"}
         /\ approvals[m].kind = "merge" => approvals[m].commit = TaskCommit[approvals[m].task]
         /\ approvals[m].kind = "deploy" => InRc(approvals[m].task, approvals[m].commit)
<1>1. approvals[m].result \notin {"none", "approved"} /\ calls[m] # 0
  BY DEF IInv, HelperSound
<1>2. /\ approvals[m].task \in Task
      /\ approvals[m].kind = "merge" => approvals[m].commit = TaskCommit[approvals[m].task]
      /\ approvals[m].kind = "deploy" => InRc(approvals[m].task, approvals[m].commit)
  BY <1>1 DEF IInv, ApprovalSound
<1>3. approvals[m] \in Ledger!Approval /\ rcHead \in [Project -> RcCommit]
  BY DEF IInv, Typing, TypeOK
<1> QED
  BY <1>1, <1>2, <1>3 DEF Shared, P, Ledger!Approval

LEMMA NextHelpers ==
  ASSUME IInv, [Next]_vars
  PROVE  /\ helpers' \in [Message -> HelperType] /\ calls' \in [Message -> Nat]
         /\ deployed' \subseteq Task \X RcCommit
<1>1. /\ helpers \in [Message -> HelperType] /\ calls \in [Message -> Nat]
      /\ deployed \subseteq Task \X RcCommit /\ workers \in [Task -> WorkerType]
      /\ \A t \in Task : workers[t].pc = "git" => workers[t].approval \in Message
  BY DEF IInv, Typing, TypeOK, HelperType, WorkerType, MutexSound
<1> DEFINE Typed == /\ helpers' \in [Message -> HelperType] /\ calls' \in [Message -> Nat]
                    /\ deployed' \subseteq Task \X RcCommit
<1> SUFFICES Typed
  OBVIOUS
<1> DEFINE Updates(h) ==
      /\ \A pc \in {"started", "ready"} : [h EXCEPT !.pc = pc] \in HelperType
      /\ \A c \in RcCommit : [h EXCEPT !.pc = "ready", !.head = c] \in HelperType
<1>2. ASSUME NEW h \in HelperType PROVE Updates(h)
  BY DEF HelperType
<1>3. \A m \in Message : Updates(helpers[m])
  <2> HIDE DEF Updates
  <2> QED
    BY <1>1, <1>2
<1>4. CASE UNCHANGED <<helpers, calls, deployed>>
  BY <1>1, <1>4
<1>5. ASSUME NEW t \in Task, Call(t)
      PROVE  Typed
  <2>1. \/ UNCHANGED <<helpers, calls, deployed>>
        \/ \E m \in Message : /\ helpers' = [helpers EXCEPT ![m].pc = "started"]
                              /\ calls' = [calls EXCEPT ![m] = @ + 1]
                              /\ deployed' = deployed
    BY <1>1, <1>5 DEF Call, At
  <2>2. ASSUME NEW m \in Message, helpers' = [helpers EXCEPT ![m].pc = "started"]
        PROVE  helpers' \in [Message -> HelperType]
    <3>1. [helpers[m] EXCEPT !.pc = "started"] \in HelperType
      BY <1>3
    <3> QED
      BY <1>1, <2>2, <3>1
  <2>3. ASSUME NEW m \in Message, calls' = [calls EXCEPT ![m] = @ + 1]
        PROVE  calls' \in [Message -> Nat]
    BY <1>1, <2>3
  <2> QED
    BY <1>1, <2>1, <2>2, <2>3
<1>6. ASSUME NEW m \in Message, NEW o \in Outcome, NEW h \in RcCommit \cup {NoCommit},
             Ends(m, o, h)
      PROVE  helpers' \in [Message -> HelperType]
  BY <1>1, <1>6 DEF Ends, HelperType
<1>7. ASSUME NEW m \in Message, FetchMerge(m) \/ PushMerge(m) \/ FetchDeploy(m),
             UNCHANGED calls
      PROVE  Typed
  <2>1. rcHead[Shared(m)] \in RcCommit
    BY <1>7, HelperTask DEF FetchMerge, PushMerge, FetchDeploy
  <2>2. CASE FetchMerge(m)
    <3> DEFINE c == rcHead[Shared(m)]
    <3>1. UNCHANGED <<rcHead, deployed>>
      BY <2>2 DEF FetchMerge
    <3>2. \/ helpers' = [helpers EXCEPT ![m].pc = "ready", ![m].head = c]
          \/ \E o \in Outcome : Ends(m, o, NoCommit)
      BY <2>2 DEF FetchMerge, Outcome
    <3> HIDE DEF c
    <3>3. [helpers[m] EXCEPT !.pc = "ready", !.head = c] \in HelperType
      BY <1>3, <2>1 DEF c
    <3>4. CASE helpers' = [helpers EXCEPT ![m].pc = "ready", ![m].head = c]
      <4>1. helpers' = [helpers EXCEPT ![m] = [helpers[m] EXCEPT !.pc = "ready",
                                                                 !.head = c]]
        BY <3>4
      <4> QED
        BY <1>1, <1>7, <3>1, <3>3, <4>1
    <3> QED
      BY <1>1, <1>6, <1>7, <3>1, <3>2, <3>4
  <2>3. CASE PushMerge(m)
    <3> DEFINE new == helpers[m].head \cup {approvals[m].commit}
    <3>1. approvals[m].kind = "merge" /\ helpers[m].pc = "ready" /\ deployed' = deployed
      BY <2>3 DEF PushMerge
    <3>2. new \in RcCommit
      BY <3>1, HelperTask, RcCommitGrows DEF IInv, HelperSound
    <3>3. \/ \E o \in {"failed", "merge_conflict"} : Ends(m, o, NoCommit)
          \/ Ends(m, "ok", new)
      BY <2>3 DEF PushMerge
    <3> QED
      BY <1>1, <1>6, <1>7, <3>1, <3>2, <3>3 DEF Outcome
  <2>4. CASE FetchDeploy(m)
    <3>1. deployed' = deployed
      BY <2>4 DEF FetchDeploy
    <3>2. \/ Ends(m, "failed", NoCommit) \/ Ends(m, "commit_changed", rcHead[Shared(m)])
          \/ helpers' = [helpers EXCEPT ![m].pc = "ready"]
      BY <2>4 DEF FetchDeploy
    <3> QED
      BY <1>1, <1>3, <1>6, <1>7, <2>1, <3>1, <3>2 DEF Outcome
  <2> QED
    BY <1>7, <2>2, <2>3, <2>4
<1>8. ASSUME NEW m \in Message, RunDeploy(m), UNCHANGED calls
      PROVE  Typed
  <2>1. approvals[m].kind = "deploy" /\ helpers[m].pc = "ready"
    BY <1>8 DEF RunDeploy
  <2>2. <<approvals[m].task, approvals[m].commit>> \in Task \X RcCommit
    BY <2>1, HelperTask DEF InRc
  <2>3. /\ deployed' = deployed \cup {<<approvals[m].task, approvals[m].commit>>}
        /\ \E o \in {"ok", "failed"} : Ends(m, o, NoCommit)
    BY <1>8 DEF RunDeploy
  <2> QED
    BY <1>1, <1>6, <1>8, <2>2, <2>3 DEF Outcome
<1>9. \/ UNCHANGED <<helpers, calls, deployed>>
      \/ \E t \in Task : Call(t)
      \/ \E m \in Message :
           /\ FetchMerge(m) \/ PushMerge(m) \/ FetchDeploy(m) \/ RunDeploy(m)
           /\ UNCHANGED calls
  BY WorldSteps DEF World, Help, ForeignPush
<1> HIDE DEF Typed
<1> QED
  BY <1>4, <1>5, <1>7, <1>8, <1>9

LEMMA NextTyping == IInv /\ [Next]_vars => Typing'
<1> SUFFICES ASSUME IInv, [Next]_vars PROVE Typing'
  OBVIOUS
<1> DEFINE All == Task \cup {ScanItem(t) : t \in Task} \cup {W(t) : t \in Task}
<1>1. current \subseteq All
  BY DEF IInv, Typing, TypeOK, W
<1>2. current' \subseteq All
  <2>1. \/ current' \subseteq current
        \/ \E t \in Task : \E x \in Copies(t) : current' \subseteq current \cup {x}
        \/ current' \subseteq current \cup {ScanItem(t) : t \in Task}
    <3>1. ASSUME NEW t \in Task,
                 CommitCommand(t) \/ MoveOn(t) \/ Finish(t) \/ MoveMerged(t)
          PROVE  \E x \in Copies(t) : current' \subseteq current \cup {x}
      BY <3>1 DEF CommitCommand, Approve, MoveOn, Finish, MoveMerged, Save, Copies
    <3>2. ASSUME NEW t \in Task, (\E m \in Message : Read(t, m)) \/ Load(t) \/ Call(t)
          PROVE  \E x \in Copies(t) : current' \subseteq current \cup {x}
      BY <3>2 DEF Read, Load, Call, Copies
    <3>3. ASSUME Scan, \A t \in Task : ~MoveOn(t)
          PROVE  current' \subseteq current \cup {ScanItem(t) : t \in Task}
      BY <3>3 DEF Scan, List, Start
    <3>4. \/ current' \subseteq current
          \/ \E t \in Task : CommitCommand(t) \/ MoveOn(t) \/ Finish(t) \/ MoveMerged(t)
          \/ \E t \in Task : (\E m \in Message : Read(t, m)) \/ Load(t) \/ Call(t)
          \/ Scan
      BY DEF Next, vars, Work, LockRelease, Claim, Answered, StoreFails, Notify, Exit, Help,
             ForeignPush, Crash, RecoverInterrupted
    <3> QED
      BY <3>1, <3>2, <3>3, <3>4
  <2> QED
    BY <1>1, <2>1 DEF Copies
<1> QED
  BY <1>2, NextTables, NextProcess, NextWorkers, NextHelpers, WorldGrows
  DEF Typing, TypeOK, RowType, WorkerType, HelperType, W

-----------------------------------------------------------------------------
(* The rows. *)
RowGood(t, row) ==
  /\ row.commit \in {TaskCommit[t], NoCommit}
  /\ row.status \in {"pushed", "awaiting_merge_approval", "merging"}
       => row.commit = TaskCommit[t]
  /\ row.status \in {"merged", "awaiting_deploy_approval", "deploying",
                     "deployed", "deploy_failed"} => InRc(t, row.rc)
  /\ row.status = "deploying" => row.key = row.rc
  /\ row.status = "deployed" => <<t, row.rc>> \in deployed

(* The steps that save a row, and what they make of it. *)
RowSave(t, row, x) ==
  /\ Save(x, t, row)
  /\ \/ CommitCommand(t) /\ CommandRow(t, row) /\ x = t
     \/ Finish(t) /\ FinishRow(t, row) /\ x = W(t)
     \/ /\ (MovesOn(t) /\ x = ScanItem(t)) \/ (MoveMerged(t) /\ x = W(t))
        /\ rows[t].status = "merged" /\ row.status = "awaiting_deploy_approval"
        /\ row.commit = rows[t].commit /\ row.rc = rows[t].rc

LEMMA SavingSteps ==
  ASSUME IInv, NEW t \in Task
  PROVE  /\ CommitCommand(t) => \E row \in RowType : RowSave(t, row, t)
         /\ Finish(t) => \E row \in RowType : RowSave(t, row, W(t))
         /\ MoveMerged(t) => \E row \in RowType : RowSave(t, row, W(t))
         /\ MovesOn(t) =>
              \/ UNCHANGED <<rows, current>>
              \/ /\ workers[t].pc = "idle"
                 /\ \E row \in RowType : RowSave(t, row, ScanItem(t))
<1>1. Typing
  BY DEF IInv
<1>2. ASSUME CommitCommand(t)
      PROVE  \E row \in RowType : RowSave(t, row, t)
  BY <1>2, CommandSaves DEF RowSave
<1>3. ASSUME Finish(t)
      PROVE  \E row \in RowType : RowSave(t, row, W(t))
  BY <1>3, FinishSaves DEF RowSave
<1>4. ASSUME MoveMerged(t)
      PROVE  \E row \in RowType : RowSave(t, row, W(t))
  <2>1. rows[t].status = "merged"
    BY <1>4 DEF IInv, WorkerSound, MoveMerged, At
  <2>2. Save(W(t), t, Moved(t, "awaiting_deploy_approval"))
    BY <1>4 DEF MoveMerged
  <2> QED
    BY <1>1, <1>4, <2>1, <2>2, MovedRow DEF Status, RowSave
<1>5. ASSUME MovesOn(t)
      PROVE  \/ UNCHANGED <<rows, current>>
             \/ /\ workers[t].pc = "idle"
                /\ \E row \in RowType : RowSave(t, row, ScanItem(t))
  <2>1. \/ UNCHANGED <<rows, current>>
        \/ /\ workers[t].pc = "idle"
           /\ ScanItem(t) \in current /\ t \in scan.todo /\ scan.phase = "merged"
           /\ Save(ScanItem(t), t, Moved(t, "awaiting_deploy_approval"))
    BY <1>5 DEF MovesOn, MoveOn
  <2>2. CASE ~UNCHANGED <<rows, current>>
    <3>1. rows[t].status = "merged"
      BY <2>1, <2>2 DEF IInv, ScanSound
    <3> QED
      BY <1>1, <1>5, <2>1, <2>2, <3>1, MovedRow DEF Status, RowSave
  <2> QED
    BY <2>2
<1> QED
  BY <1>2, <1>3, <1>4, <1>5

LEMMA RowSteps ==
  ASSUME IInv, [Next]_vars
  PROVE  \/ UNCHANGED rows
         \/ RecoverInterrupted
         \/ \E t \in Task : \E row \in RowType : \E x \in Copies(t) : RowSave(t, row, x)
<1>1. ASSUME NEW t \in Task, TableStep(t)
      PROVE  \/ UNCHANGED rows
             \/ \E row \in RowType : \E x \in Copies(t) : RowSave(t, row, x)
  <2>1. ASSUME Claim(t)
        PROVE  UNCHANGED rows
    BY <2>1 DEF Claim
  <2> QED
    BY <1>1, <2>1, SavingSteps DEF TableStep, Copies
<1> QED
  BY <1>1, TableSteps DEF Tables

LEMMA NextRowSound == IInv /\ [Next]_vars => RowSound'
<1> SUFFICES ASSUME IInv, [Next]_vars PROVE RowSound'
  OBVIOUS
<1>1. \A t \in Task : RowGood(t, rows[t])
  BY DEF IInv, RowSound, RowGood
<1>2. ASSUME NEW t \in Task, NEW row, RowGood(t, row)
      PROVE  RowGood(t, row)'
  BY <1>2, WorldGrows DEF RowGood, InRc, InRcNext
<1>3. ASSUME NEW t \in Task, NEW row \in RowType, CommandRow(t, row)
      PROVE  RowGood(t, row)
  <2>1. rows[t] \in RowType
    BY DEF IInv, Typing, TypeOK, RowType
  <2> QED
    BY <1>1, <1>3, <2>1 DEF CommandRow, RowGood
<1>4. ASSUME NEW t \in Task, NEW row \in RowType, FinishRow(t, row)
      PROVE  RowGood(t, row)
  BY <1>1, <1>4 DEF FinishRow, RowGood
<1>5. ASSUME NEW t \in Task, NEW row \in RowType, rows[t].status = "merged",
             row.status = "awaiting_deploy_approval",
             row.commit = rows[t].commit, row.rc = rows[t].rc
      PROVE  RowGood(t, row)
  BY <1>1, <1>5 DEF RowGood
<1>6. ASSUME NEW t \in Task, NEW row, RecoveredRow(t, row)
      PROVE  RowGood(t, row)
  BY <1>1, <1>6 DEF RecoveredRow, RowGood
<1>7. ASSUME NEW t \in Task, NEW row \in RowType, NEW x \in Copies(t), Save(x, t, row),
             RowGood(t, row)
      PROVE  \A u \in Task : RowGood(u, rows'[u])
  BY <1>1, <1>7, SaveEffect DEF IInv
<1>8. \A u \in Task : RowGood(u, rows'[u])
  <2>1. CASE UNCHANGED rows
    BY <1>1, <2>1
  <2>2. CASE RecoverInterrupted
    BY <1>6, <2>2, RecoverySaves
  <2> QED
    BY <1>3, <1>4, <1>5, <1>7, <2>1, <2>2, RowSteps DEF RowSave
<1>9. \A u \in Task : RowGood(u, rows[u])'
  BY <1>2, <1>8
<1> QED
  BY <1>9 DEF RowSound, RowGood

(* The approvals and the deployments. *)
LEMMA NextApprovalSound == IInv /\ [Next]_vars => ApprovalSound'
<1> SUFFICES ASSUME IInv, [Next]_vars, NEW m \in Message, approvals'[m].result # "none"
             PROVE  LET a == approvals'[m] IN
                    /\ m \in processed' /\ a.task \in Task /\ Sender[m] \in Admin
                    /\ a.kind = "merge" => a.commit = TaskCommit[a.task]
                    /\ a.kind = "deploy" => InRcNext(a.task, a.commit)
  BY DEF ApprovalSound, InRc, InRcNext
<1>1. CASE approvals[m].result # "none"
  <2>1. LET a == approvals[m] IN
        /\ m \in processed /\ a.task \in Task /\ Sender[m] \in Admin
        /\ a.kind = "merge" => a.commit = TaskCommit[a.task]
        /\ a.kind = "deploy" => InRc(a.task, a.commit)
    BY <1>1 DEF IInv, ApprovalSound
  <2>2. Same(m)
    BY <1>1, ApprovalsKeep
  <2>3. processed \subseteq processed'
    BY TableSteps DEF TableStep, CommitCommand, MovesOn, scanFrame, WorkFrame,
                      RecoverInterrupted
  <2>4. approvals[m].kind = "deploy" => InRcNext(approvals[m].task, approvals[m].commit)
    BY <2>1, WorldGrows
  <2> QED
    BY <2>1, <2>2, <2>3, <2>4 DEF Same
<1>2. CASE approvals[m].result = "none"
  <2>1. ~UNCHANGED approvals
    BY <1>2
  <2>2. PICK t \in Task : CommitCommand(t) \/ Claim(t) \/ Finish(t)
    BY <2>1, TableSteps DEF TableStep, Tables, MovesOn, scanFrame, MoveMerged,
                            RecoverInterrupted
  <2>3. ~Claim(t)
    BY <1>2, <2>1, ClaimTakes DEF Claimable
  <2>4. ~Finish(t)
    BY <1>2, <2>1, FinishApproves, AtFinish DEF Finish, At
  <2>5. CommitCommand(t) /\ m = handlers[t]
    BY <1>2, <2>2, <2>3, <2>4, CommandApproves
  <2> DEFINE a == approvals'[m]
  <2>6. /\ a.task = t /\ Sender[m] \in Admin /\ a.kind \in {"merge", "deploy"}
        /\ a.commit = BoundCommit(a.kind, rows[t])
        /\ a.kind = "merge" => rows[t].status = "awaiting_merge_approval"
        /\ a.kind = "deploy" => rows[t].status \in {"awaiting_deploy_approval",
                                                    "deploy_failed"}
    BY <2>5, CommandApproves DEF Ledger!Approval
  <2>7. m \in processed'
    BY <2>5 DEF CommitCommand
  <2>8. /\ a.kind = "merge" => a.commit = TaskCommit[t]
        /\ a.kind = "deploy" => InRc(t, a.commit)
    BY <2>6 DEF IInv, RowSound, BoundCommit
  <2>9. a.kind = "deploy" => InRcNext(t, a.commit)
    BY <2>8, WorldGrows
  <2> QED
    BY <2>6, <2>7, <2>8, <2>9
<1> QED
  BY <1>1, <1>2

LEMMA NextDeployedSound == IInv /\ [Next]_vars => DeployedSound'
<1> SUFFICES ASSUME IInv, [Next]_vars, NEW d \in deployed'
             PROVE  \E m \in Message :
                      /\ approvals'[m].result # "none" /\ approvals'[m].kind = "deploy"
                      /\ approvals'[m].task = d[1] /\ approvals'[m].commit = d[2]
  BY DEF DeployedSound
<1>1. CASE d \in deployed
  <2>1. PICK m \in Message :
          /\ approvals[m].result # "none" /\ approvals[m].kind = "deploy"
          /\ approvals[m].task = d[1] /\ approvals[m].commit = d[2]
    BY <1>1 DEF IInv, DeployedSound
  <2> QED
    BY <2>1, ApprovalsKeep DEF Same
<1>2. CASE d \notin deployed
  <2>1. PICK m \in Message : RunDeploy(m) /\ UNCHANGED approvals
    <3>1. ASSUME NEW m \in Message, Help(m)
          PROVE  RunDeploy(m) /\ UNCHANGED approvals
      BY <1>2, <3>1 DEF Help, FetchMerge, PushMerge, FetchDeploy, Tables
    <3> QED
      BY <1>2, <3>1, WorldSteps DEF World, Call, ForeignPush
  <2>2. /\ approvals[m].kind = "deploy" /\ helpers[m].pc = "ready"
        /\ deployed' = deployed \cup {<<approvals[m].task, approvals[m].commit>>}
    BY <2>1 DEF RunDeploy
  <2>3. d = <<approvals[m].task, approvals[m].commit>>
    BY <1>2, <2>2
  <2> QED
    BY <2>1, <2>2, <2>3, HelperTask
<1> QED
  BY <1>1, <1>2

-----------------------------------------------------------------------------
(* The process: what dies with it, and what its copies of the rows are worth. *)
LEMMA NextDownSound == IInv /\ [Next]_vars => DownSound'
<1> SUFFICES ASSUME IInv, [Next]_vars, ~up' PROVE DownSound'
  BY DEF DownSound
<1>1. CASE Crash
  BY <1>1 DEF Crash, DownSound
<1>2. CASE UNCHANGED <<up, current, handlers, workers, releaseMu>>
  BY <1>2 DEF IInv, DownSound
<1>3. ASSUME up PROVE Crash
  <2>1. Crash \/ UNCHANGED up \/ RecoverInterrupted
    BY DEF Next, vars, Work, Scan, scanFrame, Read, CommitCommand, Help, ForeignPush
  <2> QED
    BY <1>3, <2>1 DEF RecoverInterrupted
<1>4. ASSUME ~up PROVE UNCHANGED <<up, current, handlers, workers, releaseMu>>
  <2>1. ~Scan /\ ~Crash /\ ~RecoverInterrupted
    BY <1>4 DEF Scan, List, Start, MoveOn, Crash, RecoverInterrupted
  <2>2. ASSUME NEW t \in Task
        PROVE  ~CommitCommand(t) /\ ~Work(t) /\ ~StoreFails(t)
               /\ \A m \in Message : ~Read(t, m)
    BY <1>4 DEF CommitCommand, Read, Work, LockRelease, Load, Claim, Call, Answered, Finish,
                MoveMerged, StoreFails, Notify, Exit, At
  <2>3. UNCHANGED vars \/ (\E m \in Message : Help(m)) \/ (\E p \in Project : ForeignPush(p))
    BY <2>1, <2>2 DEF Next
  <2> QED
    BY <2>3 DEF vars, Help, ForeignPush
<1> QED
  BY <1>1, <1>2, <1>3, <1>4

(* A copy of a row becomes stale when another one is saved, and is dropped   *)
(* by a new scan, by the end of its worker and by a crash.                   *)
LEMMA CopiesKept ==
  ASSUME IInv, [Next]_vars, NEW y \in current, y \notin current'
  PROVE  \/ Crash
         \/ \E t \in Task : y = ScanItem(t)
         \/ \E t \in Task : y = W(t) /\ Exit(t)
         \/ \E t \in Task : \E row \in RowType : \E x \in Copies(t) :
              RowSave(t, row, x) /\ y \in Copies(t) /\ y # x
<1>1. ASSUME NEW t \in Task, NEW row \in RowType, NEW x \in Copies(t), RowSave(t, row, x)
      PROVE  y \in Copies(t) /\ y # x
  BY <1>1 DEF RowSave, Save
<1>2. ASSUME NEW t \in Task, CommitCommand(t) \/ Finish(t) \/ MoveMerged(t) \/ MovesOn(t)
      PROVE  \E row \in RowType : \E x \in Copies(t) : RowSave(t, row, x)
  BY <1>2, SavingSteps DEF Copies
<1>3. CASE Scan
  <2>1. CASE \E t \in Task : MovesOn(t)
    BY <1>1, <1>2, <2>1
  <2>2. CASE \A t \in Task : ~MovesOn(t)
    BY <1>3, <2>2 DEF Scan, List, Start, MovesOn
  <2> QED
    BY <2>1, <2>2
<1>4. \/ Crash \/ Scan \/ \E t \in Task : Exit(t)
      \/ \E t \in Task : CommitCommand(t) \/ Finish(t) \/ MoveMerged(t)
  BY DEF Next, vars, Work, Read, LockRelease, Load, Claim, Call, Answered,
         StoreFails, Notify, Help, ForeignPush, RecoverInterrupted
<1> QED
  BY <1>1, <1>2, <1>3, <1>4 DEF Exit

(* A handler is never at work on a task that is in a stage of the release. *)
LEMMA HandlerStatus ==
  ASSUME IInv, NEW t \in Task, handlers[t] # NoMessage
  PROVE  rows[t].status \notin {"merging", "deploying", "merged"}
BY DEF IInv, Typing, TypeOK, HandlerSound, Admits, CanTransition

LEMMA NextHandlerSound == IInv /\ [Next]_vars => HandlerSound'
<1> SUFFICES ASSUME IInv, [Next]_vars, NEW t \in Task, handlers'[t] # NoMessage
             PROVE  /\ t \in current' /\ Admits(handlers[t], t)'
                    /\ handlers'[t] \notin processed' \cup inbox'
                    /\ \A u \in Task : handlers'[u] = handlers'[t] => u = t
  BY DEF HandlerSound, Admits
<1>1. handlers \in [Task -> Message \cup {NoMessage}] /\ Typing
  BY DEF IInv, Typing, TypeOK
<1>2. \A u \in Task : handlers[u] # NoMessage =>
        /\ u \in current /\ Admits(handlers[u], u)
        /\ handlers[u] \notin processed \cup inbox
        /\ \A v \in Task : handlers[v] = handlers[u] => v = u
  BY DEF IInv, HandlerSound
<1>3. ASSUME NEW u \in Task, NEW m \in Message, Read(u, m)
      PROVE  /\ t \in current' /\ Admits(handlers[t], t)'
             /\ handlers'[t] \notin processed' \cup inbox'
             /\ \A v \in Task : handlers'[v] = handlers'[t] => v = t
  <2>1. /\ handlers' = [handlers EXCEPT ![u] = m] /\ UNCHANGED <<rows, processed>>
        /\ m \in inbox /\ m \notin processed /\ inbox' = inbox \ {m}
        /\ current' = current \cup {u} /\ Admits(m, u)
    BY <1>3 DEF Read
  <2>2. Admits(handlers[t], t)'
    BY <1>1, <1>2, <2>1 DEF Admits
  <2> QED
    BY <1>1, <1>2, <2>1, <2>2
<1>4. ASSUME ~ \E u \in Task : \E m \in Message : Read(u, m)
      PROVE  /\ \A u \in Task : handlers'[u] = handlers[u] \/ handlers'[u] = NoMessage
             /\ inbox' = inbox
             /\ \/ processed' = processed
                \/ \E u \in Task : /\ CommitCommand(u) /\ handlers'[u] = NoMessage
                                   /\ processed' = processed \cup {handlers[u]}
  <2>1. \/ UNCHANGED <<handlers, inbox, processed>>
        \/ handlers' = [u \in Task |-> NoMessage] /\ UNCHANGED <<inbox, processed>>
        \/ \E u \in Task : CommitCommand(u)
    BY <1>4 DEF Next, vars, Work, StoreFails, Scan, scanFrame, Help, ForeignPush, Crash,
                RecoverInterrupted
  <2>2. ASSUME NEW u \in Task, CommitCommand(u)
        PROVE  /\ handlers' = [handlers EXCEPT ![u] = NoMessage] /\ inbox' = inbox
               /\ processed' = processed \cup {handlers[u]}
    BY <2>2 DEF CommitCommand
  <2> QED
    BY <1>1, <2>1, <2>2
<1>5. CASE ~ \E u \in Task : \E m \in Message : Read(u, m)
  <2>1. handlers'[t] = handlers[t] /\ handlers[t] # NoMessage
    BY <1>4, <1>5
  <2>2. up /\ ~RecoverInterrupted /\ ~Crash
    BY <2>1 DEF IInv, DownSound, RecoverInterrupted, Crash
  <2>3. ASSUME NEW row \in RowType, NEW x \in Copies(t), RowSave(t, row, x)
        PROVE  FALSE
    <3>1. CommitCommand(t)
      BY <2>1, <2>3, HandlerStatus DEF RowSave, FinishRow
    <3> QED
      BY <1>1, <2>1, <3>1 DEF CommitCommand
  <2>4. rows'[t] = rows[t]
    BY <1>1, <2>2, <2>3, RowSteps, SaveEffect DEF RowSave
  <2>5. Admits(handlers[t], t)'
    BY <1>2, <2>1, <2>4 DEF Admits
  <2>6. t \in current'
    <3>1. \A u \in Task : t \in Copies(u) => u = t
      BY CopiesDiffer DEF Copies
    <3> QED
      BY <1>2, <2>1, <2>2, <2>3, <3>1, CopiesKept, CopiesDiffer
  <2>7. handlers[t] \notin processed' \cup inbox'
    BY <1>2, <1>4, <1>5, <2>1
  <2> QED
    BY <1>2, <1>4, <1>5, <2>1, <2>5, <2>6, <2>7
<1> QED
  BY <1>3, <1>5

LEMMA NextScanSound == IInv /\ [Next]_vars => ScanSound'
<1>0. IInv /\ [Next]_vars => scan'.todo \subseteq Task
  BY NextProcess
<1> SUFFICES ASSUME IInv, [Next]_vars, NEW t \in Task, t \in scan'.todo, ScanItem(t) \in current'
             PROVE  rows'[t].status = scan'.phase
  BY <1>0 DEF ScanSound, ScanItem
<1>1. Typing /\ scan \in [phase : {"merging", "deploying", "merged"}, todo : SUBSET Task]
  BY DEF IInv, Typing, TypeOK
<1>2. t \in scan.todo /\ ScanItem(t) \in current => rows[t].status = scan.phase
  BY DEF IInv, ScanSound
<1>3. ASSUME NEW phase, NEW next, List(phase, next)
      PROVE  rows'[t].status = scan'.phase
  BY <1>3 DEF List
<1>4. ASSUME ~ \E phase, next \in {"merging", "deploying", "merged"} : List(phase, next)
      PROVE  /\ scan'.todo \subseteq scan.todo
             /\ scan'.todo # {} => scan'.phase = scan.phase
             /\ ScanItem(t) \in current
  <2>1. \/ UNCHANGED scan
        \/ \E u \in Task : scan' = [scan EXCEPT !.todo = @ \ {u}]
        \/ scan'.todo = {}
    <3>1. CASE Scan
      BY <1>4, <3>1 DEF Scan, Start, MoveOn
    <3>2. CASE ~Scan
      BY <3>2 DEF Next, vars, CommitCommand, Read, Work, StoreFails, Help, ForeignPush, Crash,
           RecoverInterrupted
    <3> QED
      BY <3>1, <3>2
  <2>2. /\ scan'.todo \subseteq scan.todo
        /\ scan'.todo # {} => scan'.phase = scan.phase
    BY <1>1, <2>1
  <2>3. \/ current' \subseteq current
        \/ \E u \in Task : \E x \in {u, W(u)} : current' \subseteq current \cup {x}
    <3>1. ASSUME NEW u \in Task,
                 (\E m \in Message : Read(u, m)) \/ Load(u) \/ Call(u)
          PROVE  \E x \in {u, W(u)} : current' \subseteq current \cup {x}
      BY <3>1 DEF Read, Load, Call
    <3>2. ASSUME NEW u \in Task,
                 CommitCommand(u) \/ Finish(u) \/ MoveMerged(u) \/ MovesOn(u)
          PROVE  current' \subseteq current
      BY <3>2, SavingSteps, SaveEffect DEF RowSave, Copies, IInv
    <3>3. CASE Scan
      BY <1>4, <3>2, <3>3 DEF Scan, Start, MovesOn
    <3>4. CASE ~Scan
      BY <3>1, <3>2, <3>4 DEF Next, vars, Work, LockRelease, Claim, Answered, StoreFails,
           Notify, Exit, Help, ForeignPush, Crash, RecoverInterrupted
    <3> QED
      BY <3>3, <3>4
  <2> QED
    BY <2>2, <2>3, CopiesDiffer
<1>5. CASE ~ \E phase, next \in {"merging", "deploying", "merged"} : List(phase, next)
  <2>1. rows[t].status = scan'.phase /\ t \in scan.todo /\ ScanItem(t) \in current
    BY <1>2, <1>4, <1>5
  <2>2. ~RecoverInterrupted
    BY <2>1 DEF IInv, DownSound, RecoverInterrupted
  <2>3. ASSUME NEW row \in RowType, NEW x \in Copies(t), RowSave(t, row, x)
        PROVE  FALSE
    <3>1. x = ScanItem(t)
      BY <1>1, <2>3, SaveEffect DEF RowSave, Copies
    <3>2. MovesOn(t)
      BY <2>3, <3>1, CopiesDiffer DEF RowSave
    <3> QED
      BY <1>1, <3>2 DEF MovesOn, MoveOn
  <2>4. rows'[t] = rows[t]
    BY <1>1, <2>2, <2>3, RowSteps, SaveEffect DEF RowSave
  <2> QED
    BY <2>1, <2>4
<1> QED
  BY <1>3, <1>5

-----------------------------------------------------------------------------
(* The workers. *)

(* What a worker holds from the claim until it has stored the outcome; so   *)
(* the approval it calls the helper for always still fits the task.         *)
LEMMA AtClaimed ==
  ASSUME IInv, NEW t \in Task, workers[t].pc \in {"git", "call", "finish"}
  PROVE  LET m == workers[t].approval IN
         /\ m \in Message /\ m # NoMessage /\ P(t) \in Project /\ locks[P(t)] = m
         /\ approvals[m].task = t /\ approvals[m].kind = Kind(t)
         /\ Kind(t) \in {"merge", "deploy"}
         /\ approvals[m].result = "executing"
         /\ InStage(t) /\ Fits(t)
<1> DEFINE m == workers[t].approval
<1>1. m \in Message /\ m # NoMessage /\ Kind(t) \in {"merge", "deploy"} /\ P(t) \in Project
  BY DEF IInv, Typing, TypeOK, MutexSound, Kind, P
<1>2. /\ locks[P(t)] = m /\ approvals[m].task = t /\ approvals[m].kind = Kind(t)
      /\ approvals[m].result = "executing"
  BY DEF IInv, WorkerSound, Kind
<1>3. /\ rows[t].status = ExecutingStatus(Kind(t))
      /\ BoundCommit(Kind(t), rows[t]) = approvals[m].commit
  BY <1>1, <1>2 DEF IInv, LockSound
<1>4. Kind(t) = "deploy" => rows[t].key = rows[t].rc
  BY <1>3 DEF IInv, RowSound, ExecutingStatus
<1> QED
  BY <1>1, <1>2, <1>3, <1>4 DEF InStage, Fits, BoundCommit

(* Two workers between their mutexes are of different projects. *)
LEMMA MutexKept ==
  ASSUME IInv, [Next]_vars, NEW t \in Task, releaseMu[P(t)] = t, ~Crash, ~Exit(t)
  PROVE  releaseMu'[P(t)] = t
<1>1. releaseMu \in [Project -> Task \cup {NoTask}] /\ P(t) \in Project
  BY DEF IInv, Typing, TypeOK, P
<1>2. \/ UNCHANGED releaseMu
      \/ \E u \in Task : LockRelease(u) \/ Exit(u)
  BY DEF Next, vars, CommitCommand, Read, Work, StoreFails, Scan, scanFrame, Help,
         ForeignPush, RecoverInterrupted, Load, Claim, Call, Answered, Finish,
         MoveMerged, Notify
<1>3. ASSUME NEW u \in Task, LockRelease(u)
      PROVE  releaseMu'[P(t)] = t
  BY <1>1, <1>3 DEF LockRelease
<1>4. ASSUME NEW u \in Task, Exit(u)
      PROVE  releaseMu'[P(t)] = t
  <2>1. releaseMu[P(u)] = u /\ u # t
    BY <1>4 DEF IInv, MutexSound, Exit, At
  <2> QED
    BY <1>1, <1>4, <2>1 DEF Exit
<1> QED
  BY <1>1, <1>2, <1>3, <1>4

(* A worker moves by its own steps, starts with the scan and dies with the  *)
(* process.                                                                 *)
LEMMA WorkerSteps ==
  ASSUME IInv, [Next]_vars, NEW t \in Task
  PROVE  \/ workers'[t] = workers[t]
         \/ workers'[t] = Idle /\ (Exit(t) \/ Crash)
         \/ /\ workers[t].pc = "idle" /\ workers'[t].pc = "wait"
            /\ workers'[t].approval = NoMessage
         \/ (Work(t) /\ ~Exit(t)) \/ (StoreFails(t) /\ WorkFrame)
<1>1. workers \in [Task -> WorkerType]
  BY DEF IInv, Typing, TypeOK, WorkerType
<1>2. CASE Scan
  <2>1. ASSUME NEW u \in Task, NEW phase, NEW kind, Start(u, phase, kind)
        PROVE  \/ workers'[t] = workers[t]
               \/ /\ workers[t].pc = "idle" /\ workers'[t].pc = "wait"
                  /\ workers'[t].approval = NoMessage
    <3> DEFINE new == [Idle EXCEPT !.pc = "wait", !.kind = kind]
    <3>1. new.pc = "wait" /\ new.approval = NoMessage
      BY DEF Idle
    <3>2. workers' = IF workers[u].pc # "idle" THEN workers ELSE [workers EXCEPT ![u] = new]
      BY <2>1 DEF Start
    <3> HIDE DEF new
    <3> QED
      BY <1>1, <3>1, <3>2
  <2> QED
    BY <1>2, <2>1 DEF Scan, List, MoveOn
<1>3. ASSUME NEW u \in Task, Work(u) \/ (StoreFails(u) /\ WorkFrame), u # t
      PROVE  workers'[t] = workers[t]
  BY <1>1, <1>3 DEF Work, LockRelease, Load, Claim, Call, Answered, Finish, MoveMerged,
       StoreFails, Notify, Exit, Go
<1>4. CASE Exit(t)
  BY <1>1, <1>4 DEF Exit
<1>5. CASE Crash
  BY <1>5 DEF Crash
<1> QED
  BY <1>2, <1>3, <1>4, <1>5 DEF Next, vars, CommitCommand, Read, Help, ForeignPush,
     RecoverInterrupted, WorkFrame

(* Where each step of a worker leads. *)
WorkerGoes(t, w, v) ==
  \/ /\ LockRelease(t) /\ v.pc = "load" /\ v.approval = w.approval
  \/ /\ Load(t) /\ v.pc \in {"claim", "exit"} /\ v.approval = w.approval
  \/ /\ Claim(t) /\ v.pc = "exit" /\ v.approval = w.approval
     /\ UNCHANGED <<approvals, locks>>
  \/ /\ Claim(t) /\ v.pc = "git" /\ v.approval \in Message /\ Claimable(t, v.approval)
     /\ locks' = [locks EXCEPT ![P(t)] = v.approval]
     /\ approvals'[v.approval].result = "executing" /\ Same(v.approval)
  \/ /\ Call(t) /\ v.pc = "call" /\ v.approval = w.approval
     /\ helpers' = [helpers EXCEPT ![w.approval].pc = "started"]
     /\ calls' = [calls EXCEPT ![w.approval] = @ + 1]
     /\ current' = current \cup {W(t)}
  \/ /\ Answered(t) /\ v.pc = "finish" /\ v.approval = w.approval
     /\ v.outcome = helpers[w.approval].outcome /\ v.head = helpers[w.approval].head
  \/ /\ Finish(t) /\ v.approval = NoMessage /\ v.pc \in {"to_awaiting", "notify"}
     /\ v.pc = "to_awaiting" => (w.kind = "merge" /\ w.outcome = "ok")
  \/ /\ MoveMerged(t) /\ v.pc = "notify" /\ v.approval = w.approval
  \/ /\ StoreFails(t) /\ v.pc = "exit" /\ v.approval = NoMessage
  \/ /\ Notify(t) /\ v.pc = "exit" /\ v.approval = w.approval

LEMMA WorkerMoves ==
  ASSUME IInv, NEW t \in Task, (Work(t) /\ ~Exit(t)) \/ StoreFails(t)
  PROVE  /\ WorkerGoes(t, workers[t], workers'[t]) /\ up
         /\ workers'[t].kind = workers[t].kind
         /\ workers[t].pc # "idle" /\ workers'[t].pc # workers[t].pc
<1>1. workers \in [Task -> WorkerType]
  BY DEF IInv, Typing, TypeOK, WorkerType
<1>2. PICK w \in WorkerType : w = workers[t]
  BY <1>1
<1>3. ASSUME NEW pc, Go(t, pc)
      PROVE  /\ workers'[t].pc = pc /\ workers'[t].approval = w.approval
             /\ workers'[t].kind = w.kind
  <2>1. workers' = [workers EXCEPT ![t] = [w EXCEPT !.pc = pc]]
    BY <1>2, <1>3 DEF Go
  <2>2. LET v == [w EXCEPT !.pc = pc] IN
        v.pc = pc /\ v.approval = w.approval /\ v.kind = w.kind
    BY DEF WorkerType
  <2> QED
    BY <1>1, <2>1, <2>2
<1>4. CASE LockRelease(t) \/ Load(t) \/ MoveMerged(t) \/ Notify(t)
  BY <1>2, <1>3, <1>4 DEF LockRelease, Load, MoveMerged, Notify, At, WorkerGoes
<1>5. CASE Claim(t)
  <2>1. w.pc = "claim" /\ up
    BY <1>2, <1>5 DEF Claim, At
  <2>2. CASE UNCHANGED <<approvals, locks>> /\ Go(t, "exit")
    BY <1>2, <1>3, <1>5, <2>1, <2>2 DEF WorkerGoes
  <2>3. ASSUME NEW m \in Message, Claimable(t, m),
               Same(m) /\ approvals'[m].result = "executing",
               locks' = [locks EXCEPT ![P(t)] = m],
               workers' = [workers EXCEPT ![t].pc = "git", ![t].approval = m]
        PROVE  /\ WorkerGoes(t, w, workers'[t])
               /\ workers'[t].pc = "git" /\ workers'[t].kind = w.kind
    <3> DEFINE v == [w EXCEPT !.pc = "git", !.approval = m]
    <3>1. workers' = [workers EXCEPT ![t] = v]
      BY <1>2, <2>3
    <3>2. v.pc = "git" /\ v.approval = m /\ v.kind = w.kind
      BY DEF WorkerType
    <3> HIDE DEF v
    <3>3. workers'[t] = v
      BY <1>1, <3>1
    <3> QED
      BY <1>5, <2>3, <3>2, <3>3 DEF WorkerGoes
  <2> QED
    BY <1>2, <1>5, <2>1, <2>2, <2>3, ClaimTakes
<1>6. CASE Call(t)
  <2>1. w.pc = "git" /\ up
    BY <1>2, <1>6 DEF Call, At
  <2>2. InStage(t) /\ Fits(t)
    BY <1>2, <2>1, AtClaimed
  <2>3. Go(t, "call") /\ helpers' = [helpers EXCEPT ![w.approval].pc = "started"]
        /\ calls' = [calls EXCEPT ![w.approval] = @ + 1] /\ current' = current \cup {W(t)}
    BY <1>2, <1>6, <2>2 DEF Call
  <2> QED
    BY <1>2, <1>3, <1>6, <2>1, <2>3 DEF WorkerGoes
<1>7. CASE Answered(t)
  <2>1. w.pc = "call" /\ up
    BY <1>2, <1>7 DEF Answered, At
  <2> DEFINE h == helpers[w.approval]
             v == [w EXCEPT !.pc = "finish", !.outcome = h.outcome, !.head = h.head]
  <2>2. workers' = [workers EXCEPT ![t] = v]
    BY <1>2, <1>7 DEF Answered
  <2> HIDE DEF h
  <2>3. /\ v.pc = "finish" /\ v.approval = w.approval /\ v.kind = w.kind
        /\ v.outcome = h.outcome /\ v.head = h.head
    BY DEF WorkerType
  <2> HIDE DEF v
  <2>4. workers'[t] = v
    BY <1>1, <2>2
  <2> QED
    BY <1>2, <1>7, <2>1, <2>3, <2>4 DEF WorkerGoes, h
<1>8. CASE Finish(t) \/ StoreFails(t)
  <2>1. w.pc \in {"finish", "to_awaiting"} /\ up /\ (Finish(t) => w.pc = "finish")
    BY <1>2, <1>8 DEF Finish, StoreFails, At
  <2>2. PICK pc \in {"to_awaiting", "notify", "exit"} :
          /\ workers' = [workers EXCEPT ![t] = [w EXCEPT !.approval = NoMessage, !.pc = pc]]
          /\ \/ StoreFails(t) /\ pc = "exit"
             \/ /\ Finish(t) /\ pc # "exit"
                /\ pc = "to_awaiting" => (w.kind = "merge" /\ w.outcome = "ok")
    <3>1. CASE StoreFails(t)
      <4> DEFINE v == [w EXCEPT !.approval = NoMessage, !.pc = "exit"]
      <4>1. v = [w EXCEPT !.pc = "exit", !.approval = NoMessage]
        BY DEF WorkerType
      <4>2. workers' = [workers EXCEPT ![t] = [w EXCEPT !.pc = "exit", !.approval = NoMessage]]
        BY <1>2, <3>1 DEF StoreFails
      <4> QED
        BY <3>1, <4>1, <4>2
    <3>2. CASE Finish(t)
      <4> DEFINE pc == IF Kind(t) = "merge" /\ workers[t].outcome = "ok"
                         THEN "to_awaiting" ELSE "notify"
      <4>1. workers' = [workers EXCEPT ![t] = [w EXCEPT !.approval = NoMessage, !.pc = pc]]
        BY <1>2, <3>2 DEF Finish
      <4>2. /\ pc \in {"to_awaiting", "notify"}
            /\ pc = "to_awaiting" => (w.kind = "merge" /\ w.outcome = "ok")
        BY <1>2 DEF Kind
      <4> HIDE DEF pc
      <4> QED
        BY <3>2, <4>1, <4>2
    <3> QED
      BY <1>8, <3>1, <3>2
  <2> DEFINE v == [w EXCEPT !.approval = NoMessage, !.pc = pc]
  <2>3. v.pc = pc /\ v.approval = NoMessage /\ v.kind = w.kind
    BY DEF WorkerType
  <2>4. workers' = [workers EXCEPT ![t] = v]
    BY <2>2
  <2> HIDE DEF v
  <2>5. workers'[t] = v
    BY <1>1, <2>4
  <2> QED
    BY <1>2, <2>1, <2>2, <2>3, <2>5 DEF WorkerGoes
<1> QED
  BY <1>4, <1>5, <1>6, <1>7, <1>8 DEF Work

LEMMA NextMutexSound == IInv /\ [Next]_vars => MutexSound'
<1> SUFFICES ASSUME IInv, [Next]_vars, NEW t \in Task
             PROVE  /\ workers'[t].pc \notin {"idle", "wait"} => releaseMu'[P(t)] = t
                    /\ workers'[t].approval # NoMessage <=>
                         workers'[t].pc \in {"git", "call", "finish"}
  BY DEF MutexSound, P
<1>1. /\ workers[t].pc \notin {"idle", "wait"} => releaseMu[P(t)] = t
      /\ workers[t].approval # NoMessage <=> workers[t].pc \in {"git", "call", "finish"}
  BY DEF IInv, MutexSound
<1>2. Idle.pc = "idle" /\ Idle.approval = NoMessage
  BY DEF Idle
<1>3. CASE workers'[t] = workers[t]
  <2>1. ASSUME workers[t].pc \notin {"idle", "wait"}
        PROVE  ~Crash /\ ~Exit(t)
    <3>1. workers \in [Task -> WorkerType]
      BY DEF IInv, Typing, TypeOK, WorkerType
    <3> QED
      BY <1>2, <1>3, <2>1, <3>1 DEF Crash, Exit
  <2> QED
    BY <1>1, <1>3, <2>1, MutexKept
<1>4. CASE workers'[t] = Idle
  BY <1>2, <1>4
<1>5. CASE workers'[t].pc = "wait" /\ workers'[t].approval = NoMessage
  BY <1>5
<1>6. CASE (Work(t) /\ ~Exit(t)) \/ (StoreFails(t) /\ WorkFrame)
  <2>1. WorkerGoes(t, workers[t], workers'[t]) /\ up
    BY <1>6, WorkerMoves
  <2>2. releaseMu'[P(t)] = t
    <3>1. CASE LockRelease(t)
      BY <3>1 DEF LockRelease, IInv, Typing, TypeOK, P
    <3>2. CASE ~LockRelease(t)
      <4>1. workers[t].pc \notin {"idle", "wait"}
        BY <1>6, <3>2 DEF Work, Load, Claim, Call, Answered, Finish, MoveMerged,
             StoreFails, Notify, At
      <4>2. UNCHANGED releaseMu
        BY <1>6, <3>2 DEF Work, Load, Claim, Call, Answered, Finish, MoveMerged,
             StoreFails, Notify
      <4> QED
        BY <1>1, <4>1, <4>2
    <3> QED
      BY <3>1, <3>2
  <2>3. workers'[t].approval # NoMessage <=> workers'[t].pc \in {"git", "call", "finish"}
    BY <1>1, <2>1 DEF WorkerGoes, LockRelease, Load, Claim, Call, Answered, MoveMerged,
         Notify, At
  <2> QED
    BY <2>2, <2>3
<1> QED
  BY <1>3, <1>4, <1>5, <1>6, WorkerSteps

LEMMA NextLockSound == IInv /\ [Next]_vars => LockSound'
<1> SUFFICES ASSUME IInv, [Next]_vars, NEW p \in Project, locks'[p] # NoMessage
             PROVE  LET a == approvals'[locks'[p]] IN
                    /\ a.result = "executing" /\ a.task \in Task /\ P(a.task) = p
                    /\ rows'[a.task].status = ExecutingStatus(a.kind)
                    /\ BoundCommit(a.kind, rows'[a.task]) = a.commit
  BY DEF LockSound, P, ExecutingStatus, BoundCommit
<1>1. Typing /\ locks \in [Project -> Message \cup {NoMessage}]
      /\ rows \in [Task -> RowType]
  BY DEF IInv, Typing, TypeOK, RowType
<1>2. ~RecoverInterrupted
  BY RecoverySaves
<1>3. ASSUME NEW t \in Task, Claim(t), locks'[p] # locks[p]
      PROVE  LET a == approvals'[locks'[p]] IN
             /\ a.result = "executing" /\ a.task \in Task /\ P(a.task) = p
             /\ rows'[a.task].status = ExecutingStatus(a.kind)
             /\ BoundCommit(a.kind, rows'[a.task]) = a.commit
  <2>1. PICK m \in Message :
          /\ Claimable(t, m) /\ Same(m) /\ approvals'[m].result = "executing"
          /\ locks' = [locks EXCEPT ![P(t)] = m]
    BY <1>3, ClaimTakes
  <2>2. P(t) = p /\ locks'[p] = m /\ rows' = rows
    BY <1>1, <1>3, <2>1 DEF Claim
  <2> QED
    BY <2>1, <2>2 DEF Claimable, InStage, Same
<1>4. CASE locks'[p] = locks[p]
  <2> DEFINE m == locks[p]  t == approvals[m].task
  <2>1. /\ m \in Message /\ approvals[m].result = "executing" /\ t \in Task /\ P(t) = p
        /\ rows[t].status = ExecutingStatus(approvals[m].kind)
        /\ BoundCommit(approvals[m].kind, rows[t]) = approvals[m].commit
    BY <1>1, <1>4 DEF IInv, LockSound
  <2> HIDE DEF m
  <2>2. ~Finish(t)
    BY <1>1, <1>4, <2>1 DEF Finish, m
  <2>3. Same(m) /\ approvals'[m].result = "executing"
    <3>1. ~ \E u \in Task : Finish(u) /\ workers[u].approval = m
      <4> SUFFICES ASSUME NEW u \in Task, Finish(u), workers[u].approval = m
                   PROVE  FALSE
        OBVIOUS
      <4>1. workers[u].pc = "finish"
        BY DEF Finish, At
      <4>2. approvals[m].task = u
        BY <4>1, AtFinish
      <4> QED
        BY <2>2, <4>2
    <3> QED
      BY <2>1, <3>1, ApprovalsKeep
  <2>4. ASSUME NEW row \in RowType, NEW x \in Copies(t), RowSave(t, row, x)
        PROVE  FALSE
    <3>1. rows[t].status \in {"merging", "deploying"}
      BY <2>1 DEF ExecutingStatus
    <3>2. CommitCommand(t)
      BY <2>2, <2>4, <3>1 DEF RowSave
    <3> QED
      BY <2>1, <3>1, <3>2, CommandSaves
  <2>5. rows'[t] = rows[t]
    BY <1>1, <1>2, <2>1, <2>4, RowSteps, SaveEffect DEF RowSave
  <2> QED
    BY <1>4, <2>1, <2>3, <2>5 DEF Same, m
<1>5. CASE locks'[p] # locks[p]
  <2>1. \/ \E t \in Task : Claim(t)
        \/ \E t \in Task : Finish(t)
    BY <1>2, <1>5, TableSteps DEF Tables, TableStep, CommitCommand, MovesOn, MoveMerged, scanFrame
  <2>2. ASSUME NEW t \in Task PROVE ~Finish(t)
    BY <1>1, <1>5 DEF Finish
  <2> QED
    BY <1>3, <1>5, <2>1, <2>2
<1> QED
  BY <1>4, <1>5

(* The scan saves no row of a task that has a worker. *)
LEMMA ScanSavesIdle ==
  ASSUME IInv, NEW t \in Task, NEW row \in RowType, RowSave(t, row, ScanItem(t))
  PROVE  workers[t].pc = "idle"
<1>1. Typing
  BY DEF IInv
<1>2. MovesOn(t) /\ rows[t].status = "merged" /\ row.status = "awaiting_deploy_approval"
  BY CopiesDiffer DEF RowSave
<1>3. rows'[t] = row
  BY <1>1, SaveEffect DEF RowSave, Copies
<1> QED
  BY <1>2, <1>3 DEF MovesOn, MoveOn

(* While a worker rests, the others leave its approval, its lock, its copy  *)
(* and the answer of its helper alone.                                      *)
LEMMA WorkerRests ==
  ASSUME IInv, [Next]_vars, NEW t \in Task, workers'[t] = workers[t],
         workers[t].pc \in {"git", "call", "finish"}
  PROVE  LET m == workers[t].approval IN
         /\ locks'[P(t)] = m /\ Same(m) /\ approvals'[m].result = "executing"
         /\ calls'[m] = calls[m]
         /\ helpers[m].pc = "done" => helpers'[m] = helpers[m]
<1> DEFINE m == workers[t].approval
<1>1. /\ locks \in [Project -> Message \cup {NoMessage}]
      /\ calls \in [Message -> Nat] /\ helpers \in [Message -> HelperType]
      /\ workers \in [Task -> WorkerType]
  BY DEF IInv, Typing, TypeOK, HelperType, WorkerType
<1>2. /\ m \in Message /\ m # NoMessage /\ locks[P(t)] = m /\ approvals[m].task = t
      /\ approvals[m].result = "executing"
  BY AtClaimed
<1>3. ASSUME NEW u \in Task, workers[u].pc \in {"git", "call", "finish"},
             workers[u].approval = m
      PROVE  u = t
  BY <1>2, <1>3, AtClaimed
<1> HIDE DEF m
<1>4. ASSUME NEW u \in Task, (Work(u) /\ ~Exit(u)) \/ StoreFails(u)
      PROVE  u # t
  BY <1>4, WorkerMoves
<1>5. ~Finish(t) /\ ~Call(t)
  <2>1. \A u \in Task : (Finish(u) \/ Call(u)) => u # t
    <3> TAKE u \in Task
    <3>1. CASE Finish(u)
      <4>1. workers[u].pc = "finish"
        BY <3>1 DEF Finish, At
      <4>2. workers'[u].pc # "finish"
        BY <1>1, <3>1, <4>1 DEF Finish
      <4> QED
        BY <4>1, <4>2
    <3>2. CASE Call(u)
      <4>1. workers[u].pc = "git"
        BY <3>2 DEF Call, At
      <4>2. workers'[u].pc # "git"
        <5>1. InStage(u) /\ Fits(u)
          BY <4>1, AtClaimed
        <5>2. Go(u, "call")
          BY <3>2, <5>1 DEF Call
        <5> QED
          BY <1>1, <5>2 DEF Go
      <4> QED
        BY <4>1, <4>2
    <3> QED
      BY <3>1, <3>2
  <2> QED
    BY <2>1
<1>6. ASSUME NEW u \in Task, Finish(u) \/ Call(u)
      PROVE  workers[u].approval # m /\ workers[u].approval \in Message
             /\ workers[u].pc \in {"git", "call", "finish"}
  <2>1. workers[u].pc \in {"git", "call", "finish"}
    BY <1>6 DEF Finish, Call, At
  <2>2. u # t
    BY <1>5, <1>6
  <2> QED
    BY <1>3, <2>1, <2>2, AtClaimed
<1>7. Same(m) /\ approvals'[m].result = "executing"
  BY <1>2, <1>6, ApprovalsKeep
<1>8. locks'[P(t)] = m
  <2>1. up /\ ~RecoverInterrupted
    <3>1. ~(workers = [u \in Task |-> Idle])
      BY DEF Idle
    <3> QED
      BY <3>1 DEF IInv, DownSound, RecoverInterrupted
  <2>2. P(t) \in Project
    BY DEF P
  <2>3. ASSUME NEW u \in Task, Claim(u)
        PROVE  locks'[P(t)] = m
    <3>1. CASE UNCHANGED locks
      BY <1>2, <3>1
    <3>2. CASE \E n \in Message : /\ locks[P(u)] = NoMessage
                                  /\ locks' = [locks EXCEPT ![P(u)] = n]
      <4>1. P(u) # P(t)
        BY <1>2, <3>2
      <4> QED
        BY <1>1, <1>2, <2>2, <3>2, <4>1
    <3>3. UNCHANGED locks \/ \E n \in Message : Claimable(u, n)
                                               /\ locks' = [locks EXCEPT ![P(u)] = n]
      BY <2>3 DEF Claim
    <3>4. \A n \in Message : Claimable(u, n) => locks[P(u)] = NoMessage
      BY DEF Claimable
    <3> QED
      BY <3>1, <3>2, <3>3, <3>4
  <2>4. ASSUME NEW u \in Task, Finish(u)
        PROVE  locks'[P(t)] = m
    <3>1. locks[P(u)] = workers[u].approval
      BY <2>4 DEF Finish
    <3>2. P(u) # P(t)
      BY <1>2, <1>6, <2>4, <3>1
    <3> QED
      BY <1>1, <1>2, <2>2, <2>4, <3>2 DEF Finish
  <2> QED
    BY <1>2, <2>1, <2>3, <2>4, TableSteps DEF Tables, TableStep, CommitCommand, MovesOn,
       MoveMerged, scanFrame
<1>9. calls'[m] = calls[m] /\ (helpers[m].pc = "done" => helpers'[m] = helpers[m])
  <2>1. \/ UNCHANGED <<helpers, calls>>
        \/ \E u \in Task : Call(u)
        \/ UNCHANGED calls /\ \E n \in Message : Help(n)
    BY WorldSteps DEF World, Help, ForeignPush
  <2>2. ASSUME NEW u \in Task, Call(u)
        PROVE  calls'[m] = calls[m] /\ helpers'[m] = helpers[m]
    BY <1>1, <1>2, <1>6, <2>2 DEF Call
  <2>3. ASSUME NEW n \in Message, Help(n), helpers[m].pc = "done"
        PROVE  helpers'[m] = helpers[m]
    <3>1. m # n /\ \A k \in Message : k # n => helpers'[k] = helpers[k]
      BY <1>1, <2>3 DEF Help, FetchMerge, PushMerge, FetchDeploy, RunDeploy, Ends
    <3> QED
      BY <1>2, <3>1
  <2> QED
    BY <2>1, <2>2, <2>3
<1> QED
  BY <1>7, <1>8, <1>9 DEF m

(* A worker that has called keeps its copy of the row, and so does one that *)
(* has stored the merge, whose task nothing else moves on.                  *)
LEMMA WorkerKeepsCopy ==
  ASSUME IInv, [Next]_vars, NEW t \in Task, workers'[t] = workers[t],
         workers[t].pc \in {"call", "finish", "to_awaiting"}
  PROVE  /\ W(t) \in current'
         /\ workers[t].pc = "to_awaiting" => rows'[t].status = "merged"
<1>1. workers \in [Task -> WorkerType] /\ Typing
  BY DEF IInv, Typing, TypeOK, WorkerType
<1>2. /\ W(t) \in current /\ rows[t].status \in {"merging", "deploying", "merged"}
      /\ workers[t].pc = "to_awaiting" => rows[t].status = "merged"
  <2>1. W(t) \in current /\ (workers[t].pc = "to_awaiting" => rows[t].status = "merged")
    BY DEF IInv, WorkerSound
  <2>2. workers[t].pc \in {"call", "finish"} => rows[t].status \in {"merging", "deploying"}
    BY AtClaimed DEF InStage, ExecutingStatus
  <2> QED
    BY <2>1, <2>2
<1>3. ~Exit(t) /\ ~MoveMerged(t)
  <2>1. ~Exit(t)
    BY DEF Exit, At
  <2>2. ASSUME MoveMerged(t)
        PROVE  FALSE
    <3>1. workers[t].pc = "to_awaiting" /\ workers' = [workers EXCEPT ![t].pc = "notify"]
      BY <2>2 DEF MoveMerged, Go, At
    <3>2. PICK w \in WorkerType : w = workers[t]
      BY <1>1
    <3>3. workers'[t] = [w EXCEPT !.pc = "notify"]
      BY <1>1, <3>1, <3>2
    <3>4. [w EXCEPT !.pc = "notify"].pc = "notify"
      BY DEF WorkerType
    <3> QED
      BY <3>1, <3>3, <3>4
  <2> QED
    BY <2>1, <2>2
<1>4. ~Crash /\ ~RecoverInterrupted
  BY <1>2 DEF Crash, Idle, IInv, DownSound, RecoverInterrupted
<1>5. ASSUME NEW row \in RowType, NEW x \in Copies(t), RowSave(t, row, x)
      PROVE  x = W(t) /\ Finish(t)
  <2>1. ~CommitCommand(t)
    BY <1>2, CommandSaves
  <2>2. x # ScanItem(t)
    BY <1>5, ScanSavesIdle
  <2> QED
    BY <1>3, <1>5, <2>1, <2>2 DEF RowSave
<1>6. W(t) \in current'
  <2> SUFFICES ASSUME W(t) \notin current' PROVE FALSE
    OBVIOUS
  <2>1. PICK u \in Task, row \in RowType : \E x \in Copies(u) :
           RowSave(u, row, x) /\ W(t) \in Copies(u) /\ W(t) # x
    BY <1>2, <1>3, <1>4, CopiesKept, CopiesDiffer
  <2>2. u = t
    BY <2>1, CopiesDiffer DEF Copies
  <2> QED
    BY <1>5, <2>1, <2>2
<1>7. ASSUME workers[t].pc = "to_awaiting"
      PROVE  rows'[t].status = "merged"
  <2>1. ASSUME NEW row \in RowType, NEW x \in Copies(t), RowSave(t, row, x)
        PROVE  FALSE
    BY <1>5, <1>7, <2>1 DEF Finish, At
  <2>2. rows'[t] = rows[t]
    BY <1>1, <1>4, <2>1, RowSteps, SaveEffect DEF RowSave
  <2> QED
    BY <1>2, <1>7, <2>2
<1> QED
  BY <1>6, <1>7

LEMMA NextWorkerSound == IInv /\ [Next]_vars => WorkerSound'
<1> DEFINE Sound(t) ==
      LET v == workers'[t]  h == helpers'[v.approval] IN
      /\ v.pc \in {"git", "call", "finish"} =>
           /\ locks'[P(t)] = v.approval
           /\ approvals'[v.approval].task = t /\ approvals'[v.approval].kind = v.kind
           /\ approvals'[v.approval].result = "executing"
      /\ v.pc = "git" => calls'[v.approval] = 0
      /\ v.pc \in {"call", "finish"} => calls'[v.approval] # 0 /\ W(t) \in current'
      /\ v.pc = "finish" => /\ h.pc = "done"
                            /\ v.outcome = h.outcome /\ v.head = h.head
      /\ v.pc = "to_awaiting" => W(t) \in current' /\ rows'[t].status = "merged"
<1> SUFFICES ASSUME IInv, [Next]_vars, NEW t \in Task
             PROVE  Sound(t)
  BY DEF WorkerSound, P, W
<1> DEFINE w == workers[t]  v == workers'[t]  m == w.approval
<1>1. /\ w.pc = "git" => calls[m] = 0
      /\ w.pc \in {"call", "finish"} => calls[m] # 0 /\ W(t) \in current
      /\ w.pc = "finish" => /\ helpers[m].pc = "done"
                            /\ w.outcome = helpers[m].outcome /\ w.head = helpers[m].head
  BY DEF IInv, WorkerSound
<1>2. CASE v = w
  <2>1. w.pc \in {"git", "call", "finish"} =>
          /\ m \in Message /\ approvals[m].task = t /\ approvals[m].kind = w.kind
    BY AtClaimed DEF Kind
  <2> QED
    BY <1>1, <1>2, <2>1, WorkerRests, WorkerKeepsCopy DEF Same
<1>3. CASE v = Idle \/ v.pc = "wait"
  BY <1>3 DEF Idle
<1>4. CASE (Work(t) /\ ~Exit(t)) \/ (StoreFails(t) /\ WorkFrame)
  <2>1. WorkerGoes(t, w, v) /\ v.kind = w.kind
    BY <1>4, WorkerMoves
  <2>2. /\ P(t) \in Project /\ locks \in [Project -> Message \cup {NoMessage}]
        /\ calls \in [Message -> Nat] /\ Typing
    BY DEF P, IInv, Typing, TypeOK
  <2> HIDE DEF v
  <2>3. CASE Claim(t) /\ v.pc = "git"
    <3>1. /\ v.approval \in Message /\ Claimable(t, v.approval)
          /\ locks'[P(t)] = v.approval
          /\ approvals'[v.approval].result = "executing" /\ Same(v.approval)
      BY <2>1, <2>2, <2>3 DEF WorkerGoes, LockRelease, Load, Call, Answered, Finish,
           MoveMerged, StoreFails, Notify, At
    <3>2. approvals[v.approval].result = "approved"
      BY <3>1 DEF Claimable
    <3>3. calls[v.approval] = 0 /\ UNCHANGED calls
      BY <2>3, <3>1, <3>2 DEF IInv, HelperSound, Claim, World
    <3> QED
      BY <2>1, <2>3, <3>1, <3>3 DEF Claimable, Same, Kind, v
  <2>4. CASE Call(t)
    <3>1. w.pc = "git"
      BY <2>4 DEF Call, At
    <3>2. /\ m \in Message /\ locks[P(t)] = m /\ approvals[m].task = t
          /\ approvals[m].kind = w.kind /\ approvals[m].result = "executing"
      BY <3>1, AtClaimed DEF Kind
    <3>3. UNCHANGED <<locks, approvals>>
      BY <2>4 DEF Call, Tables
    <3>4. /\ v.pc = "call" /\ v.approval = m /\ calls' = [calls EXCEPT ![m] = @ + 1]
          /\ W(t) \in current'
      BY <2>1, <2>4, <3>1 DEF WorkerGoes, LockRelease, Load, Claim, Answered, Finish,
           MoveMerged, StoreFails, Notify, At
    <3>5. calls'[m] # 0
      BY <2>2, <3>2, <3>4
    <3> QED
      BY <2>1, <3>2, <3>3, <3>4, <3>5 DEF v
  <2>5. CASE Answered(t)
    <3>1. w.pc = "call" /\ helpers[m].pc = "done"
      BY <2>5 DEF Answered, At
    <3>2. /\ locks[P(t)] = m /\ approvals[m].task = t
          /\ approvals[m].kind = w.kind /\ approvals[m].result = "executing"
      BY <3>1, AtClaimed DEF Kind
    <3>3. UNCHANGED <<locks, approvals, calls, helpers, current>>
      BY <2>5 DEF Answered, Tables, World
    <3>4. /\ v.pc = "finish" /\ v.approval = m
          /\ v.outcome = helpers[m].outcome /\ v.head = helpers[m].head
      BY <2>1, <2>5, <3>1 DEF WorkerGoes, LockRelease, Load, Claim, Call, Finish,
           MoveMerged, StoreFails, Notify, At
    <3> QED
      BY <1>1, <2>1, <3>1, <3>2, <3>3, <3>4 DEF v
  <2>6. CASE Finish(t) /\ v.pc # "exit"
    <3>0. w.pc = "finish"
      BY <2>6 DEF Finish, At
    <3>1. /\ v.pc \in {"to_awaiting", "notify"}
          /\ v.pc = "to_awaiting" => (w.kind = "merge" /\ w.outcome = "ok")
      BY <2>1, <2>6, <3>0 DEF WorkerGoes, LockRelease, Load, Claim, Call, Answered,
           MoveMerged, Notify, At
    <3>2. W(t) \in current' /\ rows'[t] = Row(t) /\ FinishRow(t, Row(t))
      BY <2>2, <2>6, FinishSaves, SaveEffect DEF Copies
    <3>3. v.pc = "to_awaiting" => rows'[t].status = "merged"
      BY <3>1, <3>2 DEF FinishRow, Kind
    <3> QED
      BY <3>1, <3>2, <3>3 DEF v
  <2>7. CASE v.pc \in {"load", "claim", "exit", "notify"}
    BY <2>7 DEF v
  <2> QED
    BY <2>1, <2>3, <2>4, <2>5, <2>6, <2>7 DEF WorkerGoes
<1> QED
  BY <1>2, <1>3, <1>4, WorkerSteps

-----------------------------------------------------------------------------
(* The helper processes. *)

LEMMA HelperMoves ==
  ASSUME IInv, [Next]_vars, NEW m \in Message
  PROVE  \/ helpers'[m] = helpers[m] /\ calls'[m] = calls[m]
         \/ \E t \in Task : /\ Call(t) /\ workers[t].approval = m
                            /\ helpers'[m].pc = "started" /\ calls'[m] # 0
                            /\ approvals[m].task = t /\ approvals[m].result = "executing"
                            /\ workers'[t].pc = "call" /\ workers'[t].approval = m
                            /\ UNCHANGED approvals
         \/ /\ Help(m) /\ helpers[m].pc \in {"started", "ready"}
            /\ UNCHANGED <<approvals, calls, workers>>
<1>1. helpers \in [Message -> HelperType] /\ calls \in [Message -> Nat]
  BY DEF IInv, Typing, TypeOK, HelperType
<1>2. \/ UNCHANGED <<helpers, calls>>
      \/ \E t \in Task : Call(t) /\ WorkFrame
      \/ \E n \in Message : Help(n)
  BY WorldSteps DEF World, ForeignPush
<1>3. ASSUME NEW t \in Task, Call(t), WorkFrame
      PROVE  \/ helpers'[m] = helpers[m] /\ calls'[m] = calls[m]
             \/ /\ workers[t].approval = m
                /\ helpers'[m].pc = "started" /\ calls'[m] # 0
                /\ approvals[m].task = t /\ approvals[m].result = "executing"
                /\ workers'[t].pc = "call" /\ workers'[t].approval = m
                /\ UNCHANGED approvals
  <2> DEFINE n == workers[t].approval
  <2>1. workers[t].pc = "git" /\ UNCHANGED approvals
    BY <1>3 DEF Call, At, Tables
  <2>2. n \in Message /\ approvals[n].task = t /\ approvals[n].result = "executing"
    BY <2>1, AtClaimed
  <2>3. WorkerGoes(t, workers[t], workers'[t])
    <3>1. ~Exit(t)
      BY <2>1 DEF Exit, At
    <3>2. Work(t) /\ ~Exit(t)
      BY <1>3, <3>1 DEF Work, WorkFrame
    <3> QED
      BY <3>2, WorkerMoves
  <2>4. /\ workers'[t].pc = "call" /\ workers'[t].approval = n
        /\ helpers' = [helpers EXCEPT ![n].pc = "started"]
        /\ calls' = [calls EXCEPT ![n] = @ + 1]
    BY <1>3, <2>1, <2>3 DEF WorkerGoes, LockRelease, Load, Claim, Answered, Finish,
         MoveMerged, StoreFails, Notify, At
  <2> HIDE DEF n
  <2>5. CASE n = m
    <3>1. PICK h \in HelperType : h = helpers[m]
      BY <1>1
    <3>2. helpers'[m] = [h EXCEPT !.pc = "started"] /\ calls'[m] = calls[m] + 1
      BY <1>1, <2>4, <2>5, <3>1
    <3>3. [h EXCEPT !.pc = "started"].pc = "started"
      BY DEF HelperType
    <3>4. calls[m] \in Nat
      BY <1>1
    <3>5. calls'[m] # 0 /\ helpers'[m].pc = "started"
      BY <3>2, <3>3, <3>4
    <3> QED
      BY <2>1, <2>2, <2>4, <2>5, <3>5 DEF n
  <2>6. CASE n # m
    BY <1>1, <2>4, <2>6
  <2> QED
    BY <2>5, <2>6
<1>4. ASSUME NEW n \in Message, Help(n)
      PROVE  \/ helpers'[m] = helpers[m] /\ calls'[m] = calls[m]
             \/ /\ n = m /\ helpers[m].pc \in {"started", "ready"}
                /\ UNCHANGED <<approvals, calls, workers>>
  <2>1. /\ UNCHANGED <<approvals, calls, workers>>
        /\ helpers[n].pc \in {"started", "ready"}
        /\ \A k \in Message : k # n => helpers'[k] = helpers[k]
    BY <1>1, <1>4 DEF Help, FetchMerge, PushMerge, FetchDeploy, RunDeploy, Ends, Tables
  <2> QED
    BY <2>1
<1> QED
  BY <1>2, <1>3, <1>4

LEMMA NextHelperSound == IInv /\ [Next]_vars => HelperSound'
<1> DEFINE Sound(m) ==
      LET h == helpers'[m]  a == approvals'[m] IN
      /\ calls'[m] # 0 => a.result \notin {"none", "approved"}
      /\ h.pc # "none" => calls'[m] # 0
      /\ h.pc = "ready" /\ a.kind = "merge" => h.head \in RcCommit
      /\ h.pc = "done" =>
           /\ h.outcome \in IF a.kind = "merge"
                THEN {"ok", "failed", "commit_changed", "merge_conflict"}
                ELSE {"ok", "failed", "commit_changed"}
           /\ a.kind = "merge" /\ h.outcome = "ok" => InRcNext(a.task, h.head)
           /\ a.kind = "deploy" /\ h.outcome = "commit_changed"
                => InRcNext(a.task, h.head)
           /\ a.kind = "deploy" /\ h.outcome = "ok" => <<a.task, a.commit>> \in deployed'
<1> SUFFICES ASSUME IInv, [Next]_vars, NEW m \in Message
             PROVE  Sound(m)
  BY DEF HelperSound, InRc, InRcNext, P
<1> DEFINE h == helpers[m]  a == approvals[m]
<1>1. helpers \in [Message -> HelperType]
  BY DEF IInv, Typing, TypeOK, HelperType
<1>2. /\ calls[m] # 0 => a.result \notin {"none", "approved"}
      /\ h.pc # "none" => calls[m] # 0
      /\ h.pc = "ready" /\ a.kind = "merge" => h.head \in RcCommit
  BY DEF IInv, HelperSound
<1>3. h.pc = "done" =>
        /\ h.outcome \in IF a.kind = "merge"
             THEN {"ok", "failed", "commit_changed", "merge_conflict"}
             ELSE {"ok", "failed", "commit_changed"}
        /\ a.kind = "merge" /\ h.outcome = "ok" => InRc(a.task, h.head)
        /\ a.kind = "deploy" /\ h.outcome = "commit_changed" => InRc(a.task, h.head)
        /\ a.kind = "deploy" /\ h.outcome = "ok" => <<a.task, a.commit>> \in deployed
  BY DEF IInv, HelperSound
<1>4. /\ deployed \subseteq deployed'
      /\ \A t \in Task : \A c : InRc(t, c) => InRcNext(t, c)
  BY WorldGrows
<1>5. CASE helpers'[m] = h /\ calls'[m] = calls[m]
  <2>1. calls[m] # 0 => Same(m) /\ approvals'[m].result \notin {"none", "approved"}
    BY <1>2, ApprovalsKeep
  <2>2. calls[m] # 0 => a.task \in Task
    BY <1>2 DEF IInv, ApprovalSound
  <2> QED
    BY <1>2, <1>3, <1>4, <1>5, <2>1, <2>2 DEF Same
<1>6. CASE \E t \in Task : /\ helpers'[m].pc = "started" /\ calls'[m] # 0
                           /\ a.result = "executing" /\ UNCHANGED approvals
  BY <1>6
<1>7. CASE /\ Help(m) /\ h.pc \in {"started", "ready"} /\ UNCHANGED <<approvals, calls>>
  <2>1. /\ a.result \notin {"none", "approved"} /\ calls[m] # 0
        /\ a.task \in Task /\ Shared(m) \in Project
        /\ rcHead[Shared(m)] \in RcCommit /\ Shared(m) = P(a.task)
        /\ a.kind = "merge" => a.commit = TaskCommit[a.task]
        /\ a.kind = "deploy" => InRc(a.task, a.commit)
    BY <1>7, HelperTask DEF Shared
  <2>2. ASSUME NEW o, NEW c, Ends(m, o, c)
        PROVE  helpers'[m].pc = "done" /\ helpers'[m].outcome = o /\ helpers'[m].head = c
    BY <1>1, <2>2 DEF Ends
  <2>3. CASE FetchMerge(m)
    <3> DEFINE c == rcHead[Shared(m)]
    <3>1. a.kind = "merge"
      BY <2>3 DEF FetchMerge
    <3>2. CASE helpers' = [helpers EXCEPT ![m].pc = "ready", ![m].head = c]
      <4> HIDE DEF c
      <4>1. PICK x \in HelperType : x = h
        BY <1>1
      <4> DEFINE y == [x EXCEPT !.pc = "ready", !.head = c]
      <4>2. y.pc = "ready" /\ y.head = c
        BY DEF HelperType
      <4>3. helpers'[m] = y
        BY <1>1, <3>2, <4>1
      <4> HIDE DEF y
      <4> QED
        BY <1>7, <2>1, <4>2, <4>3 DEF c
    <3>3. CASE \E o \in {"failed", "commit_changed"} : Ends(m, o, NoCommit)
      BY <1>7, <2>1, <2>2, <3>1, <3>3
    <3> QED
      BY <2>3, <3>2, <3>3 DEF FetchMerge
  <2>4. CASE PushMerge(m)
    <3> DEFINE p == Shared(m)  new == h.head \cup {a.commit}
    <3>1. a.kind = "merge" /\ h.pc = "ready"
      BY <2>4 DEF PushMerge
    <3>2. new \in RcCommit /\ TaskCommit[a.task] \in new
      BY <1>2, <2>1, <3>1, RcCommitGrows
    <3>3. CASE \E o \in {"failed", "merge_conflict"} : Ends(m, o, NoCommit)
      BY <1>7, <2>1, <2>2, <3>1, <3>3
    <3>4. CASE rcHead' = [rcHead EXCEPT ![p] = new] /\ Ends(m, "ok", new)
      <4>1. rcHead'[P(a.task)] = new
        BY <2>1, <3>4 DEF IInv, Typing, TypeOK
      <4>2. InRcNext(a.task, new)
        BY <3>2, <4>1 DEF InRcNext
      <4> QED
        BY <1>7, <2>1, <2>2, <3>1, <3>4, <4>2
    <3> QED
      BY <2>4, <3>3, <3>4 DEF PushMerge
  <2>5. CASE FetchDeploy(m)
    <3> DEFINE head == rcHead[Shared(m)]
    <3>1. a.kind = "deploy" /\ InRc(a.task, a.commit)
      BY <2>1, <2>5 DEF FetchDeploy
    <3>2. InRc(a.task, head)
      BY <2>1, <3>1 DEF InRc
    <3>3. CASE Ends(m, "failed", NoCommit)
      BY <1>7, <2>1, <2>2, <3>1, <3>3
    <3>4. CASE Ends(m, "commit_changed", head)
      BY <1>4, <1>7, <2>1, <2>2, <3>1, <3>2, <3>4
    <3>5. CASE helpers' = [helpers EXCEPT ![m].pc = "ready"]
      <4>1. PICK x \in HelperType : x = h
        BY <1>1
      <4>2. helpers'[m] = [x EXCEPT !.pc = "ready"]
        BY <1>1, <3>5, <4>1
      <4>3. [x EXCEPT !.pc = "ready"].pc = "ready"
        BY DEF HelperType
      <4> QED
        BY <1>7, <2>1, <3>1, <4>2, <4>3
    <3> QED
      BY <2>5, <3>3, <3>4, <3>5 DEF FetchDeploy
  <2>6. CASE RunDeploy(m)
    <3>1. a.kind = "deploy" /\ <<a.task, a.commit>> \in deployed'
      BY <2>6 DEF RunDeploy
    <3>2. PICK o \in {"ok", "failed"} : Ends(m, o, NoCommit)
      BY <2>6 DEF RunDeploy
    <3> QED
      BY <1>7, <2>1, <2>2, <3>1, <3>2
  <2> QED
    BY <1>7, <2>3, <2>4, <2>5, <2>6 DEF Help
<1> HIDE DEF Sound
<1> QED
  BY <1>5, <1>6, <1>7, HelperMoves

LEMMA NextHelperOwned == IInv /\ [Next]_vars => HelperOwned'
<1> DEFINE Owned(m) == LET u == approvals'[m].task IN
      u \in Task /\ workers'[u].pc = "call" /\ workers'[u].approval = m
<1> SUFFICES ASSUME IInv, [Next]_vars, faults' = 0, NEW m \in Message,
                    helpers'[m].pc \in {"started", "ready"}
             PROVE  Owned(m)
  BY DEF HelperOwned
<1>1. faults \in Nat
  BY DEF IInv, Typing, TypeOK
<1>2. ~Fault
  BY <1>1 DEF Fault
<1>3. faults = 0
  BY <1>1, <1>2 DEF Next, vars, Work, Scan, Read, CommitCommand, LockRelease, Load, Claim,
     Call, Answered, Finish, MoveMerged, StoreFails, Notify, Exit, Help, ForeignPush, Crash,
     RecoverInterrupted, List, Start, MoveOn
<1>4. ~Crash /\ \A t \in Task : ~StoreFails(t)
  BY <1>2 DEF Crash, StoreFails
<1>5. CASE \E t \in Task : /\ approvals[m].task = t /\ workers'[t].pc = "call"
                           /\ workers'[t].approval = m /\ UNCHANGED approvals
  BY <1>5
<1> DEFINE u == approvals[m].task
<1>6. ASSUME helpers[m].pc \in {"started", "ready"}
      PROVE  u \in Task /\ workers[u].pc = "call" /\ workers[u].approval = m
  BY <1>3, <1>6 DEF IInv, HelperOwned
<1>7. CASE /\ helpers[m].pc \in {"started", "ready"} /\ UNCHANGED <<approvals, workers>>
  BY <1>6, <1>7
<1>8. CASE helpers'[m] = helpers[m]
  <2>1. helpers[m].pc \in {"started", "ready"}
    BY <1>8
  <2>2. u \in Task /\ workers[u].pc = "call" /\ workers[u].approval = m
    BY <1>6, <2>1
  <2>3. approvals[m].result # "none"
    BY <2>1, HelperTask
  <2>4. approvals'[m].task = u
    BY <2>3, ApprovalsKeep DEF Same
  <2>5. ~Exit(u)
    BY <2>2 DEF Exit, At
  <2>6. ~Work(u)
    <3> SUFFICES ASSUME Work(u) PROVE FALSE
      OBVIOUS
    <3>1. Answered(u)
      BY <2>2 DEF Work, LockRelease, Load, Claim, Call, Finish, MoveMerged, Notify, Exit, At
    <3> QED
      BY <2>1, <2>2, <3>1 DEF Answered
  <2>7. workers'[u] = workers[u]
    BY <1>4, <2>2, <2>5, <2>6, WorkerSteps
  <2> QED
    BY <2>2, <2>4, <2>7
<1> HIDE DEF Owned, u
<1> QED
  BY <1>5, <1>7, <1>8, HelperMoves

-----------------------------------------------------------------------------
(* The invariant and what follows from it. *)

LEMMA InitIInv == Init => IInv
<1> SUFFICES ASSUME Init
             PROVE  IInv
  OBVIOUS
<1>1. /\ Idle \in WorkerType /\ Idle.pc = "idle" /\ Idle.approval = NoMessage
      /\ NoHelper \in HelperType /\ NoHelper.pc = "none"
  BY DEF Idle, NoHelper, WorkerType, HelperType, Outcome
<1>2. {Base} \in RcCommit
  <2>1. {Base} = {Base} \cup {}
    OBVIOUS
  <2> QED
    BY <2>1 DEF RcCommit
<1>3. NoApproval \in Ledger!Approval /\ NoApproval.result = "none"
  BY DEF NoApproval, Ledger!Approval, Ledger!Result
<1>4. ASSUME NEW t \in Task
      PROVE  /\ rows[t] \in RowType /\ rows[t].commit = TaskCommit[t]
             /\ rows[t].status \in {"awaiting_merge_approval", "cancelled"}
  <2>1. PICK r \in [Task -> {[status |-> s, commit |-> c, rc |-> NoCommit,
                              key |-> NoCommit] :
                             s \in {"awaiting_merge_approval", "cancelled"},
                             c \in {TaskCommit[u] : u \in Task}}] : r = rows
    BY DEF Init
  <2>2. rows[t].commit = TaskCommit[t]
    BY DEF Init
  <2> QED
    BY <2>1, <2>2 DEF RowType, Status, Commit
<1>5. rows \in [Task -> RowType]
  <2>1. rows = [t \in Task |-> rows[t]]
    BY DEF Init
  <2> QED
    BY <1>4, <2>1
<1>6. /\ approvals \in [Message -> Ledger!Approval] /\ lastApproval = 0 /\ up = TRUE
      /\ \A m \in Message : approvals[m].result = "none"
  BY <1>3 DEF Init
<1>7. /\ helpers \in [Message -> HelperType] /\ \A m \in Message : helpers[m].pc = "none"
      /\ calls \in [Message -> Nat] /\ \A m \in Message : calls[m] = 0
  BY <1>1 DEF Init
<1>8. /\ workers \in [Task -> WorkerType]
      /\ \A t \in Task : workers[t].pc = "idle" /\ workers[t].approval = NoMessage
  BY <1>1 DEF Init
<1>9. Typing
  <2>1. /\ locks \in [Project -> Message \cup {NoMessage}]
        /\ processed \subseteq Message /\ inbox \subseteq Message
        /\ handlers \in [Task -> Message \cup {NoMessage}]
        /\ scan \in [phase : {"merging", "deploying", "merged"}, todo : SUBSET Task]
        /\ releaseMu \in [Project -> Task \cup {NoTask}]
        /\ current \subseteq Task \cup {ScanItem(t) : t \in Task}
                       \cup {<<"worker", t>> : t \in Task}
        /\ rcHead \in [Project -> RcCommit] /\ deployed \subseteq Task \X RcCommit
        /\ faults \in 0 .. MaxFaults
    BY <1>2 DEF Init
  <2>2. DOMAIN approvals = Message
    BY DEF Init
  <2> QED
    BY <1>5, <1>6, <1>7, <1>8, <2>1, <2>2 DEF Typing, TypeOK, RowType, WorkerType, HelperType
<1>10. RowSound
  BY <1>4 DEF RowSound
<1>11. ApprovalSound /\ HelperSound /\ HelperOwned
  BY <1>6, <1>7 DEF ApprovalSound, HelperSound, HelperOwned
<1>12. MutexSound /\ WorkerSound
  BY <1>8 DEF MutexSound, WorkerSound
<1>13. DeployedSound /\ DownSound /\ HandlerSound /\ ScanSound /\ LockSound
  BY DEF Init, DeployedSound, DownSound, HandlerSound, ScanSound, LockSound
<1> QED
  BY <1>9, <1>10, <1>11, <1>12, <1>13 DEF IInv

LEMMA NextIInv == IInv /\ [Next]_vars => IInv'
BY NextTyping, NextRowSound, NextApprovalSound, NextDeployedSound, NextDownSound,
   NextHandlerSound, NextScanSound, NextMutexSound, NextLockSound, NextWorkerSound,
   NextHelperSound, NextHelperOwned DEF IInv

(* Rows, approvals, locks, workers, helpers and the RC branches agree with  *)
(* each other in every reachable state, as IInv of TaskRelease states it.   *)
THEOREM InductiveInvariant == Spec => []IInv
BY InitIInv, NextIInv, PTL DEF Spec

(* The variables keep their types: the RC branches and the recorded RC      *)
(* commits contain only the base and what tasks and others have pushed.     *)
THEOREM TypeCorrect == Spec => []TypeOK
<1>1. IInv => TypeOK
  BY DEF IInv, Typing
<1> QED
  BY <1>1, InductiveInvariant, PTL

(* While a command handler or a worker is about to save, nobody else saves  *)
(* the row it has read: the versioned write of the store never refuses the  *)
(* save of an approval or of its outcome (taskstore.Save, CompleteApproval).*)
THEOREM SavesNeverConflict == Spec => []NoConflict
<1>1. IInv => NoConflict
  BY DEF IInv, HandlerSound, WorkerSound, NoConflict
<1> QED
  BY <1>1, InductiveInvariant, PTL

(* A task that counts as merged is in the RC commit recorded for it, and    *)
(* the branch keeps that commit, whoever else pushes and however often the  *)
(* application crashes (MergeRC pushes only on top of what it fetched).     *)
THEOREM MergesArePermanent == Spec => []MergedIsInRc
<1>1. IInv => MergedIsInRc
  BY DEF IInv, RowSound, InRc, MergedIsInRc
<1> QED
  BY <1>1, InductiveInvariant, PTL

(* Every deployment of a commit for a task goes back to an approval, by an  *)
(* administrator, of just this commit for just this task, and the commit    *)
(* contains the task; a row that says deployed has been deployed.           *)
THEOREM DeploymentsAreApproved == Spec => []DeployedWasApproved
<1>1. IInv => DeployedWasApproved
  <2> SUFFICES ASSUME IInv
               PROVE  DeployedWasApproved
    OBVIOUS
  <2>1. ASSUME NEW d \in deployed
        PROVE  \E m \in Message :
                 /\ approvals[m].task = d[1] /\ approvals[m].kind = "deploy"
                 /\ approvals[m].commit = d[2] /\ Sender[m] \in Admin
                 /\ TaskCommit[d[1]] \in d[2]
    <3>1. PICK m \in Message : /\ approvals[m].result # "none"
                               /\ approvals[m].kind = "deploy"
                               /\ approvals[m].task = d[1] /\ approvals[m].commit = d[2]
      BY DEF IInv, DeployedSound
    <3> QED
      BY <3>1 DEF IInv, ApprovalSound, InRc
  <2> QED
    BY <2>1 DEF IInv, RowSound, DeployedWasApproved
<1> QED
  BY <1>1, InductiveInvariant, PTL

(* As long as the application has not crashed and no store call has failed, *)
(* one project has one helper process at a time: the release mutex and the  *)
(* waiting worker serialise them.  (After a crash an orphan may still run.) *)
THEOREM HelpersAreSerialised == Spec => [](faults = 0 => OneHelperPerProject)
<1>1. IInv => (faults = 0 => OneHelperPerProject)
  <2> SUFFICES ASSUME IInv, faults = 0, NEW m \in Message, NEW n \in Message,
                      helpers[m].pc \in {"started", "ready"},
                      helpers[n].pc \in {"started", "ready"}, Shared(m) = Shared(n)
               PROVE  m = n
    BY DEF OneHelperPerProject
  <2> DEFINE t == approvals[m].task  u == approvals[n].task
  <2>1. /\ t \in Task /\ workers[t].pc = "call" /\ workers[t].approval = m
        /\ u \in Task /\ workers[u].pc = "call" /\ workers[u].approval = n
    BY DEF IInv, HelperOwned
  <2>2. releaseMu[P(t)] = t /\ releaseMu[P(u)] = u /\ P(t) = P(u)
    BY <2>1 DEF IInv, MutexSound, Shared
  <2> QED
    BY <2>1, <2>2
<1> QED
  BY <1>1, InductiveInvariant, PTL

-----------------------------------------------------------------------------
(* The refinement of TaskLedger.  First, how a saved row and a step of a    *)
(* worker look there.                                                       *)

LEMMA LedgerRows ==
  ASSUME NEW r \in RowType, NEW s \in Status
  PROVE  /\ LedgerRow([r EXCEPT !.status = s]) = [LedgerRow(r) EXCEPT !.status = s]
         /\ LedgerRow([[r EXCEPT !.status = s] EXCEPT !.key = r.rc]) =
              [LedgerRow(r) EXCEPT !.status = s, !.key = LedgerRow(r).rc]
         /\ LedgerRow([[r EXCEPT !.status = s] EXCEPT !.commit = NoCommit,
                                                      !.rc = NoCommit]) =
              [LedgerRow(r) EXCEPT !.status = s, !.commit = NoCommit, !.rc = NoCommit]
<1> DEFINE x == [r EXCEPT !.status = s]
<1>1. /\ x \in RowType /\ x.status = s /\ x.commit = r.commit /\ x.rc = r.rc
      /\ x.key = r.key
  BY DEF RowType
<1>2. LedgerRow(x) = [LedgerRow(r) EXCEPT !.status = s]
  BY <1>1 DEF LedgerRow
<1> HIDE DEF x
<1>3. LedgerRow([x EXCEPT !.key = r.rc]) =
        [LedgerRow(r) EXCEPT !.status = s, !.key = LedgerRow(r).rc]
  <2> DEFINE y == [x EXCEPT !.key = r.rc]
  <2>1. y.status = s /\ y.commit = r.commit /\ y.rc = r.rc /\ y.key = r.rc
    BY <1>1 DEF RowType
  <2> HIDE DEF y
  <2>2. LedgerRow(y) = [LedgerRow(x) EXCEPT !.key = LedgerRow(r).rc]
    BY <1>1, <2>1 DEF LedgerRow
  <2>3. [LedgerRow(r) EXCEPT !.status = s, !.key = LedgerRow(r).rc] =
          [[LedgerRow(r) EXCEPT !.status = s] EXCEPT !.key = LedgerRow(r).rc]
    OBVIOUS
  <2> QED
    BY <1>2, <2>2, <2>3 DEF y
<1>4. LedgerRow([x EXCEPT !.commit = NoCommit, !.rc = NoCommit]) =
        [LedgerRow(r) EXCEPT !.status = s, !.commit = NoCommit, !.rc = NoCommit]
  <2> DEFINE y == [x EXCEPT !.commit = NoCommit, !.rc = NoCommit]
  <2>1. y.status = s /\ y.commit = NoCommit /\ y.rc = NoCommit /\ y.key = r.key
    BY <1>1 DEF RowType
  <2> HIDE DEF y
  <2>2. LedgerRow(y) = [[LedgerRow(x) EXCEPT !.commit = NoCommit] EXCEPT !.rc = NoCommit]
    <3>1. [LedgerRow(x) EXCEPT !.commit = NoCommit] =
            [status |-> s, exec |-> "session", commit |-> NoCommit, rc |-> r.rc,
             key |-> r.key]
      BY <1>1 DEF LedgerRow
    <3>2. LedgerRow(y) =
            [[status |-> s, exec |-> "session", commit |-> NoCommit, rc |-> r.rc,
              key |-> r.key] EXCEPT !.rc = NoCommit]
      BY <2>1 DEF LedgerRow
    <3> QED
      BY <3>1, <3>2
  <2>3. [LedgerRow(r) EXCEPT !.status = s, !.commit = NoCommit, !.rc = NoCommit] =
          [[[LedgerRow(r) EXCEPT !.status = s] EXCEPT !.commit = NoCommit]
             EXCEPT !.rc = NoCommit]
    OBVIOUS
  <2> QED
    BY <1>2, <2>2, <2>3 DEF y
<1> QED
  BY <1>2, <1>3, <1>4 DEF x

(* A row in which a merge or a new RC head is recorded, here or there. *)
Recorded(row, s, c) == [row EXCEPT !.status = s, !.rc = c, !.key = NoCommit]

LEMMA LedgerRecords ==
  \A r \in RowType : \A s \in Status : \A c \in RcCommit :
    LedgerRow(Recorded(r, s, c)) = Recorded(LedgerRow(r), s, c)
<1> SUFFICES ASSUME NEW r \in RowType, NEW s \in Status, NEW c \in RcCommit
             PROVE  LedgerRow(Recorded(r, s, c)) = Recorded(LedgerRow(r), s, c)
  OBVIOUS
<1>1. /\ Recorded(r, s, c).status = s /\ Recorded(r, s, c).commit = r.commit
      /\ Recorded(r, s, c).rc = c /\ Recorded(r, s, c).key = NoCommit
  BY DEF Recorded, RowType
<1>2. LedgerRow(Recorded(r, s, c)) = [status |-> s, exec |-> "session", commit |-> r.commit,
                                      rc |-> c, key |-> NoCommit]
  BY <1>1 DEF LedgerRow
<1>3. [LedgerRow(r) EXCEPT !.status = s] =
        [status |-> s, exec |-> "session", commit |-> r.commit, rc |-> r.rc, key |-> r.key]
  BY DEF LedgerRow
<1>4. [[status |-> s, exec |-> "session", commit |-> r.commit, rc |-> r.rc, key |-> r.key]
         EXCEPT !.rc = c] =
        [status |-> s, exec |-> "session", commit |-> r.commit, rc |-> c, key |-> r.key]
  OBVIOUS
<1>5. [[status |-> s, exec |-> "session", commit |-> r.commit, rc |-> c, key |-> r.key]
         EXCEPT !.key = NoCommit] =
        [status |-> s, exec |-> "session", commit |-> r.commit, rc |-> c, key |-> NoCommit]
  OBVIOUS
<1>6. Recorded(LedgerRow(r), s, c) =
        [[[LedgerRow(r) EXCEPT !.status = s] EXCEPT !.rc = c] EXCEPT !.key = NoCommit]
  BY DEF Recorded
<1> QED
  BY <1>2, <1>3, <1>4, <1>5, <1>6

LEMMA LedgerSave ==
  ASSUME Typing, NEW t \in Task, NEW row, rows' = [rows EXCEPT ![t] = row]
  PROVE  Ledger!SetRow(t, LedgerRow(row))
<1>1. rows' = [u \in Task |-> IF u = t THEN row ELSE rows[u]]
  BY DEF Typing, TypeOK
<1> QED
  BY <1>1 DEF LedgerTasks, Ledger!SetRow

(* A status that alone is saved. *)
LEMMA LedgerMove ==
  ASSUME Typing, NEW t \in Task, NEW s \in Status, rows' = [rows EXCEPT ![t] = Moved(t, s)]
  PROVE  Ledger!SetRow(t, [LedgerTasks[t] EXCEPT !.status = s])
<1>1. rows[t] \in RowType
  BY DEF Typing, TypeOK, RowType
<1>2. LedgerRow(Moved(t, s)) = [LedgerRow(rows[t]) EXCEPT !.status = s]
  BY <1>1, LedgerRows DEF Moved
<1>3. LedgerTasks[t] = LedgerRow(rows[t])
  BY DEF LedgerTasks
<1>4. Ledger!SetRow(t, LedgerRow(Moved(t, s)))
  BY LedgerSave
<1> QED
  BY <1>2, <1>3, <1>4

(* The columns of a row, read through the mapping. *)
LEMMA LedgerReads ==
  ASSUME NEW t \in Task
  PROVE  /\ LedgerTasks[t] = LedgerRow(rows[t])
         /\ LedgerTasks[t].status = rows[t].status
         /\ LedgerTasks[t].commit = rows[t].commit /\ LedgerTasks[t].rc = rows[t].rc
         /\ LedgerTasks[t].key = rows[t].key
         /\ \A kind : Ledger!BoundCommit(kind, LedgerTasks[t]) = BoundCommit(kind, rows[t])
BY DEF LedgerTasks, LedgerRow, Ledger!BoundCommit, BoundCommit

(* At most one worker has an approval, that of the approval's task. *)
LEMMA OneOwner ==
  ASSUME IInv, NEW t \in Task, workers[t].pc \in {"git", "call", "finish"}
  PROVE  LET m == workers[t].approval IN
         /\ m \in Message /\ LedgerClaims[m] = IF calls[m] = 0 THEN "claimed" ELSE "called"
         /\ \A u \in Task : workers[u].approval = m => u = t
<1> DEFINE m == workers[t].approval
<1>1. m \in Message /\ approvals[m].task = t
  BY AtClaimed
<1>2. ASSUME NEW u \in Task, workers[u].approval = m
      PROVE  u = t
  <2>1. workers[u].pc \in {"git", "call", "finish"}
    BY <1>1, <1>2 DEF IInv, MutexSound
  <2> QED
    BY <1>1, <1>2, <2>1, AtClaimed
<1> QED
  BY <1>1, <1>2 DEF LedgerClaims, Claims

LEMMA ClaimsRest ==
  ASSUME UNCHANGED calls, \A t \in Task : workers'[t].approval = workers[t].approval
  PROVE  UNCHANGED LedgerClaims
BY DEF LedgerClaims, Claims

LEMMA ClaimsMove ==
  ASSUME IInv, NEW t \in Task, NEW m \in Message, NEW c,
         \A u \in Task \ {t} : workers'[u] = workers[u],
         \A n \in Message \ {m} : /\ workers[t].approval # n /\ workers'[t].approval # n
                                  /\ calls'[n] = calls[n],
         \A u \in Task : workers[u].approval = m => u = t,
         c = IF workers'[t].approval # m THEN "none"
             ELSE IF calls'[m] = 0 THEN "claimed" ELSE "called"
  PROVE  LedgerClaims' = [LedgerClaims EXCEPT ![m] = c]
<1>1. ASSUME NEW n \in Message \ {m}
      PROVE  Claims(n)' = Claims(n)
  <2>1. {u \in Task : workers'[u].approval = n} = {u \in Task : workers[u].approval = n}
    OBVIOUS
  <2> QED
    BY <2>1 DEF Claims
<1>2. Claims(m)' = c
  <2>1. {u \in Task : workers'[u].approval = m} =
          IF workers'[t].approval = m THEN {t} ELSE {}
    OBVIOUS
  <2> QED
    BY <2>1 DEF Claims
<1> QED
  BY <1>1, <1>2 DEF LedgerClaims

(* The approvals of the tables are those of TaskLedger. *)
LEMMA LedgerInvalidated ==
  ASSUME NEW t, NEW kind, NEW r
  PROVE  Ledger!Invalidated(t, kind, r) = Replaced(t, kind, r)
BY DEF Ledger!Invalidated, Ledger!IsApproved, Replaced

-----------------------------------------------------------------------------
(* Each step that TaskLedger sees is one of its transactions. *)

LEMMA CommandRefines ==
  ASSUME IInv, NEW t \in Task, CommitCommand(t)
  PROVE  Ledger!Next
<1>1. PICK m \in Message : m = handlers[t]
  BY CommandSaves
<1>2. /\ Admits(m, t) /\ m \notin processed /\ processed' = processed \cup {m} /\ up
      /\ UNCHANGED <<locks, LedgerClaims, up, calls>>
  <2>1. UNCHANGED <<locks, workers, calls, up>> /\ up /\ processed' = processed \cup {m}
    BY <1>1 DEF CommitCommand, World
  <2> QED
    BY <1>1, <2>1, CommandSaves, ClaimsRest
<1>3. Ledger!ProcessMessage(m)
  BY <1>2 DEF Ledger!ProcessMessage
<1>4. Typing /\ rows[t] \in RowType
  BY DEF IInv, Typing, TypeOK, RowType
<1>5. ASSUME NEW row, Save(t, t, row)
      PROVE  Ledger!SetRow(t, LedgerRow(row))
  BY <1>4, <1>5, LedgerSave DEF Save
<1>6. \/ Ledger!ApproveMerge(t, m) \/ Ledger!ApproveDeploy(t, m)
      \/ Ledger!Supplement(t, m) \/ Ledger!Cancel(t, m)
  <2>1. CASE CommandOf[m] = "merge"
    <3>1. /\ Save(t, t, Moved(t, "merging")) /\ lastApproval' = lastApproval + 1
          /\ approvals' = [Replaced(t, "merge", "superseded") EXCEPT ![m] =
               [task |-> t, kind |-> "merge", result |-> "approved",
                commit |-> BoundCommit("merge", rows[t]), id |-> lastApproval + 1]]
      BY <1>1, <2>1 DEF CommitCommand, Approve
    <3>2. /\ Sender[m] \in Admin /\ rows[t].status = "awaiting_merge_approval"
          /\ rows[t].commit # NoCommit
      BY <1>2, <2>1 DEF Admits
    <3>3. Ledger!SetRow(t, [LedgerTasks[t] EXCEPT !.status = "merging"])
      BY <1>4, <3>1, LedgerMove DEF Save, Status
    <3>4. Ledger!RecordApproval(t, "merge", m)
      <4>1. Ledger!BoundCommit("merge", LedgerTasks[t]) = BoundCommit("merge", rows[t])
        BY LedgerReads
      <4> QED
        BY <3>1, <4>1, LedgerInvalidated DEF Ledger!RecordApproval
    <3>5. Ledger!CanTransition(LedgerTasks[t].status, "merging")
      BY <3>2, LedgerReads DEF Ledger!CanTransition
    <3>6. LedgerTasks[t].status = "awaiting_merge_approval" /\ LedgerTasks[t].commit # NoCommit
      BY <3>2, LedgerReads
    <3> QED
      BY <1>2, <1>3, <3>2, <3>3, <3>4, <3>5, <3>6
      DEF Ledger!ApproveMerge, Ledger!CanApprove, Ledger!SetStatus
  <2>2. CASE CommandOf[m] = "deploy"
    <3>1. /\ Save(t, t, [Moved(t, "deploying") EXCEPT !.key = rows[t].rc])
          /\ lastApproval' = lastApproval + 1
          /\ approvals' = [Replaced(t, "deploy", "superseded") EXCEPT ![m] =
               [task |-> t, kind |-> "deploy", result |-> "approved",
                commit |-> BoundCommit("deploy", rows[t]), id |-> lastApproval + 1]]
      BY <1>1, <2>2 DEF CommitCommand, Approve
    <3>2. /\ Sender[m] \in Admin /\ rows[t].rc # NoCommit
          /\ rows[t].status \in {"awaiting_deploy_approval", "deploy_failed"}
      BY <1>2, <2>2 DEF Admits
    <3>3. Ledger!SetRow(t, [LedgerTasks[t] EXCEPT !.status = "deploying",
                                                  !.key = LedgerTasks[t].rc])
      <4>1. LedgerRow([Moved(t, "deploying") EXCEPT !.key = rows[t].rc]) =
              [LedgerRow(rows[t]) EXCEPT !.status = "deploying", !.key = LedgerRow(rows[t]).rc]
        BY <1>4, LedgerRows DEF Moved, Status
      <4>2. LedgerTasks[t] = LedgerRow(rows[t])
        BY LedgerReads
      <4>3. Ledger!SetRow(t, LedgerRow([Moved(t, "deploying") EXCEPT !.key = rows[t].rc]))
        BY <1>5, <3>1
      <4> QED
        BY <4>1, <4>2, <4>3
    <3>4. Ledger!RecordApproval(t, "deploy", m)
      <4>1. Ledger!BoundCommit("deploy", LedgerTasks[t]) = BoundCommit("deploy", rows[t])
        BY LedgerReads
      <4> QED
        BY <3>1, <4>1, LedgerInvalidated DEF Ledger!RecordApproval
    <3>5. /\ LedgerTasks[t].status \in {"awaiting_deploy_approval", "deploy_failed"}
          /\ LedgerTasks[t].rc # NoCommit
      BY <3>2, LedgerReads
    <3> QED
      BY <1>2, <1>3, <3>2, <3>3, <3>4, <3>5 DEF Ledger!ApproveDeploy, Ledger!CanApprove
  <2>3. CASE CommandOf[m] = "supplement"
    <3>1. /\ Save(t, t, [Moved(t, "queued") EXCEPT !.commit = NoCommit, !.rc = NoCommit])
          /\ approvals' = Replaced(t, "merge", "superseded_by_new_commit")
          /\ UNCHANGED lastApproval
      BY <1>1, <2>3 DEF CommitCommand
    <3>2. /\ Sender[m] \in Admin \/ Sender[m] = Creator[t]
          /\ rows[t].status \in {"blocked", "awaiting_merge_approval"}
      BY <1>2, <2>3 DEF Admits
    <3>3. Ledger!SetRow(t, [LedgerTasks[t] EXCEPT !.status = "queued",
                                                  !.commit = NoCommit, !.rc = NoCommit])
      <4>1. LedgerRow([Moved(t, "queued") EXCEPT !.commit = NoCommit, !.rc = NoCommit]) =
              [LedgerRow(rows[t]) EXCEPT !.status = "queued",
                                         !.commit = NoCommit, !.rc = NoCommit]
        BY <1>4, LedgerRows DEF Moved, Status
      <4>2. LedgerTasks[t] = LedgerRow(rows[t])
        BY LedgerReads
      <4>3. Ledger!SetRow(t, LedgerRow([Moved(t, "queued") EXCEPT !.commit = NoCommit,
                                                                  !.rc = NoCommit]))
        BY <1>5, <3>1
      <4> QED
        BY <4>1, <4>2, <4>3
    <3>4. LedgerTasks[t].status \in {"blocked", "awaiting_merge_approval"}
      BY <3>2, LedgerReads
    <3> QED
      BY <1>2, <1>3, <3>1, <3>2, <3>3, <3>4, LedgerInvalidated
      DEF Ledger!Supplement, Ledger!CanOperate
  <2>4. CASE CommandOf[m] = "cancel"
    <3>1. Save(t, t, Moved(t, "cancelled")) /\ UNCHANGED <<approvals, lastApproval>>
      BY <1>1, <2>4 DEF CommitCommand
    <3>2. /\ Sender[m] \in Admin \/ Sender[m] = Creator[t]
          /\ CanTransition(rows[t].status, "cancelled")
      BY <1>2, <2>4 DEF Admits
    <3>3. Ledger!SetRow(t, [LedgerTasks[t] EXCEPT !.status = "cancelled"])
      BY <1>4, <3>1, LedgerMove DEF Save, Status
    <3>4. Ledger!CanTransition(LedgerTasks[t].status, "cancelled")
      BY <3>2, LedgerReads DEF CanTransition, Ledger!CanTransition
    <3> QED
      BY <1>2, <1>3, <3>1, <3>2, <3>3, <3>4
      DEF Ledger!Cancel, Ledger!CanOperate, Ledger!SetStatus
  <2> QED
    BY <2>1, <2>2, <2>3, <2>4
<1> QED
  BY <1>6 DEF Ledger!Next, Ledger!Command

LEMMA SameTable ==
  /\ \A a, b : Ledger!CanTransition(a, b) = CanTransition(a, b)
  /\ \A a, b : Ledger!Recovered(a, b) = Recovered(a, b)
BY DEF Ledger!CanTransition, CanTransition, Ledger!Recovered, Recovered,
       Ledger!Interrupted, Interrupted

LEMMA ClaimRefines ==
  ASSUME IInv, NEW t \in Task, Claim(t), WorkFrame
  PROVE  Ledger!Next \/ (Go(t, "exit") /\ UNCHANGED <<approvals, locks>>)
<1>1. CASE \A m \in Message : ~Claimable(t, m)
  BY <1>1 DEF Claim
<1>2. ASSUME NEW m \in Message, Claimable(t, m),
             approvals' = [approvals EXCEPT ![m].result = "executing"],
             locks' = [locks EXCEPT ![P(t)] = m],
             workers' = [workers EXCEPT ![t].pc = "git", ![t].approval = m]
      PROVE  Ledger!ClaimApproval(m)
  <2>1. /\ approvals[m].task = t /\ approvals[m].kind = Kind(t)
        /\ approvals[m].result = "approved" /\ locks[P(t)] = NoMessage
        /\ rows[t].status = ExecutingStatus(Kind(t))
        /\ approvals[m].commit = BoundCommit(Kind(t), rows[t])
        /\ Ledger!Newest(m)
    BY <1>2 DEF Claimable, InStage, Ledger!Newest, Ledger!IsApproved
  <2>2. /\ workers[t].pc = "claim" /\ up
        /\ UNCHANGED <<rows, lastApproval, processed, up, calls>>
    BY DEF Claim, At, World, WorkFrame
  <2>3. workers[t].approval = NoMessage
    BY <2>2 DEF IInv, MutexSound
  <2>4. calls[m] = 0
    BY <2>1 DEF IInv, HelperSound
  <2>5. PICK w \in WorkerType : w = workers[t]
    BY DEF IInv, Typing, TypeOK, WorkerType
  <2> DEFINE v == [w EXCEPT !.pc = "git", !.approval = m]
  <2>6. workers' = [workers EXCEPT ![t] = v]
    BY <1>2, <2>5
  <2>7. v.approval = m
    BY DEF WorkerType
  <2> HIDE DEF v
  <2>8. \A u \in Task : workers[u].approval = m => u = t
    <3> SUFFICES ASSUME NEW u \in Task, workers[u].approval = m PROVE u = t
      OBVIOUS
    <3>1. workers[u].pc \in {"git", "call", "finish"}
      BY DEF IInv, MutexSound
    <3> QED
      BY <2>1, <3>1, AtClaimed
  <2>9. LedgerClaims' = [LedgerClaims EXCEPT ![m] = "claimed"]
    <3>1. workers'[t] = v /\ \A u \in Task \ {t} : workers'[u] = workers[u]
      BY <2>6 DEF IInv, Typing, TypeOK
    <3>2. \A n \in Message \ {m} : /\ workers[t].approval # n /\ workers'[t].approval # n
                                   /\ calls'[n] = calls[n]
      BY <2>2, <2>3, <2>7, <3>1
    <3>3. "claimed" = IF workers'[t].approval # m THEN "none"
                      ELSE IF calls'[m] = 0 THEN "claimed" ELSE "called"
      BY <2>2, <2>4, <2>7, <3>1
    <3> QED
      BY <2>8, <3>1, <3>2, <3>3, ClaimsMove
  <2>10. UNCHANGED LedgerTasks
    BY <2>2 DEF LedgerTasks
  <2>11. /\ LedgerTasks[t].status = Ledger!ExecutingStatus(Kind(t))
         /\ Ledger!BoundCommit(Kind(t), LedgerTasks[t]) = approvals[m].commit
    BY <2>1, LedgerReads DEF ExecutingStatus, Ledger!ExecutingStatus
  <2> QED
    BY <1>2, <2>1, <2>2, <2>9, <2>10, <2>11 DEF Ledger!ClaimApproval, P
<1> QED
  BY <1>1, <1>2 DEF Claim, Ledger!Next, Ledger!Release

LEMMA CallRefines ==
  ASSUME IInv, NEW t \in Task, Call(t), WorkFrame
  PROVE  Ledger!Next
<1>1. workers[t].pc = "git" /\ up /\ UNCHANGED <<rows, approvals, lastApproval, locks, processed, up>>
  BY DEF Call, At, Tables, WorkFrame
<1>2. PICK m \in Message : m = workers[t].approval
  BY <1>1, AtClaimed
<1>3. /\ approvals[m].task = t /\ approvals[m].kind = Kind(t) /\ InStage(t)
      /\ BoundCommit(Kind(t), rows[t]) = approvals[m].commit /\ Fits(t)
  BY <1>1, <1>2, AtClaimed DEF Fits
<1>4. calls[m] = 0 /\ calls \in [Message -> Nat]
  BY <1>1, <1>2 DEF IInv, WorkerSound, Typing, TypeOK
<1>5. Go(t, "call") /\ calls' = [calls EXCEPT ![m] = @ + 1]
  BY <1>2, <1>3 DEF Call
<1>6. PICK w \in WorkerType : w = workers[t]
  BY DEF IInv, Typing, TypeOK, WorkerType
<1> DEFINE v == [w EXCEPT !.pc = "call"]
<1>7. workers' = [workers EXCEPT ![t] = v] /\ v.approval = m
  BY <1>2, <1>5, <1>6 DEF Go, WorkerType
<1> HIDE DEF v
<1>8. calls'[m] # 0 /\ \A n \in Message \ {m} : calls'[n] = calls[n]
  BY <1>4, <1>5
<1>9. LedgerClaims[m] = "claimed" /\ \A u \in Task : workers[u].approval = m => u = t
  BY <1>1, <1>2, <1>4, OneOwner
<1>10. LedgerClaims' = [LedgerClaims EXCEPT ![m] = "called"]
  <2>1. workers'[t] = v /\ \A u \in Task \ {t} : workers'[u] = workers[u]
    BY <1>7 DEF IInv, Typing, TypeOK
  <2>2. \A n \in Message \ {m} : /\ workers[t].approval # n /\ workers'[t].approval # n
                                 /\ calls'[n] = calls[n]
    BY <1>2, <1>7, <1>8, <2>1
  <2>3. "called" = IF workers'[t].approval # m THEN "none"
                   ELSE IF calls'[m] = 0 THEN "claimed" ELSE "called"
    BY <1>7, <1>8, <2>1
  <2> QED
    BY <1>9, <2>1, <2>2, <2>3, ClaimsMove
<1>11. UNCHANGED LedgerTasks
  BY <1>1 DEF LedgerTasks
<1>12. /\ LedgerTasks[t].status = Ledger!ExecutingStatus(Kind(t))
       /\ Ledger!BoundCommit(Kind(t), LedgerTasks[t]) = approvals[m].commit
  BY <1>3, LedgerReads DEF InStage, ExecutingStatus, Ledger!ExecutingStatus
<1>13. Ledger!CallOperator(m)
  BY <1>1, <1>3, <1>5, <1>9, <1>10, <1>11, <1>12 DEF Ledger!CallOperator
<1> QED
  BY <1>13 DEF Ledger!Next, Ledger!Release

(* The worker gives up its approval, in a completion or because the store   *)
(* has failed.                                                              *)
LEMMA WorkerGivesUp ==
  ASSUME IInv, NEW t \in Task, NEW pc,
         workers' = [workers EXCEPT ![t].approval = NoMessage, ![t].pc = pc]
  PROVE  /\ workers'[t].approval = NoMessage
         /\ \A u \in Task \ {t} : workers'[u] = workers[u]
<1>1. workers \in [Task -> WorkerType]
  BY DEF IInv, Typing, TypeOK, WorkerType
<1>2. PICK w \in WorkerType : w = workers[t]
  BY <1>1
<1> DEFINE v == [w EXCEPT !.approval = NoMessage, !.pc = pc]
<1>3. workers' = [workers EXCEPT ![t] = v] /\ v.approval = NoMessage
  BY <1>2 DEF WorkerType
<1> HIDE DEF v
<1> QED
  BY <1>1, <1>3

LEMMA ClaimEnds ==
  ASSUME IInv, NEW t \in Task, workers[t].pc = "finish",
         NEW m \in Message, m = workers[t].approval, UNCHANGED calls,
         workers'[t].approval = NoMessage, \A u \in Task \ {t} : workers'[u] = workers[u]
  PROVE  /\ LedgerClaims[m] = "called"
         /\ LedgerClaims' = [LedgerClaims EXCEPT ![m] = "none"]
<1>1. calls[m] # 0
  BY AtFinish
<1>2. LedgerClaims[m] = "called" /\ \A u \in Task : workers[u].approval = m => u = t
  BY <1>1, OneOwner
<1>3. \A n \in Message \ {m} : /\ workers[t].approval # n /\ workers'[t].approval # n
                               /\ calls'[n] = calls[n]
  OBVIOUS
<1>4. "none" = IF workers'[t].approval # m THEN "none"
               ELSE IF calls'[m] = 0 THEN "claimed" ELSE "called"
  OBVIOUS
<1> QED
  BY <1>2, <1>3, <1>4, ClaimsMove

LEMMA FinishCompletes ==
  ASSUME IInv, NEW t \in Task, Finish(t), WorkFrame,
         NEW m \in Message, m = workers[t].approval
  PROVE  /\ LedgerClaims[m] = "called"
         /\ Ledger!Complete(m, LedgerRow(Row(t)), IF workers[t].outcome = "ok"
              THEN "completed" ELSE workers[t].outcome)
<1> DEFINE o == workers[t].outcome
           pc == IF Kind(t) = "merge" /\ o = "ok" THEN "to_awaiting" ELSE "notify"
<1>1. /\ workers[t].pc = "finish" /\ up
      /\ approvals[m].result = "executing" /\ locks[P(t)] = m
      /\ CanTransition(rows[t].status, Row(t).status) /\ Save(W(t), t, Row(t))
      /\ approvals' = [approvals EXCEPT ![m].result = IF o = "ok" THEN "completed" ELSE o]
      /\ locks' = [locks EXCEPT ![P(t)] = NoMessage]
      /\ workers' = [workers EXCEPT ![t].approval = NoMessage, ![t].pc = pc]
      /\ UNCHANGED <<lastApproval, processed, up, calls>>
  BY DEF Finish, At, World, WorkFrame
<1> HIDE DEF pc
<1>2. /\ LedgerClaims[m] = "called"
      /\ LedgerClaims' = [LedgerClaims EXCEPT ![m] = "none"]
  BY <1>1, WorkerGivesUp, ClaimEnds
<1>3. approvals[m].task = t
  <2>1. workers[t].pc = "finish"
    BY <1>1
  <2> QED
    BY <2>1, AtFinish
<1>4. LedgerTasks' = [LedgerTasks EXCEPT ![t] = LedgerRow(Row(t))]
  <2>1. Save(W(t), t, Row(t))
    BY <1>1
  <2> QED
    BY <2>1, LedgerSave DEF Save, IInv, Ledger!SetRow
<1>5. Ledger!CanTransition(LedgerTasks[t].status, LedgerRow(Row(t)).status)
  BY <1>1, SameTable, LedgerReads DEF LedgerRow
<1> QED
  BY <1>1, <1>2, <1>3, <1>4, <1>5 DEF Ledger!Complete, Ledger!SetRow, P

LEMMA FinishRefines ==
  ASSUME IInv, NEW t \in Task, Finish(t), WorkFrame
  PROVE  Ledger!Next
<1> DEFINE w == workers[t]  o == w.outcome  h == w.head
<1>1. w.pc = "finish"
  BY DEF Finish, At
<1>2. PICK m \in Message : m = w.approval
  BY <1>1, AtFinish
<1>3. /\ approvals[m].task = t /\ approvals[m].kind = w.kind
      /\ w.kind \in {"merge", "deploy"}
      /\ w.kind = "merge" =>
           /\ o \in {"ok", "failed", "commit_changed", "merge_conflict"}
           /\ o = "ok" => h \in RcCommit
      /\ w.kind = "deploy" =>
           /\ o \in {"ok", "failed", "commit_changed"}
           /\ o = "commit_changed" => h \in RcCommit
  BY <1>1, <1>2, AtFinish DEF InRc
<1>4. rows[t] \in RowType /\ Ledger!Target(m) = LedgerRow(rows[t])
  BY <1>3, LedgerReads DEF IInv, Typing, TypeOK, RowType, Ledger!Target
<1>5. /\ LedgerClaims[m] = "called"
      /\ Ledger!Complete(m, LedgerRow(Row(t)), IF o = "ok" THEN "completed" ELSE o)
  BY <1>2, FinishCompletes
<1> HIDE DEF o, h
<1>6. ASSUME NEW s \in Status, Row(t) = Moved(t, s)
      PROVE  LedgerRow(Row(t)) = [Ledger!Target(m) EXCEPT !.status = s]
  <2>1. LedgerRow(Moved(t, s)) = [LedgerRow(rows[t]) EXCEPT !.status = s]
    BY <1>4, LedgerRows DEF Moved
  <2> QED
    BY <1>4, <1>6, <2>1
<1>7. ASSUME NEW s \in Status, h \in RcCommit,
             Row(t) = [Moved(t, s) EXCEPT !.rc = h, !.key = NoCommit]
      PROVE  LedgerRow(Row(t)) = [Ledger!Target(m) EXCEPT !.status = s, !.rc = h,
                                                          !.key = NoCommit]
  <2>1. Row(t) = Recorded(rows[t], s, h)
    BY <1>7 DEF Moved, Recorded
  <2>2. s \in Status /\ h \in RcCommit /\ rows[t] \in RowType
    BY <1>4, <1>7
  <2>3. LedgerRow(Recorded(rows[t], s, h)) = Recorded(LedgerRow(rows[t]), s, h)
    BY <2>2, LedgerRecords
  <2>4. LedgerRow(Row(t)) = Recorded(Ledger!Target(m), s, h)
    BY <1>4, <2>1, <2>3
  <2> QED
    BY <2>4 DEF Recorded
<1>8. CASE w.kind = "merge" /\ o = "ok"
  <2>1. LedgerRow(Row(t)) = [Ledger!Target(m) EXCEPT !.status = "merged", !.rc = h,
                                                     !.key = NoCommit]
    BY <1>3, <1>7, <1>8 DEF Row, Kind, Status, o, h
  <2>2. Ledger!CompleteMerge(m, h) /\ h \in Commit
    BY <1>3, <1>5, <1>8, <2>1 DEF Ledger!CompleteMerge, Commit
  <2> QED
    BY <2>2 DEF Ledger!Next, Ledger!Release
<1>9. CASE w.kind = "merge" /\ o # "ok"
  <2>1. PICK s \in {"failed", "merge_conflict"} :
          Row(t) = Moved(t, s) /\ <<s, o>> \in Ledger!Refusal
    BY <1>3, <1>9 DEF Row, Kind, Ledger!Refusal, o
  <2>2. LedgerRow(Row(t)) = [Ledger!Target(m) EXCEPT !.status = s]
    BY <1>6, <2>1 DEF Status
  <2>3. Ledger!RefuseMerge(m, <<s, o>>)
    BY <1>3, <1>5, <1>9, <2>2 DEF Ledger!RefuseMerge
  <2> QED
    BY <2>1, <2>3 DEF Ledger!Next, Ledger!Release
<1>10. CASE w.kind = "deploy" /\ o = "ok"
  <2>1. LedgerRow(Row(t)) = [Ledger!Target(m) EXCEPT !.status = "deployed"]
    BY <1>6, <1>10 DEF Row, Kind, Status, o
  <2>2. Ledger!CompleteDeploy(m)
    BY <1>3, <1>5, <1>10, <2>1 DEF Ledger!CompleteDeploy
  <2> QED
    BY <2>2 DEF Ledger!Next, Ledger!Release
<1>11. CASE w.kind = "deploy" /\ o = "commit_changed"
  <2>1. LedgerRow(Row(t)) = [Ledger!Target(m) EXCEPT !.status = "awaiting_deploy_approval",
                                                     !.rc = h, !.key = NoCommit]
    BY <1>3, <1>7, <1>11 DEF Row, Kind, Status, o, h
  <2>2. Ledger!RetargetDeploy(m, h) /\ h \in Commit
    BY <1>3, <1>5, <1>11, <2>1 DEF Ledger!RetargetDeploy, Commit
  <2> QED
    BY <2>2 DEF Ledger!Next, Ledger!Release
<1>12. CASE w.kind = "deploy" /\ o = "failed"
  <2>1. LedgerRow(Row(t)) = [Ledger!Target(m) EXCEPT !.status = "deploy_failed"]
    BY <1>6, <1>12 DEF Row, Kind, Status, o
  <2>2. Ledger!FailDeploy(m)
    BY <1>3, <1>5, <1>12, <2>1 DEF Ledger!FailDeploy
  <2> QED
    BY <2>2 DEF Ledger!Next, Ledger!Release
<1> QED
  BY <1>3, <1>8, <1>9, <1>10, <1>11, <1>12

LEMMA AbandonRefines ==
  ASSUME IInv, NEW t \in Task, StoreFails(t), WorkFrame, workers[t].pc = "finish"
  PROVE  Ledger!Next
<1>1. PICK m \in Message : m = workers[t].approval
  BY AtFinish
<1>2. /\ up /\ workers' = [workers EXCEPT ![t].pc = "exit", ![t].approval = NoMessage]
      /\ UNCHANGED <<rows, approvals, lastApproval, locks, processed, up, calls>>
  BY DEF StoreFails, At, Tables, World, WorkFrame
<1>3. workers' = [workers EXCEPT ![t].approval = NoMessage, ![t].pc = "exit"]
  <2>1. PICK w \in WorkerType : w = workers[t]
    BY DEF IInv, Typing, TypeOK, WorkerType
  <2>2. [w EXCEPT !.pc = "exit", !.approval = NoMessage] =
          [w EXCEPT !.approval = NoMessage, !.pc = "exit"]
    BY DEF WorkerType
  <2> QED
    BY <1>2, <2>1, <2>2
<1>4. workers'[t].approval = NoMessage /\ \A u \in Task \ {t} : workers'[u] = workers[u]
  BY <1>3, WorkerGivesUp
<1>5. LedgerClaims[m] = "called" /\ LedgerClaims' = [LedgerClaims EXCEPT ![m] = "none"]
  BY <1>1, <1>2, <1>4, ClaimEnds
<1>6. UNCHANGED LedgerTasks
  BY <1>2 DEF LedgerTasks
<1>7. Ledger!Abandon(m)
  BY <1>2, <1>5, <1>6 DEF Ledger!Abandon
<1> QED
  BY <1>7 DEF Ledger!Next, Ledger!Release

(* What the steps that take, keep or give up no approval have in common. *)
LEMMA ApprovalsHeld ==
  ASSUME IInv, [Next]_vars, NEW t \in Task
  PROVE  \/ workers'[t].approval = workers[t].approval
         \/ Claim(t) /\ workers'[t].pc = "git"
         \/ Finish(t) \/ Crash
         \/ StoreFails(t) /\ workers[t].pc = "finish"
<1>1. /\ workers[t].pc \in {"idle", "exit", "to_awaiting"} => workers[t].approval = NoMessage
      /\ Idle.approval = NoMessage
  BY DEF IInv, MutexSound, Idle
<1>2. ASSUME (Work(t) /\ ~Exit(t)) \/ (StoreFails(t) /\ WorkFrame)
      PROVE  \/ workers'[t].approval = workers[t].approval
             \/ Claim(t) /\ workers'[t].pc = "git"
             \/ Finish(t)
             \/ StoreFails(t) /\ workers[t].pc = "finish"
  <2>1. WorkerGoes(t, workers[t], workers'[t])
    BY <1>2, WorkerMoves
  <2>2. StoreFails(t) => workers[t].pc \in {"finish", "to_awaiting"}
    BY DEF StoreFails, At
  <2> QED
    BY <1>1, <2>1, <2>2 DEF WorkerGoes
<1>3. Exit(t) => workers[t].pc = "exit"
  BY DEF Exit, At
<1> QED
  BY <1>1, <1>2, <1>3, WorkerSteps

LEMMA InvisibleSteps ==
  ASSUME IInv, [Next]_vars, Tables, UNCHANGED <<processed, calls, up>>,
         \A t \in Task : ~(StoreFails(t) /\ workers[t].pc = "finish")
  PROVE  UNCHANGED Ledger!vars
<1>1. ASSUME NEW t \in Task
      PROVE  workers'[t].approval = workers[t].approval
  <2>1. ~Crash
    BY DEF Crash
  <2>2. ~Finish(t)
    <3> SUFFICES ASSUME Finish(t) PROVE FALSE
      OBVIOUS
    <3>1. workers[t].pc = "finish"
      BY DEF Finish, At
    <3>2. workers[t].approval \in Message /\ locks[P(t)] = workers[t].approval
      BY <3>1, AtFinish
    <3>3. locks'[P(t)] = NoMessage
      BY DEF Finish, IInv, Typing, TypeOK, P
    <3> QED
      BY <3>2, <3>3 DEF Tables
  <2>3. ~(Claim(t) /\ workers'[t].pc = "git")
    <3> SUFFICES ASSUME Claim(t), workers'[t].pc = "git" PROVE FALSE
      OBVIOUS
    <3>1. CASE Go(t, "exit")
      <4>1. PICK w \in WorkerType : w = workers[t]
        BY DEF IInv, Typing, TypeOK, WorkerType
      <4>2. workers'[t] = [w EXCEPT !.pc = "exit"]
        BY <3>1, <4>1 DEF Go, IInv, Typing, TypeOK
      <4>3. [w EXCEPT !.pc = "exit"].pc = "exit"
        BY DEF WorkerType
      <4> QED
        BY <4>2, <4>3
    <3>2. CASE \E m \in Message : Claimable(t, m) /\ approvals'[m].result = "executing"
      BY <3>2 DEF Claimable, Tables
    <3> QED
      BY <3>1, <3>2, ClaimTakes
  <2> QED
    BY <2>1, <2>2, <2>3, ApprovalsHeld
<1>2. UNCHANGED LedgerClaims
  BY <1>1, ClaimsRest
<1>3. UNCHANGED LedgerTasks
  BY DEF LedgerTasks, Tables
<1> QED
  BY <1>2, <1>3 DEF Ledger!vars, Tables

(* The scan and the worker move a merged task on, unless the scan does not  *)
(* dare to.                                                                 *)
LEMMA AwaitRefines ==
  ASSUME IInv, [Next]_vars, NEW t \in Task, MovesOn(t) \/ (MoveMerged(t) /\ WorkFrame)
  PROVE  Ledger!Next \/ UNCHANGED Ledger!vars
<1>1. /\ UNCHANGED <<approvals, lastApproval, locks, processed, calls, up>> /\ up
      /\ ~Crash /\ \A u \in Task : ~Claim(u) \/ workers'[u].pc # "git"
  <2>1. UNCHANGED <<approvals, lastApproval, locks, processed, calls, up>> /\ up
    BY DEF MovesOn, MoveOn, MoveMerged, WorkFrame, World, scanFrame, At
  <2>2. ASSUME NEW u \in Task, Claim(u), workers'[u].pc = "git"
        PROVE  FALSE
    <3>1. MovesOn(t) => UNCHANGED workers
      BY DEF MovesOn, MoveOn
    <3>2. MoveMerged(t) => Go(t, "notify") /\ workers[t].pc = "to_awaiting"
      BY DEF MoveMerged, At
    <3>3. workers[u].pc = "claim"
      BY <2>2 DEF Claim, At
    <3>4. workers'[u] = workers[u]
      BY <3>1, <3>2, <3>3 DEF Go, IInv, Typing, TypeOK
    <3> QED
      BY <2>2, <3>3, <3>4
  <2> QED
    BY <2>1, <2>2 DEF Crash
<1>2. UNCHANGED LedgerClaims
  <2>1. MovesOn(t) => UNCHANGED workers
    BY DEF MovesOn, MoveOn
  <2>2. ASSUME MoveMerged(t), NEW u \in Task
        PROVE  workers'[u].approval = workers[u].approval
    <3>1. PICK w \in WorkerType : w = workers[t]
      BY DEF IInv, Typing, TypeOK, WorkerType
    <3> DEFINE v == [w EXCEPT !.pc = "notify"]
    <3>2. workers' = [workers EXCEPT ![t] = v] /\ v.approval = w.approval
      BY <2>2, <3>1 DEF MoveMerged, Go, WorkerType
    <3> HIDE DEF v
    <3> QED
      BY <3>1, <3>2 DEF IInv, Typing, TypeOK
  <2> QED
    BY <1>1, <2>1, <2>2, ClaimsRest
<1>3. \/ UNCHANGED rows
      \/ /\ rows[t].status = "merged"
         /\ rows' = [rows EXCEPT ![t] = Moved(t, "awaiting_deploy_approval")]
  <2>1. CASE MovesOn(t)
    <3>1. \/ UNCHANGED rows
          \/ /\ ScanItem(t) \in current /\ t \in scan.todo /\ scan.phase = "merged"
             /\ rows' = [rows EXCEPT ![t] = Moved(t, "awaiting_deploy_approval")]
      BY <2>1 DEF MovesOn, MoveOn, Save
    <3> QED
      BY <3>1 DEF IInv, ScanSound
  <2>2. CASE MoveMerged(t)
    BY <2>2 DEF MoveMerged, Save, At, IInv, WorkerSound
  <2> QED
    BY <2>1, <2>2
<1>4. CASE UNCHANGED rows
  BY <1>1, <1>2, <1>4 DEF Ledger!vars, LedgerTasks
<1>5. CASE /\ rows[t].status = "merged"
           /\ rows' = [rows EXCEPT ![t] = Moved(t, "awaiting_deploy_approval")]
  <2>1. Ledger!SetRow(t, [LedgerTasks[t] EXCEPT !.status = "awaiting_deploy_approval"])
    BY <1>5, LedgerMove DEF IInv, Status
  <2>2. LedgerTasks[t].status = "merged"
    BY <1>5, LedgerReads
  <2>3. Ledger!CanTransition(LedgerTasks[t].status, "awaiting_deploy_approval")
    BY <2>2 DEF Ledger!CanTransition
  <2>4. Ledger!AwaitDeployApproval(t)
    BY <1>1, <1>2, <2>1, <2>2, <2>3
    DEF Ledger!AwaitDeployApproval, Ledger!SetStatus, Ledger!Internal
  <2> QED
    BY <2>4 DEF Ledger!Next, Ledger!Execute
<1> QED
  BY <1>3, <1>4, <1>5

LEMMA CrashRefines ==
  ASSUME IInv, Crash
  PROVE  Ledger!Next
<1>1. /\ up /\ up' = FALSE /\ workers' = [t \in Task |-> Idle]
      /\ UNCHANGED <<rows, approvals, lastApproval, locks, processed, calls>>
  BY DEF Crash, Tables, World
<1>2. LedgerClaims' = [m \in Message |-> "none"]
  <2>1. ASSUME NEW m \in Message
        PROVE  Claims(m)' = "none"
    <3>1. {t \in Task : workers'[t].approval = m} = {}
      BY <1>1 DEF Idle
    <3> QED
      BY <3>1 DEF Claims
  <2> QED
    BY <2>1 DEF LedgerClaims
<1>3. UNCHANGED LedgerTasks
  BY <1>1 DEF LedgerTasks
<1>4. Ledger!Crash
  BY <1>1, <1>2, <1>3 DEF Ledger!Crash
<1> QED
  BY <1>4 DEF Ledger!Next

LEMMA RecoveryRefines ==
  ASSUME IInv, RecoverInterrupted
  PROVE  Ledger!Next
<1>1. /\ ~up /\ up' = TRUE
      /\ UNCHANGED <<approvals, lastApproval, processed, workers, calls>>
      /\ rows' = [t \in Task |-> Moved(t, Recovered(rows[t].status,
                                                    rows[t].commit # NoCommit))]
  BY DEF RecoverInterrupted, World
<1>2. UNCHANGED LedgerClaims
  BY <1>1, ClaimsRest
<1>3. ASSUME NEW t \in Task
      PROVE  LedgerRow(rows'[t]) = [LedgerTasks[t] EXCEPT !.status =
               Ledger!Recovered(LedgerTasks[t].status, LedgerTasks[t].commit # NoCommit)]
  <2> DEFINE s == Recovered(rows[t].status, rows[t].commit # NoCommit)
  <2>1. rows'[t] = Moved(t, s)
    BY <1>1
  <2>2. rows[t] \in RowType /\ rows'[t] \in RowType
    BY RecoverySaves DEF IInv, Typing, TypeOK, RowType
  <2>3. s = Ledger!Recovered(LedgerTasks[t].status, LedgerTasks[t].commit # NoCommit)
    BY SameTable, LedgerReads
  <2> HIDE DEF s
  <2>4. s \in Status
    <3>1. rows'[t].status = s
      BY <2>1, <2>2 DEF Moved, RowType
    <3> QED
      BY <2>2, <3>1 DEF RowType
  <2>5. LedgerRow(Moved(t, s)) = [LedgerRow(rows[t]) EXCEPT !.status = s]
    BY <2>2, <2>4, LedgerRows DEF Moved
  <2> QED
    BY <2>1, <2>3, <2>5, LedgerReads
<1>4. LedgerTasks' = [t \in Task |-> [LedgerTasks[t] EXCEPT !.status =
        Ledger!Recovered(LedgerTasks[t].status, LedgerTasks[t].commit # NoCommit)]]
  BY <1>3 DEF LedgerTasks
<1>5. locks' = [p \in Project |->
        IF /\ locks[p] # NoMessage
           /\ LedgerTasks'[approvals[locks[p]].task].status \notin {"merging", "deploying"}
          THEN NoMessage ELSE locks[p]]
  <2>1. ASSUME NEW p \in Project, locks[p] # NoMessage
        PROVE  LedgerTasks'[approvals[locks[p]].task].status \notin {"merging", "deploying"}
    <3>1. PICK t \in Task : t = approvals[locks[p]].task
      BY <2>1 DEF IInv, LockSound
    <3>2. RecoveredRow(t, rows'[t])
      BY RecoverySaves
    <3>3. LedgerTasks'[t].status = rows'[t].status
      BY DEF LedgerTasks, LedgerRow
    <3> QED
      BY <3>1, <3>2, <3>3 DEF RecoveredRow
  <2>2. locks' = [p \in Project |-> NoMessage]
    BY RecoverySaves
  <2> QED
    BY <2>1, <2>2
<1>6. Ledger!RecoverInterrupted
  BY <1>1, <1>2, <1>4, <1>5 DEF Ledger!RecoverInterrupted
<1> QED
  BY <1>6 DEF Ledger!Next

LEMMA StepRefines == IInv /\ [Next]_vars => [Ledger!Next]_(Ledger!vars)
<1> SUFFICES ASSUME IInv, [Next]_vars
             PROVE  Ledger!Next \/ UNCHANGED Ledger!vars
  OBVIOUS
<1>1. CASE \E t \in Task : CommitCommand(t)
  BY <1>1, CommandRefines
<1>2. CASE \E t \in Task : MovesOn(t) \/ (MoveMerged(t) /\ WorkFrame)
  BY <1>2, AwaitRefines
<1>3. CASE \E t \in Task : Claim(t) /\ WorkFrame
  <2>1. PICK t \in Task : Claim(t) /\ WorkFrame
    BY <1>3
  <2>2. CASE Go(t, "exit") /\ UNCHANGED <<approvals, locks>>
    <3>1. Tables /\ UNCHANGED <<processed, calls, up>> /\ UNCHANGED faults
      BY <2>1, <2>2 DEF Claim, World, WorkFrame, Tables
    <3>2. faults \in Nat
      BY DEF IInv, Typing, TypeOK
    <3>3. \A u \in Task : ~StoreFails(u)
      BY <3>1, <3>2 DEF StoreFails, Fault
    <3> QED
      BY <3>1, <3>3, InvisibleSteps
  <2> QED
    BY <2>1, <2>2, ClaimRefines
<1>4. CASE \E t \in Task : Call(t) /\ WorkFrame
  BY <1>4, CallRefines
<1>5. CASE \E t \in Task : Finish(t) /\ WorkFrame
  BY <1>5, FinishRefines
<1>6. CASE \E t \in Task : StoreFails(t) /\ WorkFrame /\ workers[t].pc = "finish"
  BY <1>6, AbandonRefines
<1>7. CASE Crash
  BY <1>7, CrashRefines
<1>8. CASE RecoverInterrupted
  BY <1>8, RecoveryRefines
<1>9. CASE /\ Tables /\ UNCHANGED <<processed, calls, up>>
           /\ \A t \in Task : ~(StoreFails(t) /\ workers[t].pc = "finish")
  BY <1>9, InvisibleSteps
<1>10. \/ Tables /\ UNCHANGED processed
       \/ \E t \in Task : CommitCommand(t) \/ MovesOn(t)
       \/ \E t \in Task : WorkFrame /\ (Claim(t) \/ Finish(t) \/ MoveMerged(t))
       \/ RecoverInterrupted
  BY TableSteps DEF TableStep
<1>11. \/ UNCHANGED <<calls, up>>
       \/ \E t \in Task : Call(t) /\ WorkFrame
       \/ Crash \/ RecoverInterrupted
  BY WorldSteps, UpSteps DEF World, Help, ForeignPush
<1>12. \/ \A t \in Task : ~StoreFails(t)
       \/ \E t \in Task : StoreFails(t) /\ WorkFrame
       \/ Crash
  <2>1. \/ UNCHANGED faults
        \/ \E t \in Task : StoreFails(t) /\ WorkFrame
        \/ Crash
    BY DEF WorkFrame, Next, vars, Work, Scan, List, Start, MoveOn, Read, CommitCommand,
           LockRelease, Load, Claim, Call, Answered, Finish, MoveMerged, Notify, Exit, Help,
           ForeignPush, RecoverInterrupted
  <2>2. faults \in Nat
    BY DEF IInv, Typing, TypeOK
  <2> QED
    BY <2>1, <2>2 DEF StoreFails, Fault
<1>13. ASSUME NEW t \in Task, StoreFails(t), WorkFrame, NEW u \in Task, StoreFails(u),
              workers[t].pc # "finish"
       PROVE  workers[u].pc # "finish"
  <2>1. workers[t].pc = "to_awaiting"
    BY <1>13 DEF StoreFails, At
  <2> SUFFICES ASSUME workers[u].pc = "finish", u # t
               PROVE  FALSE
    BY <1>13
  <2>2. /\ workers' = [workers EXCEPT ![t].pc = "exit", ![t].approval = NoMessage]
        /\ workers' = [workers EXCEPT ![u].pc = "exit", ![u].approval = NoMessage]
    BY <1>13 DEF StoreFails
  <2>3. PICK w \in WorkerType : w = workers[u]
    BY DEF IInv, Typing, TypeOK, WorkerType
  <2>4. workers'[u] = w
    BY <2>2, <2>3 DEF IInv, Typing, TypeOK
  <2>5. workers'[u] = [w EXCEPT !.pc = "exit", !.approval = NoMessage]
    BY <2>2, <2>3 DEF IInv, Typing, TypeOK
  <2>6. [w EXCEPT !.pc = "exit", !.approval = NoMessage].pc = "exit"
    BY DEF WorkerType
  <2> QED
    BY <2>3, <2>4, <2>5, <2>6
<1> QED
  BY <1>1, <1>2, <1>3, <1>4, <1>5, <1>6, <1>7, <1>8, <1>9, <1>10, <1>11, <1>12, <1>13

LEMMA InitRefines == Init => Ledger!IInv
<1> SUFFICES ASSUME Init
             PROVE  Ledger!IInv
  OBVIOUS
<1>1. IInv
  BY InitIInv
<1>2. /\ \A m \in Message : approvals[m].result = "none" /\ calls[m] = 0
      /\ \A p \in Project : locks[p] = NoMessage
      /\ \A t \in Task : workers[t].approval = NoMessage
  BY DEF Init, NoApproval, Idle
<1>3. ASSUME NEW t \in Task
      PROVE  /\ rows[t].status \in {"awaiting_merge_approval", "cancelled"}
             /\ rows[t].commit # NoCommit
             /\ rows[t] \in RowType
  <2>1. PICK r \in [Task -> {[status |-> s, commit |-> c, rc |-> NoCommit,
                              key |-> NoCommit] :
                             s \in {"awaiting_merge_approval", "cancelled"},
                             c \in {TaskCommit[u] : u \in Task}}] : r = rows
    BY DEF Init
  <2>2. rows[t].commit = TaskCommit[t] /\ TaskCommit[t] \in Commit
    BY DEF Init, Commit
  <2> QED
    BY <1>1, <2>1, <2>2 DEF IInv, Typing, TypeOK, RowType
<1>4. \A m \in Message : LedgerClaims[m] = "none"
  <2>1. ASSUME NEW m \in Message
        PROVE  {t \in Task : workers[t].approval = m} = {}
    BY <1>2
  <2> QED
    BY <2>1 DEF LedgerClaims, Claims
<1>5. Ledger!TypeOK
  <2>1. LedgerTasks \in [Task -> Ledger!Row]
    <3>1. ASSUME NEW t \in Task
          PROVE  LedgerRow(rows[t]) \in Ledger!Row
      <4>1. PICK r \in RowType : r = rows[t]
        BY <1>3
      <4>2. r.status \in Ledger!Status \cup {"absent"}
        BY <1>3, <4>1 DEF Ledger!Status
      <4>3. /\ r.commit \in Commit \cup {NoCommit}
            /\ r.rc \in Commit \cup {NoCommit}
            /\ r.key \in Commit \cup {NoCommit}
        BY DEF RowType, Commit
      <4> QED
        BY <4>1, <4>2, <4>3 DEF LedgerRow, Ledger!Row
    <3> QED
      BY <3>1 DEF LedgerTasks
  <2>2. LedgerClaims \in [Message -> {"none", "claimed", "called"}]
    BY <1>4 DEF LedgerClaims
  <2> QED
    BY <1>1, <2>1, <2>2 DEF IInv, Typing, TypeOK, Ledger!TypeOK
<1>6. Ledger!RowSound /\ Ledger!ReleaseHasApproval
  BY <1>3 DEF Ledger!RowSound, Ledger!RowOK, Ledger!ReleaseHasApproval,
     Ledger!ExecutingStatus, LedgerTasks, LedgerRow
<1>7. /\ Ledger!ApprovalSound /\ Ledger!LockSound /\ Ledger!ClaimSound
      /\ Ledger!CallSound /\ Ledger!OneLiveApproval
  BY <1>2, <1>4 DEF Ledger!ApprovalSound, Ledger!LockSound, Ledger!ClaimSound,
     Ledger!CallSound, Ledger!OneLiveApproval, Ledger!IsApproved
<1> QED
  BY <1>5, <1>6, <1>7 DEF Ledger!IInv

(* The release is an execution of TaskLedger: each step of its handlers,    *)
(* scan, workers and helpers is one of the transactions that TaskLedger     *)
(* takes as atomic, or changes nothing that the database or a claim shows.  *)
THEOREM ReleaseImplementsLedger == Spec => LedgerSpec
BY InitRefines, StepRefines, InductiveInvariant, PTL DEF Spec, LedgerSpec

=============================================================================
