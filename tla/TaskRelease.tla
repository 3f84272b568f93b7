---------------------------- MODULE TaskRelease ----------------------------
(***************************************************************************)
(* How approved tasks are merged into the RC branch of their project and   *)
(* deployed: the approval commands, the part of the scan loop that starts  *)
(* approval workers, the workers, and the privileged helper processes that *)
(* do the work on the shared repository.                                   *)
(*                                                                         *)
(* A helper is a process of its own: it reads the RC branch in one step    *)
(* and acts in a later one, and when the application is killed it goes on. *)
(* An RC commit is abstracted to the set of the commits that it contains.  *)
(***************************************************************************)
EXTENDS Naturals, FiniteSets, TaskStatus

CONSTANTS
  Task, NoTask, Message, NoMessage, Project, ProjectOf,
  User, Admin, Creator, Sender,
  CommandOf,      \* merge, deploy, supplement, cancel
  Base,           \* commit that the RC branches start from
  TaskCommit,     \* commit that each task has pushed
  Foreign,        \* commits that others push to the RC branches
  NoCommit,
  MaxFaults       \* bound on crashes and store failures

RcCommit == {{Base} \cup s : s \in SUBSET ({TaskCommit[t] : t \in Task} \cup Foreign)}
Commit == {TaskCommit[t] : t \in Task} \cup RcCommit

ASSUME ReleaseConstants ==
  /\ NoTask \notin Task /\ NoMessage \notin Message /\ NoCommit \notin Commit
  /\ Task \cap ({"scan", "worker"} \X Task) = {}
  /\ ProjectOf \in [Task -> Project]
  /\ CommandOf \in [Message -> {"merge", "deploy", "supplement", "cancel"}]
  /\ MaxFaults \in Nat

VARIABLES
  rows, approvals, lastApproval, locks, processed,   \* as in TaskLedger
  inbox,      \* messages that have not been delivered yet
  handlers,   \* the message whose handler has read each task
  scan,       \* the scan loop: its phase and the listed tasks
  workers,    \* the approval worker of each task
  releaseMu,  \* holder of the release mutex of each project
  current,    \* holders of a copy of a row that is up to date
  helpers,    \* the helper process started for each approval
  rcHead,     \* head of the RC branch of each project
  deployed,   \* history: pairs of task and RC commit that were deployed
  calls,      \* history: helpers started for each approval
  up, faults

vars == <<rows, approvals, lastApproval, locks, processed, inbox, handlers,
          scan, workers, releaseMu, current, helpers, rcHead, deployed, calls,
          up, faults>>

Idle == [pc |-> "idle", kind |-> "merge", approval |-> NoMessage,
         outcome |-> "none", head |-> NoCommit]
NoHelper == [pc |-> "none", outcome |-> "none", head |-> NoCommit]
ScanItem(t) == <<"scan", t>>

Outcome == {"none", "ok", "failed", "commit_changed", "merge_conflict"}

TypeOK ==
  /\ rows \in [Task -> [status : Status, commit : Commit \cup {NoCommit},
                        rc : RcCommit \cup {NoCommit},
                        key : RcCommit \cup {NoCommit}]]
  /\ DOMAIN approvals = Message /\ calls \in [Message -> Nat]
  /\ locks \in [Project -> Message \cup {NoMessage}]
  /\ processed \subseteq Message /\ inbox \subseteq Message
  /\ handlers \in [Task -> Message \cup {NoMessage}]
  /\ scan \in [phase : {"merging", "deploying", "merged"}, todo : SUBSET Task]
  /\ workers \in [Task ->
       [pc : {"idle", "wait", "load", "claim", "git", "call", "finish",
              "to_awaiting", "notify", "exit"},
        kind : {"merge", "deploy"}, approval : Message \cup {NoMessage},
        outcome : Outcome, head : RcCommit \cup {NoCommit}]]
  /\ releaseMu \in [Project -> Task \cup {NoTask}]
  /\ current \subseteq Task \cup {ScanItem(t) : t \in Task}
                 \cup {<<"worker", t>> : t \in Task}
  /\ helpers \in [Message -> [pc : {"none", "started", "ready", "done"},
                              outcome : Outcome,
                              head : RcCommit \cup {NoCommit}]]
  /\ rcHead \in [Project -> RcCommit]
  /\ deployed \subseteq Task \X RcCommit
  /\ faults \in 0 .. MaxFaults

NoApproval == [task |-> NoTask, kind |-> "merge", commit |-> NoCommit,
               result |-> "none", id |-> 0]

(* Every task has been pushed; some await their merge approval, the others  *)
(* were cancelled.  Any of the messages are still to come.                  *)
Init ==
  /\ rows \in [Task -> {[status |-> s, commit |-> c, rc |-> NoCommit,
                         key |-> NoCommit] :
                        s \in {"awaiting_merge_approval", "cancelled"},
                        c \in {TaskCommit[t] : t \in Task}}]
  /\ \A t \in Task : rows[t].commit = TaskCommit[t]
  /\ approvals = [m \in Message |-> NoApproval]
  /\ lastApproval = 0
  /\ locks = [p \in Project |-> NoMessage]
  /\ processed = {} /\ inbox \in SUBSET Message
  /\ handlers = [t \in Task |-> NoMessage]
  /\ scan = [phase |-> "merged", todo |-> {}]
  /\ workers = [t \in Task |-> Idle]
  /\ releaseMu = [p \in Project |-> NoTask]
  /\ current = {}
  /\ helpers = [m \in Message |-> NoHelper]
  /\ rcHead = [p \in Project |-> {Base}]
  /\ deployed = {}
  /\ calls = [m \in Message |-> 0]
  /\ up = TRUE /\ faults \in 0 .. MaxFaults

-----------------------------------------------------------------------------
W(t) == <<"worker", t>>
Copies(t) == {t, ScanItem(t), W(t)}

Save(x, t, row) ==
  /\ x \in current
  /\ rows' = [rows EXCEPT ![t] = row]
  /\ current' = (current \ Copies(t)) \cup {x}

Moved(t, next) == [rows[t] EXCEPT !.status = next]
ExecutingStatus(kind) == IF kind = "merge" THEN "merging" ELSE "deploying"
BoundCommit(kind, row) == IF kind = "merge" THEN row.commit ELSE row.rc

Fault == faults < MaxFaults /\ faults' = faults + 1
World == UNCHANGED <<helpers, rcHead, deployed, calls>>

-----------------------------------------------------------------------------
(* The command handlers, each under the lock of its task. *)
Admits(m, t) ==
  LET u == Sender[m]  s == rows[t].status IN
  \/ /\ CommandOf[m] = "merge" /\ u \in Admin
     /\ s = "awaiting_merge_approval" /\ rows[t].commit # NoCommit
  \/ /\ CommandOf[m] = "deploy" /\ u \in Admin
     /\ s \in {"awaiting_deploy_approval", "deploy_failed"}
     /\ rows[t].rc # NoCommit
  \/ /\ CommandOf[m] = "supplement" /\ (u \in Admin \/ u = Creator[t])
     /\ s \in {"blocked", "awaiting_merge_approval"}
  \/ /\ CommandOf[m] = "cancel" /\ (u \in Admin \/ u = Creator[t])
     /\ CanTransition(s, "cancelled")

Read(t, m) ==
  /\ up /\ handlers[t] = NoMessage /\ m \in inbox /\ m \notin processed
  /\ Admits(m, t)
  /\ inbox' = inbox \ {m}
  /\ handlers' = [handlers EXCEPT ![t] = m]
  /\ current' = current \cup {t}
  /\ World
  /\ UNCHANGED <<rows, approvals, lastApproval, locks, processed, scan, workers,
                 releaseMu, up, faults>>

(* Definitions named Bug... are mistakes to test the properties with (see   *)
(* TaskStatus); they are not part of the specification.                     *)
(* Approvals of the same task and kind that could still be claimed. *)
Replaced(t, kind, r) ==
  [m \in Message |-> IF /\ approvals[m].task = t /\ approvals[m].kind = kind
                        /\ approvals[m].result = "approved"
                       THEN [approvals[m] EXCEPT !.result = r] ELSE approvals[m]]

Approve(t, kind, m) ==
  /\ Save(t, t, IF kind = "merge" THEN Moved(t, "merging")
                ELSE [Moved(t, "deploying") EXCEPT !.key = rows[t].rc])
  /\ approvals' = [Replaced(t, kind, "superseded") EXCEPT ![m] =
                     [task |-> t, kind |-> kind, result |-> "approved",
                      commit |-> BoundCommit(kind, rows[t]),
                      id |-> lastApproval + 1]]
  /\ lastApproval' = lastApproval + 1

CommitCommand(t) ==
  LET m == handlers[t] IN
  /\ up /\ m # NoMessage
  /\ \/ CommandOf[m] \in {"merge", "deploy"} /\ Approve(t, CommandOf[m], m)
     \/ /\ CommandOf[m] = "supplement"
        /\ Save(t, t, [Moved(t, "queued") EXCEPT !.commit = NoCommit,
                                                 !.rc = NoCommit])
        /\ approvals' = Replaced(t, "merge", "superseded_by_new_commit")
        /\ UNCHANGED lastApproval
     \/ /\ CommandOf[m] = "cancel" /\ Save(t, t, Moved(t, "cancelled"))
        /\ UNCHANGED <<approvals, lastApproval>>
  /\ processed' = processed \cup {m}
  /\ handlers' = [handlers EXCEPT ![t] = NoMessage]
  /\ World
  /\ UNCHANGED <<locks, inbox, scan, workers, releaseMu, up, faults>>

-----------------------------------------------------------------------------
(* The scan loop lists the tasks of one status and serves them in turn: a   *)
(* task that is merging or deploying gets an approval worker unless a       *)
(* worker is registered for it, a merged one is moved on.                   *)
scanFrame == <<approvals, lastApproval, locks, processed, inbox, handlers,
               releaseMu, up>>

List(phase, next) ==
  /\ up /\ scan.phase = phase /\ scan.todo = {}
  /\ LET listed == {t \in Task : rows[t].status = next} IN
     /\ scan' = [phase |-> next, todo |-> listed]
     /\ current' = (current \ {ScanItem(t) : t \in Task})
                     \cup {ScanItem(t) : t \in listed}
  /\ UNCHANGED <<rows, workers, faults>>

Start(t, phase, kind) ==
  /\ up /\ scan.phase = phase /\ t \in scan.todo
  /\ scan' = [scan EXCEPT !.todo = @ \ {t}]
  /\ workers' = IF workers[t].pc # "idle" THEN workers
                ELSE [workers EXCEPT ![t] = [Idle EXCEPT !.pc = "wait",
                                                         !.kind = kind]]
  /\ UNCHANGED <<rows, current, faults>>

BugMoveOnBehindWorker(t) ==
  /\ up /\ scan.phase = "merged" /\ t \in scan.todo
  /\ scan' = [scan EXCEPT !.todo = @ \ {t}]
  /\ IF ScanItem(t) \in current
       THEN Save(ScanItem(t), t, Moved(t, "awaiting_deploy_approval"))
       ELSE UNCHANGED <<rows, current>>
  /\ UNCHANGED <<workers, faults>>

MoveOn(t) ==
  /\ up /\ scan.phase = "merged" /\ t \in scan.todo
  /\ scan' = [scan EXCEPT !.todo = @ \ {t}]
  /\ IF workers[t].pc = "idle" /\ ScanItem(t) \in current
       THEN Save(ScanItem(t), t, Moved(t, "awaiting_deploy_approval"))
       ELSE UNCHANGED <<rows, current>>
  /\ UNCHANGED <<workers, faults>>

Scan ==
  /\ \/ List("merged", "merging") \/ List("merging", "deploying")
     \/ List("deploying", "merged")
     \/ \E t \in Task : \/ Start(t, "merging", "merge")
                        \/ Start(t, "deploying", "deploy")
                        \/ MoveOn(t)
  /\ World /\ UNCHANGED scanFrame

-----------------------------------------------------------------------------
(* The approval worker of a task. *)
P(t) == ProjectOf[t]
At(t, pc) == up /\ workers[t].pc = pc
Go(t, pc) == workers' = [workers EXCEPT ![t].pc = pc]
Kind(t) == workers[t].kind
InStage(t) == rows[t].status = ExecutingStatus(Kind(t))

Tables == UNCHANGED <<rows, approvals, lastApproval, locks>>

LockRelease(t) ==
  /\ At(t, "wait") /\ releaseMu[P(t)] = NoTask
  /\ releaseMu' = [releaseMu EXCEPT ![P(t)] = t]
  /\ Go(t, "load")
  /\ Tables /\ World /\ UNCHANGED <<current, faults>>

Load(t) ==
  /\ At(t, "load")
  /\ IF InStage(t) THEN Go(t, "claim") /\ current' = current \cup {W(t)}
                   ELSE Go(t, "exit") /\ UNCHANGED current
  /\ Tables /\ World /\ UNCHANGED <<releaseMu, faults>>

BugClaimableWhileLocked(t, m) ==
  /\ approvals[m].task = t /\ approvals[m].kind = Kind(t)
  /\ approvals[m].result = "approved"
  /\ InStage(t) /\ approvals[m].commit = BoundCommit(Kind(t), rows[t])

(* ClaimApproval takes the newest approved approval and the lock of the     *)
(* project in one transaction, or finds nothing to do.                      *)
Claimable(t, m) ==
  /\ approvals[m].task = t /\ approvals[m].kind = Kind(t)
  /\ approvals[m].result = "approved"
  /\ \A n \in Message : /\ approvals[n].task = t /\ approvals[n].kind = Kind(t)
                        /\ approvals[n].result = "approved"
                        => approvals[n].id <= approvals[m].id
  /\ InStage(t) /\ approvals[m].commit = BoundCommit(Kind(t), rows[t])
  /\ locks[P(t)] = NoMessage

Claim(t) ==
  /\ At(t, "claim")
  /\ \/ \E m \in Message :
          /\ Claimable(t, m)
          /\ approvals' = [approvals EXCEPT ![m].result = "executing"]
          /\ locks' = [locks EXCEPT ![P(t)] = m]
          /\ workers' = [workers EXCEPT ![t].pc = "git", ![t].approval = m]
     \/ /\ \A m \in Message : ~Claimable(t, m)
        /\ Go(t, "exit") /\ UNCHANGED <<approvals, locks>>
  /\ World /\ UNCHANGED <<rows, lastApproval, releaseMu, current, faults>>

(* The task is loaded once more; the helper is called if the approval still *)
(* fits it and, for a deployment, if the stored deploy key does.            *)
Fits(t) ==
  LET m == workers[t].approval IN
  /\ BoundCommit(Kind(t), rows[t]) = approvals[m].commit
  /\ Kind(t) = "deploy" => rows[t].key = approvals[m].commit

Call(t) ==
  LET m == workers[t].approval IN
  /\ At(t, "git")
  /\ \/ /\ InStage(t) /\ Fits(t)
        /\ helpers' = [helpers EXCEPT ![m].pc = "started"]
        /\ calls' = [calls EXCEPT ![m] = @ + 1]
        /\ current' = current \cup {W(t)}
        /\ Go(t, "call")
     \/ /\ ~InStage(t) /\ Go(t, "exit")
        /\ UNCHANGED <<helpers, calls, current>>
     \/ /\ InStage(t) /\ ~Fits(t)
        /\ workers' = [workers EXCEPT ![t].pc = "finish", ![t].outcome =
             IF Kind(t) = "merge" THEN "commit_changed" ELSE "failed"]
        /\ current' = current \cup {W(t)}
        /\ UNCHANGED <<helpers, calls>>
  /\ Tables /\ UNCHANGED <<rcHead, deployed, releaseMu, faults>>

BugTimeoutLeavesHelper(t) ==
  /\ At(t, "call")
  /\ workers' = [workers EXCEPT ![t].pc = "finish", ![t].outcome = "failed"]
  /\ Tables /\ World /\ UNCHANGED <<releaseMu, current, faults>>

Answered(t) ==
  LET h == helpers[workers[t].approval] IN
  /\ At(t, "call") /\ h.pc = "done"
  /\ workers' = [workers EXCEPT ![t].pc = "finish", ![t].outcome = h.outcome,
                                ![t].head = h.head]
  /\ Tables /\ World /\ UNCHANGED <<releaseMu, current, faults>>

(* What the outcome of the call makes of the row and of the approval. *)
Row(t) ==
  LET o == workers[t].outcome  h == workers[t].head IN
  IF Kind(t) = "merge"
    THEN CASE o = "ok"     -> [Moved(t, "merged") EXCEPT !.rc = h, !.key = NoCommit]
           [] o = "failed" -> Moved(t, "failed")
           [] OTHER        -> Moved(t, "merge_conflict")
    ELSE CASE o = "ok"     -> Moved(t, "deployed")
           [] o = "commit_changed" ->
                [Moved(t, "awaiting_deploy_approval") EXCEPT !.rc = h,
                                                             !.key = NoCommit]
           [] OTHER        -> Moved(t, "deploy_failed")

BugFinishKeepsLock(t) ==
  LET m == workers[t].approval  o == workers[t].outcome IN
  /\ At(t, "finish")
  /\ approvals[m].result = "executing" /\ locks[P(t)] = m
  /\ CanTransition(rows[t].status, Row(t).status)
  /\ Save(W(t), t, Row(t))
  /\ approvals' = [approvals EXCEPT ![m].result = IF o = "ok" THEN "completed" ELSE o]
  /\ workers' = [workers EXCEPT ![t].approval = NoMessage, ![t].pc =
       IF Kind(t) = "merge" /\ o = "ok" THEN "to_awaiting" ELSE "notify"]
  /\ World /\ UNCHANGED <<locks, lastApproval, releaseMu, faults>>

Finish(t) ==
  LET m == workers[t].approval  o == workers[t].outcome IN
  /\ At(t, "finish")
  /\ approvals[m].result = "executing" /\ locks[P(t)] = m
  /\ CanTransition(rows[t].status, Row(t).status)
  /\ Save(W(t), t, Row(t))
  /\ approvals' = [approvals EXCEPT ![m].result = IF o = "ok" THEN "completed" ELSE o]
  /\ locks' = [locks EXCEPT ![P(t)] = NoMessage]
  /\ workers' = [workers EXCEPT ![t].approval = NoMessage, ![t].pc =
       IF Kind(t) = "merge" /\ o = "ok" THEN "to_awaiting" ELSE "notify"]
  /\ World /\ UNCHANGED <<lastApproval, releaseMu, faults>>

MoveMerged(t) ==
  /\ At(t, "to_awaiting")
  /\ Save(W(t), t, Moved(t, "awaiting_deploy_approval"))
  /\ Go(t, "notify")
  /\ World /\ UNCHANGED <<approvals, lastApproval, locks, releaseMu, faults>>

(* The store fails: the worker gives up, and what it had claimed stays      *)
(* claimed until the next start.                                            *)
StoreFails(t) ==
  /\ At(t, "finish") \/ At(t, "to_awaiting")
  /\ Fault
  /\ workers' = [workers EXCEPT ![t].pc = "exit", ![t].approval = NoMessage]
  /\ Tables /\ World /\ UNCHANGED <<releaseMu, current>>

Notify(t) ==
  /\ At(t, "notify") /\ Go(t, "exit")
  /\ Tables /\ World /\ UNCHANGED <<releaseMu, current, faults>>

Exit(t) ==
  /\ At(t, "exit")
  /\ releaseMu' = [releaseMu EXCEPT ![P(t)] = NoTask]
  /\ workers' = [workers EXCEPT ![t] = Idle]
  /\ current' = current \ {W(t)}
  /\ Tables /\ World /\ UNCHANGED faults

Work(t) ==
  /\ \/ LockRelease(t) \/ Load(t) \/ Claim(t) \/ Call(t) \/ Answered(t)
     \/ Finish(t) \/ MoveMerged(t) \/ Notify(t) \/ Exit(t)
  /\ UNCHANGED <<processed, inbox, handlers, scan, up>>

-----------------------------------------------------------------------------
(* The helper processes and the shared repository. *)
Ends(m, o, h) ==
  helpers' = [helpers EXCEPT ![m] = [pc |-> "done", outcome |-> o, head |-> h]]

Shared(m) == P(approvals[m].task)

(* MergeRC fetches both branches; someone may have moved the task's.        *)
FetchMerge(m) ==
  /\ approvals[m].kind = "merge" /\ helpers[m].pc = "started"
  /\ \/ helpers' = [helpers EXCEPT ![m].pc = "ready",
                                   ![m].head = rcHead[Shared(m)]]
     \/ \E o \in {"failed", "commit_changed"} : Ends(m, o, NoCommit)
  /\ UNCHANGED <<rcHead, deployed>>

BugMergeForced(m) ==
  LET p == Shared(m)  new == helpers[m].head \cup {approvals[m].commit} IN
  /\ approvals[m].kind = "merge" /\ helpers[m].pc = "ready"
  /\ \/ /\ \E o \in {"failed", "merge_conflict"} : Ends(m, o, NoCommit)
        /\ UNCHANGED rcHead
     \/ /\ rcHead' = [rcHead EXCEPT ![p] = new]
        /\ Ends(m, "ok", new) \/ Ends(m, "failed", NoCommit)
  /\ UNCHANGED deployed

(* It merges and checks in a worktree, and its push succeeds only if the RC *)
(* branch is still where it was fetched.  The answer can be lost.           *)
PushMerge(m) ==
  LET p == Shared(m)  new == helpers[m].head \cup {approvals[m].commit} IN
  /\ approvals[m].kind = "merge" /\ helpers[m].pc = "ready"
  /\ \/ /\ \E o \in {"failed", "merge_conflict"} : Ends(m, o, NoCommit)
        /\ UNCHANGED rcHead
     \/ /\ rcHead[p] = helpers[m].head
        /\ rcHead' = [rcHead EXCEPT ![p] = new]
        /\ Ends(m, "ok", new) \/ Ends(m, "failed", NoCommit)
  /\ UNCHANGED deployed

(* DeployRC refuses an RC branch that is not at the approved commit. *)
FetchDeploy(m) ==
  LET head == rcHead[Shared(m)] IN
  /\ approvals[m].kind = "deploy" /\ helpers[m].pc = "started"
  /\ \/ Ends(m, "failed", NoCommit)
     \/ head # approvals[m].commit /\ Ends(m, "commit_changed", head)
     \/ head = approvals[m].commit /\ helpers' = [helpers EXCEPT ![m].pc = "ready"]
  /\ UNCHANGED <<rcHead, deployed>>

BugDeployOfMovedHead(m) ==
  /\ approvals[m].kind = "deploy" /\ helpers[m].pc = "ready"
  /\ deployed' = deployed \cup {<<approvals[m].task, rcHead[Shared(m)]>>}
  /\ \E o \in {"ok", "failed"} : Ends(m, o, NoCommit)
  /\ UNCHANGED rcHead

(* The RC branch may have moved since the comparison: the script is given   *)
(* the compared commit, never the branch.  What it does with it is its own. *)
RunDeploy(m) ==
  /\ approvals[m].kind = "deploy" /\ helpers[m].pc = "ready"
  /\ deployed' = deployed \cup {<<approvals[m].task, approvals[m].commit>>}
  /\ \E o \in {"ok", "failed"} : Ends(m, o, NoCommit)
  /\ UNCHANGED rcHead

Help(m) ==
  /\ FetchMerge(m) \/ PushMerge(m) \/ FetchDeploy(m) \/ RunDeploy(m)
  /\ Tables
  /\ UNCHANGED <<processed, inbox, handlers, scan, workers, releaseMu, current,
                 calls, up, faults>>

ForeignPush(p) ==
  /\ \E c \in Foreign : /\ c \notin rcHead[p]
                        /\ rcHead' = [rcHead EXCEPT ![p] = @ \cup {c}]
  /\ Tables
  /\ UNCHANGED <<processed, inbox, handlers, scan, workers, releaseMu, current,
                 helpers, deployed, calls, up, faults>>

-----------------------------------------------------------------------------
(* A crash leaves the tables, the repository and the helpers. *)
Crash ==
  /\ up /\ Fault
  /\ up' = FALSE
  /\ handlers' = [t \in Task |-> NoMessage]
  /\ scan' = [phase |-> "merged", todo |-> {}]
  /\ workers' = [t \in Task |-> Idle]
  /\ releaseMu' = [p \in Project |-> NoTask]
  /\ current' = {}
  /\ Tables /\ World /\ UNCHANGED <<processed, inbox>>

RecoverInterrupted ==
  /\ ~up /\ up' = TRUE
  /\ rows' = [t \in Task |-> Moved(t, Recovered(rows[t].status,
                                                rows[t].commit # NoCommit))]
  /\ locks' = [p \in Project |->
       IF /\ locks[p] # NoMessage
          /\ rows'[approvals[locks[p]].task].status \notin {"merging", "deploying"}
         THEN NoMessage ELSE locks[p]]
  /\ World
  /\ UNCHANGED <<approvals, lastApproval, processed, inbox, handlers, scan,
                 workers, releaseMu, current, faults>>

Next ==
  \/ \E t \in Task : \/ CommitCommand(t) \/ \E m \in Message : Read(t, m)
                     \/ Work(t)
                     \/ /\ StoreFails(t)
                        /\ UNCHANGED <<processed, inbox, handlers, scan, up>>
  \/ Scan
  \/ \E m \in Message : Help(m)
  \/ \E p \in Project : ForeignPush(p)
  \/ Crash \/ RecoverInterrupted

Spec == Init /\ [][Next]_vars

(* Handlers, scan loop and workers keep going, and, by assumption, so do    *)
(* the helpers, whose time nothing limits; users, other pushers and faults  *)
(* need not act.                                                            *)
Fairness ==
  /\ WF_vars(Scan) /\ WF_vars(RecoverInterrupted)
  /\ \A t \in Task : WF_vars(CommitCommand(t)) /\ WF_vars(Work(t))
  /\ \A m \in Message : WF_vars(Help(m))

FairSpec == Spec /\ Fairness

-----------------------------------------------------------------------------
(* Correctness. *)

Claims(m) ==
  LET owners == {t \in Task : workers[t].approval = m} IN
  IF owners = {} THEN "none"
  ELSE IF calls[m] = 0 THEN "claimed" ELSE "called"

LedgerRow(row) == [status |-> row.status, exec |-> "session",
                   commit |-> row.commit, rc |-> row.rc, key |-> row.key]

LedgerTasks == [t \in Task |-> LedgerRow(rows[t])]
LedgerClaims == [m \in Message |-> Claims(m)]

Ledger == INSTANCE TaskLedger WITH tasks <- LedgerTasks, claims <- LedgerClaims

(* The release is an execution of TaskLedger, from a state its invariant    *)
(* allows: every step is one of its transactions or invisible to it, though *)
(* rows are read, approvals claimed and results stored in separate steps.   *)
LedgerSpec == Ledger!IInv /\ [][Ledger!Next]_(Ledger!vars)

(* In the stages of the release no save ever finds a newer row: an approval *)
(* is never refused, and never stops the application, over a conflict.      *)
NoConflict ==
  \A t \in Task :
    /\ handlers[t] # NoMessage => t \in current
    /\ workers[t].pc \in {"finish", "to_awaiting"} => W(t) \in current

(* A merged task is really in its RC commit, and the RC branch has kept it, *)
(* whoever pushed in between.                                               *)
MergedIsInRc ==
  \A t \in Task :
    rows[t].status \in {"merged", "awaiting_deploy_approval", "deploying",
                        "deployed", "deploy_failed"} =>
      /\ TaskCommit[t] \in rows[t].rc
      /\ rows[t].rc \subseteq rcHead[P(t)]

(* What is deployed for a task was approved for it by an administrator, and *)
(* contains it; a deployed task has been deployed at its recorded commit.   *)
DeployedWasApproved ==
  /\ \A d \in deployed : \E m \in Message :
       /\ approvals[m].task = d[1] /\ approvals[m].kind = "deploy"
       /\ approvals[m].commit = d[2] /\ Sender[m] \in Admin
       /\ TaskCommit[d[1]] \in d[2]
  /\ \A t \in Task : rows[t].status = "deployed" => <<t, rows[t].rc>> \in deployed

(* One project has one merge or deployment at a time (design document,      *)
(* section on the scheduler; README: Git and RC changes are serialised).    *)
OneHelperPerProject ==
  \A m, n \in Message :
    /\ helpers[m].pc \in {"started", "ready"}
    /\ helpers[n].pc \in {"started", "ready"}
    /\ Shared(m) = Shared(n)
    => m = n

(* An approved task does not stay in merging or deploying. *)
ReleaseEnds ==
  \A t \in Task : rows[t].status \in {"merging", "deploying"} ~>
                    rows[t].status \notin {"merging", "deploying"}

-----------------------------------------------------------------------------
(* The inductive invariant behind the safety properties above. *)

Typing ==
  /\ TypeOK
  /\ approvals \in [Message -> Ledger!Approval]
  /\ lastApproval \in Nat /\ up \in BOOLEAN

(* An RC commit that contains the task and that the branch has kept. *)
InRc(t, c) == c \in RcCommit /\ TaskCommit[t] \in c /\ c \subseteq rcHead[P(t)]

RowSound ==
  \A t \in Task :
    /\ rows[t].commit \in {TaskCommit[t], NoCommit}
    /\ rows[t].status \in {"pushed", "awaiting_merge_approval", "merging"}
         => rows[t].commit = TaskCommit[t]
    /\ rows[t].status \in {"merged", "awaiting_deploy_approval", "deploying",
                           "deployed", "deploy_failed"} => InRc(t, rows[t].rc)
    /\ rows[t].status = "deploying" => rows[t].key = rows[t].rc
    /\ rows[t].status = "deployed" => <<t, rows[t].rc>> \in deployed

ApprovalSound ==
  \A m \in Message : approvals[m].result # "none" =>
    LET a == approvals[m] IN
    /\ m \in processed /\ a.task \in Task /\ Sender[m] \in Admin
    /\ a.kind = "merge" => a.commit = TaskCommit[a.task]
    /\ a.kind = "deploy" => InRc(a.task, a.commit)

DeployedSound ==
  \A d \in deployed : \E m \in Message :
    /\ approvals[m].result # "none" /\ approvals[m].kind = "deploy"
    /\ approvals[m].task = d[1] /\ approvals[m].commit = d[2]

(* A process that is down holds nothing. *)
DownSound ==
  ~up => /\ current = {} /\ handlers = [t \in Task |-> NoMessage]
         /\ workers = [t \in Task |-> Idle]
         /\ releaseMu = [p \in Project |-> NoTask]

(* What a handler has read is still so when it commits: nothing else moves  *)
(* a task out of a status that its command is admitted in.                  *)
HandlerSound ==
  \A t \in Task : handlers[t] # NoMessage =>
    /\ t \in current /\ Admits(handlers[t], t)
    /\ handlers[t] \notin processed \cup inbox
    /\ \A u \in Task : handlers[u] = handlers[t] => u = t

ScanSound ==
  \A t \in scan.todo : ScanItem(t) \in current => rows[t].status = scan.phase

(* A worker between the mutex and its release is the holder; it has an      *)
(* approval exactly while that is claimed.                                  *)
MutexSound ==
  \A t \in Task :
    /\ workers[t].pc \notin {"idle", "wait"} => releaseMu[P(t)] = t
    /\ workers[t].approval # NoMessage <=>
         workers[t].pc \in {"git", "call", "finish"}

LockSound ==
  \A p \in Project : locks[p] # NoMessage =>
    LET a == approvals[locks[p]] IN
    /\ a.result = "executing" /\ a.task \in Task /\ P(a.task) = p
    /\ rows[a.task].status = ExecutingStatus(a.kind)
    /\ BoundCommit(a.kind, rows[a.task]) = a.commit

(* What a worker knows at the point where it is. *)
WorkerSound ==
  \A t \in Task :
    LET w == workers[t]  h == helpers[w.approval] IN
    /\ w.pc \in {"git", "call", "finish"} =>
         /\ locks[P(t)] = w.approval
         /\ approvals[w.approval].task = t /\ approvals[w.approval].kind = w.kind
         /\ approvals[w.approval].result = "executing"
    /\ w.pc = "git" => calls[w.approval] = 0
    /\ w.pc \in {"call", "finish"} => calls[w.approval] # 0 /\ W(t) \in current
    /\ w.pc = "finish" => /\ h.pc = "done"
                          /\ w.outcome = h.outcome /\ w.head = h.head
    /\ w.pc = "to_awaiting" => W(t) \in current /\ rows[t].status = "merged"

(* What the helper of an approval has done, and what its answer means. *)
HelperSound ==
  \A m \in Message :
    LET h == helpers[m]  a == approvals[m] IN
    /\ calls[m] # 0 => a.result \notin {"none", "approved"}
    /\ h.pc # "none" => calls[m] # 0
    /\ h.pc = "ready" /\ a.kind = "merge" => h.head \in RcCommit
    /\ h.pc = "done" =>
         /\ h.outcome \in IF a.kind = "merge"
              THEN {"ok", "failed", "commit_changed", "merge_conflict"}
              ELSE {"ok", "failed", "commit_changed"}
         /\ a.kind = "merge" /\ h.outcome = "ok" => InRc(a.task, h.head)
         /\ a.kind = "deploy" /\ h.outcome = "commit_changed" => InRc(a.task, h.head)
         /\ a.kind = "deploy" /\ h.outcome = "ok" => <<a.task, a.commit>> \in deployed

(* As long as nothing failed, the worker of a helper waits for it. *)
HelperOwned ==
  faults = 0 => \A m \in Message : helpers[m].pc \in {"started", "ready"} =>
    /\ approvals[m].task \in Task
    /\ workers[approvals[m].task].pc = "call"
    /\ workers[approvals[m].task].approval = m

IInv ==
  /\ Typing /\ RowSound /\ ApprovalSound /\ DeployedSound /\ DownSound
  /\ HandlerSound /\ ScanSound /\ MutexSound /\ LockSound /\ WorkerSound
  /\ HelperSound /\ HelperOwned

=============================================================================
