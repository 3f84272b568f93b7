--------------------------- MODULE TaskExecution ---------------------------
(***************************************************************************)
(* How tasks are executed up to their pushed commit: the command handlers  *)
(* of the service, the scan loop of the scheduler and its workers, with    *)
(* everything they share - the rows, the slots and the git mutex of each   *)
(* project, the table of active workers, the push leases - interleaved at  *)
(* every read, write, lock and external call.                              *)
(*                                                                         *)
(* Handlers, scanner and workers read a row, think, and save it under the  *)
(* version they read.  The set current holds the processes whose copy of a *)
(* row still equals the row: a save by one of them succeeds, any other is  *)
(* a version conflict.  This implements TaskLedger, where every            *)
(* transaction is one atomic step (TaskExecutionProofs).                   *)
(***************************************************************************)
EXTENDS Naturals, FiniteSets, TaskStatus

CONSTANTS
  Task, NoTask, Message, NoMessage, Commit, NoCommit, Project, ProjectOf,
  User, Admin, Creator, Sender,
  CommandOf,           \* command of each message: confirm, supplement, cancel
  Worker, NoWorker,    \* one worker for each of the max_concurrent slots
  SlotOf,              \* project whose slot a worker occupies
  Created,             \* order of the creation of the tasks
  ScanLimit,           \* rows of one status that a scan lists
  MaxFaults            \* bound on crashes and failures of the leases

ASSUME ExecutionConstants ==
  /\ NoTask \notin Task /\ NoMessage \notin Message /\ NoCommit \notin Commit
  /\ Task \cap Message = {}
  /\ Worker \cap (Task \cup {"scan"} \X Task) = {}
  /\ Task \cap ({"scan"} \X Task) = {}
  /\ ProjectOf \in [Task -> Project]
  /\ Creator \in [Task -> User] /\ Sender \in [Message -> User]
  /\ CommandOf \in [Message -> {"confirm", "supplement", "cancel"}]
  /\ SlotOf \in [Worker -> Project] /\ NoWorker \notin Worker
  /\ Created \in [Task -> Nat] /\ ScanLimit \in Nat \ {0}
  /\ MaxFaults \in Nat

VARIABLES
  rows,       \* table tasks (release columns are not used here)
  processed,  \* table processed_messages
  lease,      \* table scheduler_leases; an orphan belongs to a dead process
  lapsed,     \* tasks whose lease a worker may have lost, or left behind
  remote,     \* commit of each task branch in the shared repository
  inbox,      \* messages that have not been delivered yet
  handlers,   \* the handler that holds the lock of each task
  scan,       \* the scan loop
  workers,
  active,     \* Scheduler.active: the worker whose context Cancel reaches
  gitMu,      \* holder of the git mutex of each project
  current,    \* holders of a copy of a row that is up to date
  up, faults

vars == <<rows, processed, lease, lapsed, remote, inbox, handlers, scan, workers,
          active, gitMu, current, up, faults>>

(***************************************************************************)
(* A worker's pc names what it does next.                                  *)
(***************************************************************************)
Preparing == {"start", "begin", "git", "prepare", "save_prepared"}
Executing == {"codex", "after", "save_blocked", "save_session", "to_checking",
              "checks"}
Pushing   == {"lease", "load_commit", "save_commit", "load_push", "push_wait",
              "push", "to_pushed", "load_pushed", "to_awaiting"}
Ending    == {"fail", "save_fail", "notify", "release", "exit"}

Idle == [pc |-> "idle", task |-> NoTask, live |-> FALSE, leased |-> FALSE,
         commit |-> NoCommit]
NoHandler == [pc |-> "idle", message |-> NoMessage]
ScanItem(t) == <<"scan", t>>

TypeOK ==
  /\ rows \in [Task -> [status : Status \cup {"absent"},
                        exec : {"none", "prepared", "session"},
                        commit : Commit \cup {NoCommit}]]
  /\ processed \subseteq Message \cup Task /\ inbox \subseteq Message
  /\ lease \in [Task -> {"free", "held", "expired", "orphan"}]
  /\ lapsed \subseteq Task
  /\ remote \in [Task -> Commit \cup {NoCommit}]
  /\ handlers \in [Task -> [pc : {"idle", "planning", "commit", "interrupt"},
                            message : Message \cup {NoMessage}]]
  /\ scan \in [phase : {"idle", "queued", "register", "checking", "pushed"},
               todo : SUBSET Task, task : Task \cup {NoTask},
               worker : Worker \cup {NoWorker}]
  /\ workers \in [Worker -> [pc : {"idle", "reserved"} \cup Preparing
                                    \cup Executing \cup Pushing \cup Ending,
                             task : Task \cup {NoTask}, live : BOOLEAN,
                             leased : BOOLEAN, commit : Commit \cup {NoCommit}]]
  /\ active \in [Task -> Worker \cup {NoWorker}]
  /\ gitMu \in [Project -> Worker \cup {NoWorker}]
  /\ current \subseteq Worker \cup Task \cup {ScanItem(t) : t \in Task}
  /\ up \in BOOLEAN /\ faults \in 0 .. MaxFaults

NoScan == [phase |-> "idle", todo |-> {}, task |-> NoTask, worker |-> NoWorker]

Init ==
  /\ rows = [t \in Task |-> [status |-> "absent", exec |-> "none",
                             commit |-> NoCommit]]
  /\ processed = {} /\ inbox = Message
  /\ lease = [t \in Task |-> "free"] /\ lapsed = {}
  /\ remote = [t \in Task |-> NoCommit]
  /\ handlers = [t \in Task |-> NoHandler]
  /\ scan = NoScan
  /\ workers = [w \in Worker |-> Idle]
  /\ active = [t \in Task |-> NoWorker]
  /\ gitMu = [p \in Project |-> NoWorker]
  /\ current = {}
  /\ up = TRUE /\ faults = 0

-----------------------------------------------------------------------------
(* Copies of rows. *)
Copies(t) == {w \in Worker : workers[w].task = t} \cup {t, ScanItem(t)}

(* Definitions named Bug... are mistakes to test the properties with (see   *)
(* TaskStatus); they are not part of the specification.                     *)
BugSaveOfStaleCopy(x, t, row) ==
  /\ rows' = [rows EXCEPT ![t] = row]
  /\ current' = (current \ Copies(t)) \cup {x}

(* A save by x that its copy allows makes every other copy stale. *)
Save(x, t, row) ==
  /\ x \in current
  /\ rows' = [rows EXCEPT ![t] = row]
  /\ current' = (current \ Copies(t)) \cup {x}

Moved(t, next) == [rows[t] EXCEPT !.status = next]

(* The workers that are to release the push lease of t. *)
Leased(t) == {w \in Worker : workers[w].leased /\ workers[w].task = t}

LeftBehind(t) == IF lease[t] = "held" THEN "orphan" ELSE lease[t]

(* The process ends: only the tables and the remote survive. *)
ProcessEnds ==
  /\ up' = FALSE
  /\ lapsed' = {}
  /\ handlers' = [t \in Task |-> NoHandler]
  /\ scan' = NoScan
  /\ workers' = [w \in Worker |-> Idle]
  /\ active' = [t \in Task |-> NoWorker]
  /\ gitMu' = [p \in Project |-> NoWorker]
  /\ current' = {}

-----------------------------------------------------------------------------
(* The command handlers.  A handler holds the lock of its task from before  *)
(* its first read until it has answered, so a task has one at a time.       *)
CanOperate(u, t) == u \in Admin \/ u = Creator[t]

Handle(t, pc, m) == handlers' = [handlers EXCEPT ![t] = [pc |-> pc, message |-> m]]

handlerFrame == <<lease, lapsed, remote, scan, active, gitMu, faults>>

(* The create command stores a draft and plans.  Delivered again after a    *)
(* restart it takes over the draft once its planning lease has passed; for  *)
(* a task that has left the draft it only records the message.              *)
Create(t) ==
  /\ up /\ handlers[t].pc = "idle" /\ t \notin processed
  /\ \/ /\ rows[t].status \in {"absent", "draft"}
        /\ rows' = [rows EXCEPT ![t] = Moved(t, "draft")]
        /\ current' = (current \ Copies(t)) \cup {t}
        /\ Handle(t, "planning", NoMessage)
        /\ UNCHANGED processed
     \/ /\ rows[t].status \notin {"absent", "draft"}
        /\ processed' = processed \cup {t}
        /\ UNCHANGED <<rows, current, handlers>>
  /\ UNCHANGED handlerFrame /\ UNCHANGED <<inbox, workers, up>>

Plan(t) ==
  /\ up /\ handlers[t].pc = "planning"
  /\ \E next \in {"awaiting_confirmation", "failed"} :
       CanTransition(rows[t].status, next) /\ Save(t, t, Moved(t, next))
  /\ processed' = processed \cup {t}
  /\ Handle(t, "idle", NoMessage)
  /\ UNCHANGED handlerFrame /\ UNCHANGED <<inbox, workers, up>>

BugSupplementWhileRunning(m, t) ==
  \/ /\ CommandOf[m] = "confirm"
     /\ rows[t].status = "awaiting_confirmation" /\ Sender[m] = Creator[t]
  \/ /\ CommandOf[m] = "supplement"
     /\ rows[t].status \in {"running", "blocked", "awaiting_merge_approval"}
  \/ CommandOf[m] = "cancel" /\ CanTransition(rows[t].status, "cancelled")

(* What a command requires of the row that its handler reads. *)
Admits(m, t) ==
  \/ /\ CommandOf[m] = "confirm"
     /\ rows[t].status = "awaiting_confirmation" /\ Sender[m] = Creator[t]
  \/ /\ CommandOf[m] = "supplement"
     /\ rows[t].status \in {"blocked", "awaiting_merge_approval"}
  \/ CommandOf[m] = "cancel" /\ CanTransition(rows[t].status, "cancelled")

(* A command that the row does not admit is rejected and changes nothing;   *)
(* only commands that pass are delivered here.                              *)
Read(t, m) ==
  /\ up /\ handlers[t].pc = "idle" /\ m \in inbox /\ m \notin processed
  /\ CanOperate(Sender[m], t) /\ Admits(m, t)
  /\ inbox' = inbox \ {m}
  /\ Handle(t, "commit", m)
  /\ current' = current \cup {t}
  /\ UNCHANGED handlerFrame /\ UNCHANGED <<rows, processed, workers, up>>

Result(m, t) ==
  CASE CommandOf[m] = "confirm"    -> Moved(t, "queued")
    [] CommandOf[m] = "supplement" -> [Moved(t, "queued") EXCEPT !.commit = NoCommit]
    [] CommandOf[m] = "cancel"     -> Moved(t, "cancelled")

BugChecksNotInterrupted(t) ==
  LET m == handlers[t].message IN
  /\ up /\ handlers[t].pc = "commit"
  /\ Save(t, t, Result(m, t))
  /\ processed' = processed \cup {m}
  /\ IF CommandOf[m] = "cancel" /\ rows[t].status = "running"
       THEN Handle(t, "interrupt", m) ELSE Handle(t, "idle", NoMessage)
  /\ UNCHANGED handlerFrame /\ UNCHANGED <<inbox, workers, up>>

CommitCommand(t) ==
  LET m == handlers[t].message IN
  /\ up /\ handlers[t].pc = "commit"
  /\ Save(t, t, Result(m, t))
  /\ processed' = processed \cup {m}
  /\ IF CommandOf[m] = "cancel" /\ rows[t].status \in {"running", "checking"}
       THEN Handle(t, "interrupt", m) ELSE Handle(t, "idle", NoMessage)
  /\ UNCHANGED handlerFrame /\ UNCHANGED <<inbox, workers, up>>

(* Scheduler.Cancel, called after the cancellation was stored. *)
Interrupt(t) ==
  /\ up /\ handlers[t].pc = "interrupt"
  /\ workers' = IF active[t] = NoWorker THEN workers
                ELSE [workers EXCEPT ![active[t]].live = FALSE]
  /\ Handle(t, "idle", NoMessage)
  /\ UNCHANGED handlerFrame /\ UNCHANGED <<rows, processed, inbox, current, up>>

(* A handler whose save conflicts reports a fatal store error, upon which   *)
(* the application cancels and joins its workers, who release their leases, *)
(* and stops.  (A shutdown that times out is a crash.)                      *)
Conflict(t) ==
  /\ up /\ handlers[t].pc \in {"planning", "commit"} /\ t \notin current
  /\ ProcessEnds
  /\ lease' = [u \in Task |-> IF Leased(u) # {} THEN "free" ELSE LeftBehind(u)]
  /\ UNCHANGED <<rows, processed, remote, inbox, faults>>

-----------------------------------------------------------------------------
(* The scan loop. *)
IdleWorker(w, t) == workers[w].pc = "idle" /\ SlotOf[w] = ProjectOf[t]
NoSlot(t) == \A w \in Worker : ~IdleWorker(w, t)

scanFrame == <<lapsed, processed, remote, inbox, handlers, gitMu, up, faults>>

(* A lease can be taken when there is none or when it has run out. *)
Available(t) == lease[t] \in {"free", "expired"}

Start(w, t, pc, leased) ==
  /\ workers' = [workers EXCEPT ![w] = [Idle EXCEPT !.pc = pc, !.task = t,
                                        !.live = TRUE, !.leased = leased]]
  /\ active' = [active EXCEPT ![t] = w]

Oldest(tasks) ==
  {t \in tasks : Cardinality({u \in tasks : Created[u] < Created[t]}) < ScanLimit}

BugLimitBeforeStatus(status) == {t \in Oldest(Task) : rows[t].status = status}

(* ListByStatus: the oldest tasks of a status, up to the limit of a scan. *)
ListByStatus(status) == Oldest({t \in Task : rows[t].status = status})

(* Each phase lists the tasks of one status and then serves them in turn;   *)
(* the list holds copies of the rows.                                       *)
List(phase, next, listed) ==
  /\ up /\ scan.phase = phase /\ scan.todo = {}
  /\ scan' = [NoScan EXCEPT !.phase = next, !.todo = listed]
  /\ current' = (current \ {ScanItem(t) : t \in Task})
                  \cup {ScanItem(t) : t \in listed}
  /\ UNCHANGED <<rows, lease, workers, active>> /\ UNCHANGED scanFrame

ListQueued == List("idle", "queued", ListByStatus("queued"))
ListChecking ==
  List("queued", "checking",
       {t \in ListByStatus("checking") : rows[t].commit # NoCommit})
ListPushed == List("checking", "pushed", ListByStatus("pushed"))
EndScan == List("pushed", "idle", {})

Skip(t) == scan' = [scan EXCEPT !.todo = @ \ {t}]

(* A queued task is claimed with a free slot; its worker is registered in a *)
(* second step.                                                             *)
Claim(t) ==
  /\ up /\ scan.phase = "queued" /\ t \in scan.todo
  /\ \/ \E w \in Worker :
          /\ IdleWorker(w, t)
          /\ Save(ScanItem(t), t, Moved(t, "running"))
          /\ workers' = [workers EXCEPT ![w].pc = "reserved"]
          /\ scan' = [phase |-> "register", todo |-> scan.todo \ {t},
                      task |-> t, worker |-> w]
     \/ /\ NoSlot(t) \/ ScanItem(t) \notin current
        /\ Skip(t)
        /\ UNCHANGED <<rows, current, workers>>
  /\ UNCHANGED <<lease, active>> /\ UNCHANGED scanFrame

StartWorker ==
  /\ up /\ scan.phase = "register"
  /\ Start(scan.worker, scan.task, "start", FALSE)
  /\ scan' = [scan EXCEPT !.phase = "queued", !.task = NoTask,
                          !.worker = NoWorker]
  /\ UNCHANGED <<rows, lease, current>> /\ UNCHANGED scanFrame

(* A task that is checking with a stored commit, or pushed, and that no     *)
(* worker is registered for, is resumed under a push lease.                 *)
Resume(t, phase, pc) ==
  /\ up /\ scan.phase = phase /\ t \in scan.todo
  /\ \/ \E w \in Worker :
          /\ active[t] = NoWorker /\ IdleWorker(w, t) /\ Available(t)
          /\ lease' = [lease EXCEPT ![t] = "held"]
          /\ Start(w, t, pc, TRUE)
     \/ /\ active[t] # NoWorker \/ NoSlot(t) \/ ~Available(t)
        /\ UNCHANGED <<lease, workers, active>>
  /\ Skip(t)
  /\ UNCHANGED <<rows, current>> /\ UNCHANGED scanFrame

Scan ==
  \/ ListQueued \/ ListChecking \/ ListPushed \/ EndScan
  \/ StartWorker
  \/ \E t \in Task : \/ Claim(t)
                     \/ Resume(t, "checking", "load_push")
                     \/ Resume(t, "pushed", "load_pushed")

-----------------------------------------------------------------------------
(* The workers. *)
T(w) == workers[w].task
StatusOf(w) == rows[T(w)].status
Live(w) == workers[w].live

At(w, pc) == up /\ workers[w].pc = pc
Go(w, pc) == workers' = [workers EXCEPT ![w].pc = pc]
Quit(w) == Go(w, IF workers[w].leased THEN "release" ELSE "exit")

workerFrame == <<processed, inbox, handlers, scan, up, faults>>

(* activeTask: a worker whose context was cancelled, or whose task has left *)
(* the expected status, stops; otherwise it has a fresh copy of the row.    *)
ActiveTask(w, status, next) ==
  IF Live(w) /\ StatusOf(w) = status
    THEN Go(w, next) /\ current' = current \cup {w}
    ELSE Quit(w) /\ UNCHANGED current

(* A step of a worker that touches nothing but its own progress. *)
Local == UNCHANGED <<rows, lease, remote, active, gitMu>>

(* checkpoint: a conflict fails the task unless the task was cancelled. *)
Checkpoint(w, row, next) ==
  IF Live(w) /\ w \in current
    THEN Save(w, T(w), row) /\ Go(w, next)
    ELSE /\ IF Live(w) /\ StatusOf(w) # "cancelled" THEN Go(w, "fail") ELSE Quit(w)
         /\ UNCHANGED <<rows, current>>

(* transition: a conflict ends the work. *)
Transition(w, row, next) ==
  IF Live(w) /\ w \in current
    THEN Save(w, T(w), row) /\ Go(w, next)
    ELSE Quit(w) /\ UNCHANGED <<rows, current>>

Saving == UNCHANGED <<lease, remote, active, gitMu>>

Begin(w) ==
  /\ At(w, "start")
  /\ ActiveTask(w, "running", "begin")
  /\ Local

(* After the first notification the task is loaded again: a task with a     *)
(* session is resumed, a half prepared one is refused.                      *)
LoadTask(w) ==
  /\ At(w, "begin")
  /\ ActiveTask(w, "running", CASE rows[T(w)].exec = "none" -> "git"
                                [] rows[T(w)].exec = "prepared" -> "fail"
                                [] rows[T(w)].exec = "session" -> "codex")
  /\ Local

(* The git mutex is taken, then the task is loaded once more. *)
LockGit(w, pc, status, next) ==
  /\ At(w, pc) /\ gitMu[SlotOf[w]] = NoWorker
  /\ IF Live(w) /\ StatusOf(w) = status
       THEN /\ gitMu' = [gitMu EXCEPT ![SlotOf[w]] = w]
            /\ workers' = [workers EXCEPT ![w].pc = next,
                                          ![w].commit = rows[T(w)].commit]
            /\ current' = current \cup {w}
       ELSE Quit(w) /\ UNCHANGED <<gitMu, current>>
  /\ UNCHANGED <<rows, lease, remote, active>>

UnlockGit(w) == gitMu' = [gitMu EXCEPT ![SlotOf[w]] = NoWorker]

Prepare(w) ==
  /\ At(w, "prepare")
  /\ UnlockGit(w)
  /\ Go(w, "save_prepared") \/ Go(w, "fail")
  /\ UNCHANGED <<rows, lease, remote, active, current>>

SavePrepared(w) ==
  /\ At(w, "save_prepared")
  /\ Checkpoint(w, [rows[T(w)] EXCEPT !.exec = "prepared"], "codex")
  /\ Saving

(* Codex runs until it ends or fails, or its context is cancelled. *)
RunCodex(w) ==
  /\ At(w, "codex")
  /\ Go(w, "after") \/ Go(w, "fail")
  /\ Local /\ UNCHANGED current

AfterCodex(w) ==
  /\ At(w, "after")
  /\ \E next \in {"save_blocked", "save_session"} :
       ActiveTask(w, "running", next)
  /\ Local

SaveBlocked(w) ==
  /\ At(w, "save_blocked")
  /\ Transition(w, [Moved(T(w), "blocked") EXCEPT !.exec = "session"], "notify")
  /\ Saving

SaveSession(w) ==
  /\ At(w, "save_session")
  /\ Checkpoint(w, [rows[T(w)] EXCEPT !.exec = "session"], "to_checking")
  /\ Saving

ToChecking(w) ==
  /\ At(w, "to_checking")
  /\ Transition(w, Moved(T(w), "checking"), "checks")
  /\ Saving

(* The configured checks, then the validation of the commit they were run   *)
(* on, which only reads the worktree.                                       *)
RunChecks(w) ==
  /\ At(w, "checks")
  /\ \/ Go(w, "fail")
     \/ ~(Live(w) /\ StatusOf(w) = "checking") /\ Quit(w)
     \/ /\ Live(w) /\ StatusOf(w) = "checking"
        /\ \E c \in Commit :
             workers' = [workers EXCEPT ![w].pc = "lease", ![w].commit = c]
  /\ Local /\ UNCHANGED current

BugLeaseTakenOver(w) ==
  /\ At(w, "lease")
  /\ IF Live(w)
       THEN /\ lease' = [lease EXCEPT ![T(w)] = "held"]
            /\ workers' = [workers EXCEPT ![w].pc = "load_commit",
                                          ![w].leased = TRUE]
       ELSE Quit(w) /\ UNCHANGED lease
  /\ UNCHANGED <<rows, remote, active, gitMu, current>>

(* A worker that does not get the push lease ends without a word. *)
AcquireLease(w) ==
  /\ At(w, "lease")
  /\ IF Live(w) /\ Available(T(w))
       THEN /\ lease' = [lease EXCEPT ![T(w)] = "held"]
            /\ workers' = [workers EXCEPT ![w].pc = "load_commit",
                                          ![w].leased = TRUE]
       ELSE Quit(w) /\ UNCHANGED lease
  /\ UNCHANGED <<rows, remote, active, gitMu, current>>

LoadCommit(w) ==
  /\ At(w, "load_commit")
  /\ ActiveTask(w, "checking", "save_commit")
  /\ Local

SaveCommit(w) ==
  /\ At(w, "save_commit")
  /\ Checkpoint(w, [rows[T(w)] EXCEPT !.commit = workers[w].commit], "load_push")
  /\ Saving

LoadPush(w) ==
  /\ At(w, "load_push")
  /\ ActiveTask(w, "checking",
                IF rows[T(w)].exec = "session" /\ rows[T(w)].commit # NoCommit
                  THEN "push_wait" ELSE "fail")
  /\ Local

BugPushErrorIgnored(w) ==
  /\ At(w, "push")
  /\ UnlockGit(w)
  /\ Go(w, "to_pushed")
  /\ \/ UNCHANGED remote
     \/ remote' = [remote EXCEPT ![T(w)] = workers[w].commit]
  /\ UNCHANGED <<rows, lease, active, current>>

(* The operator pushes the commit of the copy read under the mutex, and     *)
(* refuses when there is none.  It may report a failure although the branch *)
(* has been updated.                                                        *)
Push(w) ==
  /\ At(w, "push")
  /\ UnlockGit(w)
  /\ \/ Go(w, "fail") /\ UNCHANGED remote
     \/ /\ workers[w].commit # NoCommit
        /\ Go(w, "to_pushed") \/ Go(w, "fail")
        /\ remote' = [remote EXCEPT ![T(w)] = workers[w].commit]
  /\ UNCHANGED <<rows, lease, active, current>>

ToPushed(w) ==
  /\ At(w, "to_pushed")
  /\ Transition(w, Moved(T(w), "pushed"), "to_awaiting")
  /\ Saving

LoadPushed(w) ==
  /\ At(w, "load_pushed")
  /\ ActiveTask(w, "pushed", "to_awaiting")
  /\ Local

ToAwaiting(w) ==
  /\ At(w, "to_awaiting")
  /\ Transition(w, Moved(T(w), "awaiting_merge_approval"), "notify")
  /\ Saving

(* failTask loads the task again and saves its failure; a conflict is       *)
(* ignored.                                                                 *)
LoadFail(w) ==
  /\ At(w, "fail")
  /\ IF Live(w) /\ CanTransition(StatusOf(w), "failed")
       THEN Go(w, "save_fail") /\ current' = current \cup {w}
       ELSE Quit(w) /\ UNCHANGED current
  /\ Local

SaveFail(w) ==
  /\ At(w, "save_fail")
  /\ Transition(w, Moved(T(w), "failed"), "notify")
  /\ Saving

(* A notification takes time while the worker keeps its slot and its lease. *)
Notify(w) ==
  /\ At(w, "notify")
  /\ Quit(w)
  /\ Local /\ UNCHANGED current

(* All workers of a process own their leases under one name, so the release *)
(* deletes the lease of the task also when another worker has taken it.     *)
ReleaseLease(w) ==
  /\ At(w, "release")
  /\ lease' = [lease EXCEPT ![T(w)] = "free"]
  /\ lapsed' = IF Leased(T(w)) = {w} THEN lapsed \ {T(w)} ELSE lapsed
  /\ workers' = [workers EXCEPT ![w].pc = "exit", ![w].leased = FALSE]
  /\ UNCHANGED <<rows, remote, active, gitMu, current>>

(* The entry of the task is deleted whoever it belongs to by now. *)
Exit(w) ==
  /\ At(w, "exit")
  /\ active' = [active EXCEPT ![T(w)] = NoWorker]
  /\ workers' = [workers EXCEPT ![w] = Idle]
  /\ current' = current \ {w}
  /\ UNCHANGED <<rows, lease, remote, gitMu>>

Work(w) ==
  /\ \/ /\ \/ Begin(w) \/ LoadTask(w) \/ Prepare(w) \/ SavePrepared(w)
           \/ LockGit(w, "git", "running", "prepare")
           \/ RunCodex(w) \/ AfterCodex(w) \/ SaveBlocked(w) \/ SaveSession(w)
           \/ ToChecking(w) \/ RunChecks(w)
           \/ AcquireLease(w) \/ LoadCommit(w) \/ SaveCommit(w)
           \/ LoadPush(w) \/ LockGit(w, "push_wait", "checking", "push") \/ Push(w)
           \/ ToPushed(w) \/ LoadPushed(w) \/ ToAwaiting(w)
           \/ LoadFail(w) \/ SaveFail(w) \/ Notify(w) \/ Exit(w)
        /\ UNCHANGED lapsed
     \/ ReleaseLease(w)
  /\ UNCHANGED workerFrame

-----------------------------------------------------------------------------
(* Faults and the recovery from them. *)
Fault == up /\ faults < MaxFaults /\ faults' = faults + 1

Crash ==
  /\ Fault
  /\ ProcessEnds
  /\ lease' = [t \in Task |-> LeftBehind(t)]
  /\ UNCHANGED <<rows, processed, remote, inbox>>

leaseFrame == <<rows, processed, remote, inbox, handlers, active, gitMu, current,
                up>>

(* The store fails to answer when a lease is acquired: the worker ends, or  *)
(* the scan passes the task over.                                           *)
AcquireFails ==
  /\ Fault
  /\ \/ (\E w \in Worker : At(w, "lease") /\ Quit(w)) /\ UNCHANGED scan
     \/ /\ scan.phase \in {"checking", "pushed"}
        /\ (\E t \in scan.todo : Skip(t)) /\ UNCHANGED workers
  /\ UNCHANGED <<lease, lapsed>> /\ UNCHANGED leaseFrame

(* A release that fails is only logged: the lease stays, without an owner.  *)
ReleaseFails(w) ==
  /\ Fault
  /\ At(w, "release")
  /\ workers' = [workers EXCEPT ![w].pc = "exit", ![w].leased = FALSE]
  /\ lapsed' = lapsed \cup {T(w)}
  /\ UNCHANGED <<lease, scan>> /\ UNCHANGED leaseFrame

(* The lease of a live worker could not be renewed: its context ends, and   *)
(* nobody renews it any more while the worker finishes its step.            *)
LoseLease(w) ==
  /\ Fault
  /\ workers[w].leased /\ Live(w)
  /\ workers' = [workers EXCEPT ![w].live = FALSE]
  /\ UNCHANGED <<lease, lapsed, scan>> /\ UNCHANGED leaseFrame

(* A renewal that comes later than the lease lasts. *)
Stall(t) ==
  /\ Fault
  /\ lease[t] = "held" /\ \E w \in Leased(t) : Live(w)
  /\ lease' = [lease EXCEPT ![t] = "expired"]
  /\ lapsed' = lapsed \cup {t}
  /\ UNCHANGED <<workers, scan>> /\ UNCHANGED leaseFrame

(* The renewals in time change nothing.  A late one finds the lease as it   *)
(* left it and extends it, or finds it deleted by another worker: then the  *)
(* context of the worker ends.                                              *)
Renew(w) ==
  /\ workers[w].leased /\ Live(w)
  /\ \/ /\ lease[T(w)] = "expired"
        /\ lease' = [lease EXCEPT ![T(w)] = "held"]
        /\ UNCHANGED workers
     \/ /\ lease[T(w)] = "free"
        /\ workers' = [workers EXCEPT ![w].live = FALSE]
        /\ UNCHANGED lease
  /\ UNCHANGED <<lapsed, scan, faults>> /\ UNCHANGED leaseFrame

RecoverInterrupted ==
  /\ ~up /\ up' = TRUE
  /\ rows' = [t \in Task |-> [rows[t] EXCEPT !.status =
                Recovered(rows[t].status, rows[t].commit # NoCommit)]]
  /\ UNCHANGED <<processed, lease, lapsed, remote, inbox, handlers, scan, workers,
                 active, gitMu, current, faults>>

(* A lease expires when nobody renews it: its process is dead, its release  *)
(* has failed, or the context of its worker has ended.  A worker that is    *)
(* still busy with its last step has lost it then.                          *)
ExpireLease(t) ==
  /\ lease[t] \in {"held", "orphan"} /\ \A w \in Leased(t) : ~Live(w)
  /\ lease' = [lease EXCEPT ![t] = IF Leased(t) = {} THEN "free" ELSE "expired"]
  /\ lapsed' = IF Leased(t) = {} THEN lapsed \ {t} ELSE lapsed \cup {t}
  /\ UNCHANGED <<workers, scan, faults>> /\ UNCHANGED leaseFrame

-----------------------------------------------------------------------------
Answer(t) == Plan(t) \/ CommitCommand(t) \/ Interrupt(t) \/ Conflict(t)

Next ==
  \/ \E t \in Task : \/ Create(t) \/ Answer(t) \/ ExpireLease(t) \/ Stall(t)
                     \/ \E m \in Message : Read(t, m)
  \/ Scan
  \/ \E w \in Worker : Work(w) \/ LoseLease(w) \/ Renew(w) \/ ReleaseFails(w)
  \/ AcquireFails \/ Crash \/ RecoverInterrupted

Spec == Init /\ [][Next]_vars

(* The scan loop ticks, handlers and workers are goroutines, leases expire  *)
(* and the process is started again.  It is an assumption that commands     *)
(* end: the code limits the time of Codex, not that of git, of the checks   *)
(* or of the helper.  Users are not fair, and faults never have to happen.  *)
Fairness ==
  /\ WF_vars(Scan) /\ WF_vars(RecoverInterrupted)
  /\ \A t \in Task : WF_vars(Answer(t)) /\ WF_vars(ExpireLease(t))
  /\ \A w \in Worker : WF_vars(Work(w))

FairSpec == Spec /\ Fairness

-----------------------------------------------------------------------------
(* Correctness. *)

(* The interleaved reads and writes implement the atomic transactions of    *)
(* TaskLedger: versioned saves lose no update and use no stale row.         *)
NoApproval == [task |-> NoTask, kind |-> "merge", commit |-> NoCommit,
               result |-> "none", id |-> 0]

LedgerRow(row) == [status |-> row.status, exec |-> row.exec,
                   commit |-> row.commit, rc |-> NoCommit, key |-> NoCommit]

LedgerTasks == [t \in Task |-> LedgerRow(rows[t])]

Ledger == INSTANCE TaskLedger WITH
  tasks <- LedgerTasks,
  approvals <- [m \in Message |-> NoApproval],
  lastApproval <- 0,
  locks <- [p \in Project |-> NoMessage],
  claims <- [m \in Message |-> "none"],
  calls <- [m \in Message |-> 0]

LedgerSpec == Ledger!Spec

(* A push reads the branch of the worktree, which must not move meanwhile;  *)
(* a worker that may have lost its lease is not sure of that, and its push  *)
(* is refused when it has moved (ops.Client.createTaskBundle).              *)
InWorktree(w) ==
  \/ workers[w].pc \in {"prepare", "save_prepared", "codex", "checks", "lease"}
  \/ workers[w].pc = "push" /\ T(w) \notin lapsed

(* Two workers of one task never touch its worktree at the same time, also  *)
(* not when a task is queued again while its former worker still runs, nor  *)
(* when a push lease was lost: a worker without it harms no later run.      *)
WorktreeExclusive ==
  \A v, w \in Worker :
    T(v) = T(w) /\ InWorktree(v) /\ InWorktree(w) => v = w

(* A push lease is held by exactly one worker, so a task is never pushed or *)
(* moved on by two, and no way out of the push forgets it, through crashes, *)
(* cancellations and conflicts.  Excepted are the tasks of lapsed: those of *)
(* which a release failed, or a lease ran out under a worker, because a     *)
(* renewal failed or came too late or the worker was cancelled and took too *)
(* long to end.  That ends when a lease expires that no worker has.         *)
LeaseHasHolder ==
  \A t \in Task \ lapsed :
    Cardinality(Leased(t)) = IF lease[t] = "held" THEN 1 ELSE 0

(* No way out of the locked sections forgets the git mutex. *)
GitMutexReleased ==
  \A p \in Project :
    gitMu[p] # NoWorker <=>
      \E w \in Worker : SlotOf[w] = p /\ workers[w].pc \in {"prepare", "push"}

(* Nothing that a worker took stays taken behind it, and nothing is held    *)
(* by two, whichever way the worker leaves the step.                        *)
ResourcesHaveHolders == LeaseHasHolder /\ GitMutexReleased

(* The commit that the group is asked to approve is the one that the branch *)
(* holds, whatever was pushed before for the same task.                     *)
PushedIsRemote ==
  \A t \in Task :
    rows[t].status \in {"pushed", "awaiting_merge_approval"} =>
      rows[t].commit # NoCommit /\ remote[t] = rows[t].commit

(* Once a cancellation has been answered, no worker of the task is still    *)
(* running Codex, checks or git with a live context ("Cancel propagates     *)
(* cancellation to an active worker").                                      *)
CancelReachesWorker ==
  \A t \in Task : rows[t].status = "cancelled" /\ handlers[t].pc # "interrupt" =>
    \A w \in Worker :
      T(w) = t /\ workers[w].pc \in {"prepare", "codex", "checks", "push"}
        => ~Live(w)

(* A task that is checking is being checked, validated or pushed, or its    *)
(* stored commit lets the scan loop resume it.                              *)
CheckingIsServed ==
  \A t \in Task : up /\ rows[t].status = "checking" =>
    \/ rows[t].commit # NoCommit
    \/ \E w \in Worker : T(w) = t /\ workers[w].pc \in
         {"checks", "lease", "load_commit", "save_commit", "fail", "save_fail"}

(* With one slot per project both hold, the second until something fails:   *)
(* the worker that a cancellation or a checking task needs is there and can *)
(* be found.                                                                *)
OneSlotSuffices == CancelReachesWorker /\ (faults = 0 => CheckingIsServed)

(* A confirmed task does not wait for ever. *)
QueuedIsServed ==
  \A t \in Task : rows[t].status = "queued" ~> rows[t].status # "queued"

(* A task that was started ends in a status that waits for a user, or in a  *)
(* terminal one.                                                            *)
ExecutionSettles ==
  \A t \in Task :
    rows[t].status \in {"running", "checking", "pushed"} ~>
      rows[t].status \in {"blocked", "awaiting_merge_approval", "failed",
                          "cancelled"}

(* Every confirmed task is started and ends, however many wait before it:   *)
(* neither a slot, a mutex, a lease nor the limit of the scan starves it.   *)
TasksSettle == QueuedIsServed /\ ExecutionSettles

-----------------------------------------------------------------------------
(* The inductive invariant behind the safety properties above. *)

(* Rows that no command, scan or worker changes any more. *)
Ended(row) == row.status \in {"failed", "cancelled"}

(* A worker that is bound to its row has read it and goes on from what it   *)
(* has read; a resumed worker has not read anything yet.                    *)
Bound == (Preparing \cup Executing \cup Pushing \cup {"fail", "save_fail"})
           \ {"load_push", "load_pushed"}

(* The steps that save the copy of the worker, or lead to such a step.      *)
Saves == {"prepare", "push", "save_prepared", "save_blocked", "save_session",
          "to_checking", "save_commit", "to_pushed", "to_awaiting", "save_fail"}

(* A worker that pushes a stored commit under a lease that it may have      *)
(* lost.  There may be others beside it, and only the versions of the rows  *)
(* and the mutex of the project keep them apart.                            *)
Adrift(v) ==
  v.leased /\ v.task \in lapsed /\ v.pc \notin {"load_commit", "save_commit"}

Steady(v) == v.pc \in Bound /\ ~Adrift(v)

(* A worker that drives the task through its statuses; one that holds the   *)
(* push lease when it fails may be a second one.                            *)
Drives(v) == Steady(v) /\ ~(v.pc \in {"fail", "save_fail"} /\ v.leased)

(* What the record of a worker looks like. *)
WorkerShape(w, v) ==
  /\ v.pc \in {"idle", "reserved"} => v.task = NoTask /\ ~v.leased
  /\ v.pc \notin {"idle", "reserved"} => v.task \in Task /\ SlotOf[w] = ProjectOf[v.task]
  /\ v.pc \in (Pushing \ {"lease"}) \cup {"release"} => v.leased
  /\ v.pc \in Preparing \cup Executing \cup {"lease", "exit"} => ~v.leased
  /\ v.pc \in {"lease", "load_commit", "save_commit"} => v.commit \in Commit

(* What the row of its task, and the branch, are like at each step of a     *)
(* worker.                                                                  *)
Fits(v, row, branch) ==
  /\ v.pc \in {"start", "begin"} => row.status = "running"
  /\ v.pc \in {"git", "prepare", "save_prepared"} =>
       row.status = "running" /\ row.exec = "none"
  /\ v.pc \in {"codex", "after", "save_blocked", "save_session"} =>
       row.status = "running" /\ row.exec # "none"
  /\ v.pc = "to_checking" => row.status = "running" /\ row.exec = "session"
  /\ v.pc \in {"checks", "lease", "load_commit", "save_commit"} =>
       row.status = "checking" /\ row.commit = NoCommit
  /\ v.pc \in {"push_wait", "push", "to_pushed"} =>
       row.status = "checking" /\ row.commit # NoCommit
  /\ v.pc = "push" => v.commit = row.commit
  /\ v.pc = "to_pushed" => branch = row.commit
  /\ v.pc = "to_awaiting" => row.status = "pushed"
  /\ v.pc \in {"fail", "save_fail"} =>
       IF v.leased THEN row.status = "checking"
       ELSE row.status \in {"running", "checking"} /\ row.commit = NoCommit

Started(row) == row.status \notin {"absent", "draft", "awaiting_confirmation"}

(* What a worker that is adrift knows of the row while its copy is current. *)
FitsAdrift(v, row, branch) ==
  /\ v.pc = "push" => row.status = "checking" /\ v.commit = row.commit
  /\ v.pc = "to_pushed" =>
       row.status = "checking" /\ row.commit # NoCommit /\ branch = row.commit
  /\ v.pc = "to_awaiting" => row.status = "pushed"
  /\ v.pc = "save_fail" => CanTransition(row.status, "failed")

RowShape(row, branch) ==
  /\ row.status \in {"absent", "draft", "awaiting_confirmation", "queued",
                     "running", "blocked", "checking", "pushed",
                     "awaiting_merge_approval", "failed", "cancelled"}
  /\ row.status \in {"absent", "draft", "awaiting_confirmation", "queued",
                     "running", "blocked"} => row.commit = NoCommit
  /\ row.status = "absent" => row.exec = "none"
  /\ row.status = "checking" => row.exec = "session"
  /\ row.status \in {"pushed", "awaiting_merge_approval"} =>
       row.commit # NoCommit /\ branch = row.commit

RowSound == \A t \in Task : RowShape(rows[t], remote[t])

(* A steady worker goes on from the row as it is, and holds the current     *)
(* copy of it if it is going to save, unless the task has ended meanwhile.  *)
(* One that is adrift may have been overtaken.                              *)
WorkerSound ==
  \A w \in Worker :
    /\ WorkerShape(w, workers[w])
    /\ workers[w].pc \in {"idle", "reserved"} => w \notin current
    /\ Steady(workers[w]) =>
         \/ Ended(rows[T(w)]) /\ w \notin current
         \/ /\ Fits(workers[w], rows[T(w)], remote[T(w)])
            /\ workers[w].pc \in Saves => w \in current
    /\ Adrift(workers[w]) /\ workers[w].pc \in Bound =>
         /\ Started(rows[T(w)])
         /\ w \in current => FitsAdrift(workers[w], rows[T(w)], remote[T(w)])

(* A push that is under way when the task is recorded as pushed brings the  *)
(* commit of its row, whoever records it.                                   *)
PushSound ==
  \A v \in Worker :
    /\ workers[v].pc = "push"
    /\ \/ rows[T(v)].status \in {"pushed", "awaiting_merge_approval"}
       \/ \E w \in Worker : T(w) = T(v) /\ workers[w].pc = "to_pushed" /\ w \in current
    => workers[v].commit = rows[T(v)].commit

OneDriver ==
  \A v, w \in Worker :
    Drives(workers[v]) /\ Drives(workers[w]) /\ T(v) = T(w) => v = w

LeaseSound ==
  /\ \A w \in Worker :
       workers[w].leased /\ T(w) \notin lapsed => lease[T(w)] = "held"
  /\ \A t \in Task \ lapsed : lease[t] = "held" =>
       \E w \in Worker : workers[w].leased /\ T(w) = t
  /\ \A v, w \in Worker :
       /\ workers[v].leased /\ workers[w].leased
       /\ T(v) = T(w) /\ T(v) \notin lapsed
       => v = w

MutexSound ==
  /\ \A w \in Worker : workers[w].pc \in {"prepare", "push"} <=>
                         gitMu[SlotOf[w]] = w
  /\ \A p \in Project : gitMu[p] # NoWorker => SlotOf[gitMu[p]] = p

(* What a handler has read is still so if its copy is current. *)
HandlerSound ==
  \A t \in Task :
    /\ handlers[t].pc = "planning" =>
         t \notin processed /\ (t \in current => rows[t].status = "draft")
    /\ handlers[t].pc = "commit" =>
         LET m == handlers[t].message IN
         /\ m \in Message /\ m \notin processed \cup inbox
         /\ CanOperate(Sender[m], t)
         /\ t \in current => Admits(m, t)
         /\ \A u \in Task : handlers[u].pc = "commit" /\ handlers[u].message = m
                              => u = t
    /\ handlers[t].pc = "interrupt" => rows[t].status = "cancelled"

ScanSound ==
  /\ scan.phase \in {"queued", "register"} =>
       \A t \in scan.todo : ScanItem(t) \in current => rows[t].status = "queued"
  /\ scan.phase = "register" =>
       /\ scan.task \in Task /\ scan.worker \in Worker
       /\ workers[scan.worker].pc = "reserved"
       /\ SlotOf[scan.worker] = ProjectOf[scan.task]
       /\ rows[scan.task].status \in {"running", "failed", "cancelled"}
       /\ \A w \in Worker : ~(Drives(workers[w]) /\ T(w) = scan.task)

(* A process that is down holds nothing. *)
DownSound ==
  ~up => /\ current = {} /\ handlers = [t \in Task |-> NoHandler]
         /\ scan = NoScan /\ workers = [w \in Worker |-> Idle]

IInv ==
  /\ TypeOK /\ RowSound /\ WorkerSound /\ PushSound /\ OneDriver /\ LeaseSound
  /\ MutexSound /\ HandlerSound /\ ScanSound /\ DownSound

(* With one slot per project a task has one worker, which is the one that   *)
(* Cancel reaches, and which nobody else takes the lease from.              *)
OneSlot == \A v, w \in Worker : SlotOf[v] = SlotOf[w] => v = w

ActiveSound ==
  /\ \A w \in Worker : T(w) \in Task => active[T(w)] = w
  /\ \A t \in Task : active[t] # NoWorker => T(active[t]) = t

(* Without faults a worker stops only when its task was cancelled, and no   *)
(* lease is left behind.                                                    *)
CalmSound ==
  faults = 0 => /\ \A t \in Task :
                     /\ lease[t] # "orphan"
                     /\ lease[t] = "held" => Leased(t) # {}
                     /\ t \in lapsed => \E w \in Leased(t) : ~Live(w)
                /\ \A w \in Worker : T(w) \in Task /\ ~Live(w) =>
                     rows[T(w)].status = "cancelled"
                /\ CheckingIsServed

PushingSound ==
  \A w \in Worker :
    workers[w].pc = "push" => rows[T(w)].status \in {"checking", "cancelled"}

SerialSound == ActiveSound /\ CancelReachesWorker /\ CalmSound /\ PushingSound

=============================================================================
