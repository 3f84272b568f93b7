# Verification of qqbot

`src/` is a bot that turns messages of QQ groups into development tasks: a message creates a task, an
employee confirms it, Codex works on it in a git worktree, the result is checked and pushed, an
administrator approves the merge into a release candidate (RC) branch and then the deployment. Questions
are answered by read-only runs of Codex. The bot is one Go process with a SQLite database, a websocket to a
OneBot server and privileged helper processes.

This directory holds TLA+ models of that process, configurations that check them with TLC on small
instances, and proofs that TLAPS checks for every value of the constants. Line references such as
`tasksvc/scheduler.go:553` are relative to `src/internal/`.

## 1. The system

| Component | State it keeps | Operations | Hard behaviours |
|---|---|---|---|
| OneBot client (`onebot/client.go`) | active session, pending requests, bounded channel of events (64) | `Run` (connect, read, reconnect), `Send`, responses, `shutdown` | a full channel while workers wait for answers; replies on a dead session; cancellation at every wait |
| Application (`app/app.go`) | queue of messages (twice the number of workers), worker goroutines, contexts, fatal state, runtime lock | `Run`, `runLoops`, `messageWorker`, `handleMessage` (3 attempts), `CleanupExpired` | join order, closing the queue, shutdown time limit, coinciding reasons to stop |
| Task service (`tasksvc/service.go`, `approval.go`) | a lock per message and per task (in memory) | create, confirm, supplement, cancel, approve merge, approve deploy | a row read before a worker saved it; duplicate messages; cancelling a worker |
| Task scheduler (`tasksvc/scheduler.go`) | slots, git and release mutex per project, table of active workers, push leases | scan loop, execution worker, approval worker | everything: reads, saves, mutexes, leases and commands interleave; a task can be queued again while its former worker is still ending |
| Task store (`store/sqlite.go`, `schema.sql`) | tables tasks, approvals, approval_execution_locks, processed_messages, scheduler_leases, consultations | versioned saves and transactions, `ClaimApproval`, `CompleteApproval`, `RecoverInterrupted` | recovery by SQL beside the transition table; superseding approvals; locks left by a crash |
| Status machine (`model/task.go`) | – | `CanTransition` | the recovery must fit it |
| Authorisation (`auth/auth.go`) | – | `CanOperate`, `CanApprove` | approvals bound to a commit |
| Privileged operator (`ops/operator.go`, `client.go`) | its own clone of the repository, temporary refs, worktrees and bundle files, the shared branches | `Sync`, `PushTaskBundle`, `MergeRC`, `DeployRC` in a child process per call | the branch moves between fetch and push; a command fails half-way and leaves its temporaries; the helper is killed, or outlives the application |
| Worktree manager (`gitwork/manager.go`) | directory, registration and branch of a worktree | `Prepare`, `RunChecks`, `ValidateCommit`, `Remove` | a step fails and the roll back of the earlier ones fails too; processes that go on in the worktree |
| Codex runner (`codex/runner.go`) | a process group, the pipe of its events, the final message | `Execute`, `Resume`, `Plan`, `Ask` | scan, wait, cancellation and time limit race; a process that is left behind holds the pipe |
| Task log (`tasklog/log.go`) | one append-only file per task | `Append`, `Remove`, `Summary` | the limit and its marker at the boundary; torn writes whose roll back fails |
| Consultation service (`consultsvc/service.go`) | rows with a lease and a token | create, wait, reclaim, ask, complete, send | the lease runs out while its owner is at work; replays; restarts |
| Command parser, configuration, entry points, probe | – | – | – |
| Account switch (`scripts/qqcodex-local`) | account files, the service | stop, switch, start, rollback | a failure in the middle |

How they interact: the client's reader puts group messages into its channel of events; its handler goroutine
passes them on to the application's queue; message workers call the task service or the consultation
service, which commit transactions and send replies through the client. The scheduler finds the new
statuses by scanning the store, and its workers call git, Codex and the operator, and notify the group. The
service reaches into the scheduler in one place: cancelling a task cancels its active worker. A fatal error
anywhere stops everything; a runtime lock on the database keeps a second process out, and the next start
repairs what the last process left (`RecoverInterrupted`).

What makes the components correct, in the order of importance:

1. nothing is merged or deployed that an administrator did not approve for exactly that commit, never twice,
   and one project has one release operation at a time, across crashes;
2. the durable rows are always in a state from which the task can go on or be ended;
3. no interleaving of handlers, scan loop and workers loses an update, puts two workers into one worktree,
   or forgets a slot, a mutex or a lease;
4. a cancellation reaches the running worker, and through it the processes that work for it;
5. only complete runs count as success, and what is pushed is evidenced by the log, which keeps every record
   that was reported as written;
6. the remote branches move only to descendants of what was approved, and neither a failed preparation nor a
   failed call leaves something behind unnoticed;
7. a question gets one answer for ever;
8. messages are neither lost nor reordered on their way to a worker, and a stop ends cleanly.

## 2. The modules

```
TaskStatus            statuses, transition table, mapping of the recovery
  TaskLedger          durable transactions            <- TaskLedgerProofs
    ^ implemented by
  TaskExecution       handlers, scan loop, workers up to the pushed commit
                                                      <- TaskExecutionProofs
  TaskRelease         approvals, merge and deploy workers, helper processes
                                                      <- TaskReleaseProofs
TaskContext           the context of a worker, and the bound on failures
  TaskLog             append-only log of a task       <- TaskLogProofs
    CodexRun          runner against a process group
    Operator          helper calls, command by command
  Worktree            preparation, validation and removal
    all composed by
  TaskWork            the work on one task            <- TaskWorkProofs
Answer                what a consultation promises
    ^ implemented by
  Consultation        leases, reclaim, completion, replay <- ConsultationProofs
Intake                connection, queues, workers, life of the process <- IntakeProofs
ClientSession         one session of the client: calls, table, write loop, reader
                                                      <- ClientSessionProofs
MCTaskLedger, MCTaskExecution, MCTaskRelease, MCTaskWork   instances for TLC
```

Definitions whose name begins with `Bug` are not part of any specification. Each is a plausible mistake in
one definition (a dropped guard, a missing release, a swapped order); putting it in the place of the real
definition must violate the property it is paired with in `PROJECT.json`. They show that the properties
depend on the code they are about.

**TaskStatus** is `model.CanTransition` as a relation and the status mapping of `RecoverInterrupted`.

**TaskLedger** has the tables as state and one action per committed transaction: `CreateDraft`,
`FinishPlanning`, `Confirm`, `Supplement`, `Cancel`, `RecordCommand` (a command that changes nothing),
`RecordApproval`-based `ApproveMerge` and `ApproveDeploy`, the checkpoints of a worker, `ClaimApproval`,
`CallOperator`, the completions, `Crash` and `RecoverInterrupted`. `exec` abstracts the worktree and session
columns to what `persistedPrepared` distinguishes; `key` is the RC commit a deploy key was derived from. The
module is the abstract specification of the two below.

**TaskExecution** splits each transaction into the read and the versioned save the code makes, and
interleaves them with slots, the git mutex, `Scheduler.active`, push leases, Codex, checks and pushes. The
version column is replaced by the set `current` of those who hold an up-to-date copy of a row; a save by
anybody else is a conflict. A worker's `pc` names its next step. The scan loop lists the statuses one after
the other and takes the first `ScanLimit` rows of a list in the order of their creation (`Created`), which
is 256 in the code (`tasksvc/scheduler.go:169`).

A push lease is a row of a table that a worker acquires, renews every ten seconds and deletes at its end, and
each of the three can fail. `LoseLease` is a failed renewal: the worker's context ends, and the row, which
nobody renews any more, may run out while the worker is still busy (`ExpireLease`). `Stall` is a renewal that
comes later than the row lasts; a late one (`Renew`) extends the row again or finds it deleted. `ReleaseFails` is
a failed deletion, which the code only logs (`tasksvc/scheduler.go:776`): the row stays behind without a holder.
A lease that has run out can be taken (`store/sqlite.go:926`), and since all workers of a process own leases
under one name, a late release deletes the successor's row. `lapsed` remembers the tasks of which this has
begun; it is the exception that the properties name.

**TaskRelease** does the same for approvals: handler, scan loop, approval worker, and the helper process with
its separate fetch and push. An RC commit is the set of the commits it contains, so that "merged" is
membership. Another client of the repository (`ForeignPush`) may move the branch.

**TaskWork** looks into the steps that `TaskExecution` and `TaskRelease` take at once: the external commands
of the work on one task, from the synchronisation of the project over the worktree, Codex, the checks, the
push, the merge and the deployment to the clean-up of an expired task. Any command may fail or be killed
half-way, a cancellation and the death of the application come at any time, and processes that are left
behind go on. `phase` is the next command of the worker; the state of the parts is in their modules:

* **TaskLog** – a file is a sequence of pieces (whole record, torn record, marker) with the offset of the end
  of each, which is what `Append` computes with. `confirmed` remembers the places of the records whose
  append returned nil.
* **Worktree** – `tree` is what exists: directory, registration, branch. `Prepare` is the sequence of its
  commands with both roll backs. A commit is the set of the changes in its history, an ancestor a subset.
* **CodexRun** – the leader of the process group, a process it leaves behind inside or outside the group, the
  pipe between them and the runner, and the runner: scan, wait, stop, log, verdict. The time limit, the
  cancellation and `WaitDelay` may strike at any of its steps. `output` accounts for what the process writes: an
  output is logged whole, logged up to a limit with a note behind it (stderr, 1 MiB, `codex/runner.go:883`), or
  cut without a note (a final message whose drain runs out of time, `codex/runner.go:858`).
* **Operator** – one helper call: client with its bundle, helper with its fetches, ancestry checks,
  temporary worktree, merge and push, `landing` for a push or deployment whose process is under way, and the
  answer that the client reads and logs.

**Consultation** counts time in ticks. A handler creates the row or waits for it, reclaims an expired lease,
asks, completes under its token and sends. `Answer` is the promise: one answer, for ever, and nobody is told
another. `answer` maps to the stored reply.

**Intake** follows a message from the websocket to a worker and the reply back: reader, channel of events,
handler goroutine, queue, workers, session of a pending reply; and `runLoops`: the select for the first
reason to stop, the joins, the closed queue, the drain, the timeout.

**ClientSession** looks into a session, which `Intake` has as one value. A sender is a call of `Send`, a request one
of its segments with the channel (capacity one) in which it waits for the outcome; `pending` is the table from
echoes to these channels. Its entries are removed by four parties, each in one action under the lock: the call
itself (`Remove`), the reader and the write loop (`Complete`), and the shutdown. Who has removed one delivers the
outcome in a later action (`Deliver`, `Drain`), which waits if the channel is full. `loop` names the next step of
reader and writer; `shutdown` is shared by the two, and the second to call it waits for the first (`sync.Once`).
`wire` and `answers` record what was written and what the peer said.

`PROJECT.json` maps every definition to the lines it stands for.

## 3. What the runs check

| Run | Instance | What it shows |
|---|---|---|
| `LedgerLife` | one task from its creation and one that is already pushed, one project, 2 commands of an employee and 3 of an administrator, crash at any moment; 140 004 states | `TypeOK`; `ReleaseIsLocked`: locks belong to running releases, one per project, and approvals of a task do not compete; `RowsCanGoOn`: every row has what its status needs to go on; `StatusMachine`; `CallsAuthorised`: a call is approved, and the first for its approval; `RestartClean` |
| `ExecConcurrent` | two slots, one task, confirm, two supplements, cancel, two commits, one fault (a crash, or a failure of a lease at any of its steps); 397 944 states | `WorktreeExclusive`: no two workers in a worktree; `ResourcesHaveHolders`: the git mutex has its holder, and so has a lease that has not lapsed; `PushedIsRemote`: the announced commit is the pushed one, also with two pushers after a lost lease; `LedgerSpec`: every step is a transaction of `TaskLedger` |
| `ExecSerial` | one slot, two tasks, lists of one row, four commands, fair; 233 503 states | `OneSlotSuffices`: with one slot a cancellation reaches the worker and `checking` is always served; `TasksSettle`: queued tasks are served although the lists are cut, and executions settle |
| `ExecLostCancel`, `ExecStuck` | the smallest instances | disagreements, see section 6 |
| `ReleaseFaults` | two tasks, two merges, one deployment and one fault; or one task, two approvals of each kind, supplement, cancel and two faults; a foreign push in both; 260 358 states | `NoConflict`: saves never conflict in these stages; `MergedIsInRc`: merged commits stay in the RC branch; `DeployedWasApproved`, also after failed and repeated deployments and when the branch moves between the comparison and the deployment; `LedgerSpec` |
| `ReleaseFair` | two tasks, two merges, one deployment, no fault, fair; 75 569 states | `OneHelperPerProject`, `ReleaseEnds` |
| `ReleaseOrphan` | two tasks, two merges, one crash | disagreement, see section 6 |
| `ConsultDuplicates` | one question, three handlers, two attempts, one stall, one fault, fair; 129 340 states | `AnswersOnce`: refinement of `Answer`; `OneAsk`: one run at a time unless the process stalls; `QuestionsAnswered`: handlers do not wait for ever |
| `IntakeLife` | two workers, queues of capacity one, six messages, two sessions, two attempts, one fault, fair; 577 133 states | `NothingLost` before a stop; `StopIsSafe`: the queue is closed behind its producer and what was accepted was handled; `MessagesHandled`: no mutual wait; `StopsGracefully` without the timeout |
| `SessionLife` | two calls of up to two segments, two requests in all, a write queue of one, calls cancelled and connection lost at any moment, fair; 815 144 states | `NobodyBlocks`: who delivers an outcome finds room for it; `SendIsSound`: a call is told only what happened to its own request, success only for all segments, and a segment is written only behind the acknowledgement of the former; `SessionEnds`: when the context of the session is done, reader, writer and all calls end |
| `WorkLife` | one task with two changes, one check, an upstream and a foreign push, a log that is empty or nearly full, two events, two faults, fair; 1 991 178 states, depth 57 | `LogSound`: the log is within its limit, cut with one marker, and keeps what it confirmed; `SuccessIsComplete`: a run is successful only if leader, scan, session and log all were, and the log has its outputs, as far as the capture goes (section 5); `CancelKillsGroup`; `PreparedOrGone`: a preparation succeeds or removes what it made, or says that it could not; `PushIsEvidenced`; `RemoteMoves`: the remote branches only grow, a call moves one only after its temporaries are gone and to a commit that contains the one called for, and success is reported exactly when the helper confirmed it; `WorkEnds`: a run of Codex ends, and cancelled work ends, whatever the processes do |

**Why the bounds are enough.** The interesting competition is always between two: two workers of one task
(the old one ending, the new one starting), two tasks of one project, two approvals of one kind, an owner
and a reclaiming handler. The instances have two of what competes and, where a third party matters (a
consultation that is reclaimed, lost and waited for), three. Two faults allow a crash during what follows a
crash; `ExecConcurrent` has one, since every failure of a lease is one of them and the sequel of each, with two
workers and two supplements, is what the run is about (the theorems hold for any number). In `ExecConcurrent`
two commits distinguish the commit of the first run from the one after a
supplement. Messages are consumed, which bounds every loop. In `IntakeLife` six messages are what it takes
to fill everything (two workers, the queue, the handler, the channel, and one that does not fit). In
`SessionLife` the second segment is what a late answer to the first could be mistaken for, and with a queue of one
the second call waits for room. A request takes an echo for good, so that `Echo` bounds the requests: two are both
segments of one call, or one of each; a call that finds none stays where it is until the session fails. In
`WorkLife` two changes distinguish what the run committed from what was added later; of 16 bytes the marker
takes 3, so that a log of 12 is cut by the first record of 2 and an empty one after six; two faults let a
roll back fail after the failure it answers to. Tasks, messages, workers and commits of equal role are
symmetric where no liveness property is checked. Two slots are the value of the example configuration
(`configs/qqcodex.example.json`).

**Bounds by name**: `MaxFaults` (crashes, failures of leases, store failures, cancellations), `MaxStalls`,
`MaxMessages`, `MaxSessions`, `MaxEvents` (events of a run), `Checks`, `ScanLimit`, `MaxBytes`, `MarkerBytes`,
`EntryBytes`, `Earlier` (what earlier runs left in the log), `Parts`, `WriteQueue` (64 in the code); the sets
`Message`, `Commit`, `Change`, `Upstream`, `Foreign`, `Handler`, `Sender`, `Echo`.

**Deadlock** is checked in every run except `IntakeLife`, where the process really ends, `WorkLife`, where the
work on the task does, and `SessionLife`, where the session does. In the other models
a restart, a scan or a tick is always possible, so there the check adds little; the leads-to properties carry
the weight.

**Fairness.** The scan loop runs on a ticker, workers and handlers are goroutines whose external calls have
time limits, leases run out by the clock, and an operator (or the service manager) restarts the process:
these are weakly fair. Users, crashes, foreign pushes, the OneBot peer's messages and disconnections are
not. `Intake` assumes that a peer that keeps its connection answers what it is sent, since a reply has no
time limit of its own in the code; it does not assume that a connection can be made, and `StopsGracefully`
does not rely on the shutdown timer. That git, the checks and the helpers end is an assumption of
`TaskExecution` and `TaskRelease`: of these commands only Codex has a time limit of its own (a check
has none, `gitwork/manager.go:177`). `TaskWork` assumes it of no command and no process.
It is fair to the worker's own steps and to what a cancellation does to a command, namely to kill it; hence
`WorkEnds` promises the end of a run of Codex (by its time limit) and of cancelled work, and of nothing else.
For the helper this includes that the client may signal the wrapper it has started (section 6).
`ClientSession` is fair to each call, to the writer, and to the reader except for what it reads: the peer need not
answer. That reading a connection whose context is done fails in the end, even if frames still arrive, is strong
fairness of `ReadFails` while `ended`. After a shutdown for a full channel of events the reader still waits for room
for one message, or for the context of the client; that it gets it is `MessagesHandled` of `Intake`.

## 4. What is proved

All theorems hold for any number of tasks, messages, users, projects, workers, handlers and faults, and any
capacities; the three that need a further hypothesis (one slot, no fault yet) say so.
They follow one pattern: an inductive invariant `IInv`, a conjunction of named parts, holds initially, is
preserved by every action (one lemma per group of actions), and implies the property.

* **TaskLedgerProofs** – `Invariance`, and from it `TypeCorrect`, `ReleasesAreLocked` (of `LocksAreSound`,
  `ReleasesAreExclusive` and `ApprovalsDoNotCompete`), `NoSecondCall`, `NoRowIsStranded` (of `ReleasesCanEnd`,
  `QueuedTasksResume` and `RowsAreComplete`) and the
  action properties `StatusesFollowTheTable`, `CallsAreAuthorised`, `RestartsAreClean`. The invariant needs
  more than the properties: `ApprovalSound` (an approval comes from an administrator's processed message),
  `ClaimSound` (a worker that holds a claim holds the lock of the project), `CallSound` (a call uses up its
  approval) and `RowSound` (what each status requires of its row, which is what makes the statuses after a
  recovery resumable). Assumptions: `LedgerConstants`, in particular that keys of messages and tasks differ
  and that administrators are users.
* **ConsultationProofs** – `AnswersAreFinal`: `Consultation` implements `Answer`. It rests on `RowsSound`
  (a reply is stored exactly when the row is completed, and only it was sent) and `HandlersSound` (who is
  sending holds the stored reply), together with the fact that a completion needs a pending row. It uses
  neither the clock nor the length of leases: the answer is final even if every lease is lost.
  `AsksAreExclusive` is about the clock: as long as nothing has stalled, whoever asks owns the lease of a
  pending row, and the time left of it and the time its owner has spent make up `Lease` (`LeaseSound`), of
  which a run takes less (`AskTime < Lease`); so the lease cannot run out under its owner.
* **IntakeProofs** – `MessagesStayInOrder`, and `StopsAreSafe` of `QueueClosedBehindProducer` and
  `StopsAreClean`. `ResultsSound`
  orders the ends of handler, client and result; `JoinSound` says that a closed queue was joined for, which
  gives the second theorem; `QueueSound` says that as long as the workers are not cancelled, what was taken
  and what is queued make up what was accepted, which with the drained queue gives the third. The order of
  messages is an argument on concatenations.

* **TaskExecutionProofs** – `TypeCorrect`, `WorktreesAreExclusive`, `ResourcesAreHeld`, `BranchIsAnnounced` and
  the refinement `ExecutionImplementsLedger`, for any number of slots, crashes and failures of the leases. None of
  the properties is inductive: that two workers are not in one worktree depends on who may still save. The
  core of `IInv` is `WorkerSound`: a worker goes on from the row as it is (`Fits` says what row and branch are
  like at each step) and holds an up-to-date copy where it is going to save, or its task has ended and it
  holds none. `OneDriver`: one worker drives a task through its statuses; a second one can only be on its way out,
  fail under the push lease, or be adrift, that is, push under a lease that has lapsed. Of a worker adrift
  `FitsAdrift` says what it still knows of the row while its copy is current, and `PushSound` that whoever pushes
  a task that is recorded as pushed pushes the commit of its row; this keeps the branch and the row together
  although nothing keeps the two pushers apart. `HandlerSound` and `ScanSound` say that what a handler or the scan has read is
  still so if its copy is current; `RowSound`, `LeaseSound`, `MutexSound` and `DownSound` relate rows to
  branches, leases and mutexes to their holders, and a stopped process to nothing. The refinement goes over
  the same actions: a save is one transaction of `TaskLedger`, whatever else a step does is invisible to it.
  * `CancellationReachesWorkers` and `CheckingTasksAreServed` have the hypothesis `OneSlot` (a project has one
    slot), and the second also says `faults = 0`; `OneSlotIsEnough` has both: this is the instance of
    `ExecSerial`, and `ExecLostCancel` and `ExecStuck` show that two slots violate them. They need more of the
    state: the entry of the active table is the one worker of the task (`ActiveSound`), and without faults no
    lease is orphaned or left behind, and a worker is stopped, and its lease runs out, only after a cancellation
    (`CalmSound`, `PushingSound`).
* **TaskReleaseProofs** – `TypeCorrect`, `SavesNeverConflict`, `MergesArePermanent`, `DeploymentsAreApproved` and
  the refinement `ReleaseImplementsLedger`, with crashes at every step, helpers that outlive the application and
  others who push. `NoConflict` follows from `HandlerSound` and `WorkerSound`: in these stages nobody else moves a
  task out of the status in which a handler has admitted a command or a worker holds its claim, which needs
  `LockSound` (a lock belongs to an executing approval of a releasing task) and `MutexSound`. That a merged commit
  stays in the branch, and that only approved commits are deployed, rest on `RowSound`, `ApprovalSound`,
  `DeployedSound` and on `HelperSound`, which says what the answer of a helper implies about the branch, whoever
  reads it and however late.
  * `HelpersAreSerialised` states `OneHelperPerProject` as long as nothing has failed (`HelperOwned`: the worker of
    a helper waits for it), as the run `ReleaseFair` does; `ReleaseOrphan` shows that a crash breaks it.

* **TaskLogProofs** – `LogsAreSound`: a log on its own keeps its limit, its marker and its confirmed records.
  The lemmas on `Append` (one per outcome: record, marker, torn, nothing) are what `TaskWorkProofs` uses too.
* **TaskWorkProofs** – for any set of changes, number of checks, lengths of records and number of faults:
  * `LogOfWorkIsSound`: the log stays sound under all its writers. Only `Append`, `Remove`, and the death of
    the application in the middle of an append touch it.
  * `SuccessesAreComplete` and `CancelsKillTheGroup` rest on `CodexInv`: which results each step of the runner
    allows (`RunShape`, `Phases`), that a stopped group has no living member (`Stopped`), and the account
    `made = whole + noted + cut + Pending` (`Accounted`): an output that was produced is in the log, whole or
    with a note, or was cut off with its drain, or the runner still holds it, or the run has failed.
  * `PreparationsAreClean` rests on `TreeInv`: what the tree consists of at each step of a preparation
    relative to what it was before.
  * `RemoteMovesSafely` rests on `CallInv`: once the helper has a target it contains the commit of the call, and
    whatever may still land on a branch was sent after the temporaries were removed.
  * `PushesAreEvidenced` and `TypeCorrect` rest on `WorkInv`, which relates those invariants to the steps of the
    worker: `StepsInv` (what each step finds done by the earlier ones, with the number of records that the log
    has confirmed: one per logged output, with or without a note, and two per check), `CommitInv` (a commit is in the row only behind a
    complete run and all checks, and this evidence stays as long as the worktree does), `PushInv` (the helper is
    called only for the validated commit, and no change of the task is on its branch without it) and `OutputInv`
    (outputs are logged once). That a record is confirmed once is the fact about cardinalities that
    `LogInv` provides.

* **ClientSessionProofs** – `NobodyEverBlocks`, `SendIsAsPromised` (of `SendReportsTheTruth` and
  `SegmentsStayInOrder`), `TableStaysLive` and `TypeCorrect`, for any number of calls and segments and any
  capacity of the write queue. That a channel has room is not inductive: it depends on who holds the request.
  `OneOutcome` says that a request is in the table, or with one of those who deliver, or its outcome is in the
  channel, and never two of these; every removal from the table moves it from the first case to the second or
  ends it. `Causes` follows an outcome back from the call over the channel and the loops to the peer's answer,
  the cancellation or the end of the session; it needs `EchoesDiffer` (an echo belongs to one request), for
  otherwise an answer could complete another request. `Traces` says that segments not yet reached have no echo,
  and what has none is nowhere.

The assumptions are those on the constants, named in each module. Those of `TaskExecution` and `TaskRelease`
(`ExecutionConstants`, `ReleaseConstants`) say that placeholders like `NoTask` are not members of their sets, that
holders of copies are told apart, and what the functions on tasks, messages and slots range over.
`WorkConstants` adds that a change of the task is a commit that was not there before. `AskTime < Lease` is what
`leaseCleanupBuffer` provides. The number of faults is arbitrary.

What stays with TLC is liveness, since fairness and ENABLED are outside the prover's reach: `TasksSettle`,
`ReleaseEnds`, `QuestionsAnswered`, `MessagesHandled`, `StopsGracefully`, `SessionEnds` and `WorkEnds`. Every
invariant, action property and refinement that a passing run checks is also a theorem.

## 5. Abstractions and what is not modelled

* Versions are a set of up-to-date copies; time exists in `Consultation` only. Elsewhere a lease may run out
  when the code does not exclude it. The push lease is renewed while its owner's context lives, so that it
  runs out under a live context only by a fault (`Stall`).
* In `TaskExecution` errors of the store when a push lease is acquired, renewed or released are modelled; any
  other store error but a conflict is a crash, like a timed-out shutdown. A project that has disappeared from
  the configuration is left out.
* The lengths of outputs are abstracted to within or beyond the limit of their capture. Beyond 1 MiB the log gets
  the beginning of stderr, or of the output of a check, and a note; the run or the check is as good as before
  (`codex/runner.go:883`, `gitwork/manager.go:236`; `codex/runner_test.go:1384` asserts it for stderr). "Complete"
  in `SuccessIsComplete` and `PushIsEvidenced` means just this. A final message that is too large fails the run.
* The deploy script is external: `DeployedWasApproved` says which commit it is handed. What it does with it when
  the branch has moved on is its own affair.
* In `Consultation` a message is handled at most `Attempts` times (`app/app.go:447`); the mutant of `TypeOK` is a
  retry too many.
* In `TaskRelease` the git mutex, taken inside the release mutex, is merged into it. Execution up to the push
  is done when the module starts; a supplement leads out of it.
* In `TaskExecution` the task push, Codex and checks are steps that succeed, fail or are cancelled; `TaskWork`
  has their commands. In turn `TaskWork` has one task and one worker: continuing after `blocked`, and the
  recovery of a checking task with a stored commit, are in `TaskExecution`, where failures of the store are
  too; helpers that overlap are in `TaskRelease`. What Codex does after the application has been killed is not
  followed. Its clean-up takes any failed or cancelled task; the
  selection by age is left out.
* `Operator` leaves out the preflight, and the contents of the environment and of the repository guard: that
  a guard refuses is a command that fails. `CodexRun` has the runs that execute a task; the schema of a plan and
  the sandbox, snapshot and proxy of a consultation are left out, a consultation's run being a step of
  `Consultation`. `TaskLog` leaves out `Summary`, which only reads, and redaction.
* In `Consultation` a handler stands for its lease token; a run and the storing of its answer take at most
  `AskTime`, less than the lease, unless a tick is a stall. That is what `leaseCleanupBuffer`
  (`consultsvc/service.go:27`) is there for.
* In `Intake` the segments of a reply are one request, and the write loop and the table of echoes are part of
  the session; `ClientSession` has them. A message of a foreign group does not arrive, and what a message does
  to the store is left to the other modules. A loop of the client never fails by itself.
* In `ClientSession` an echo is never drawn again: it is 16 random bytes (`onebot/client.go:525`); drawing one
  that is pending is refused by the code and repeated, which changes nothing. The peer answers only what was
  written to it, possibly several times, with the same verdict. An answer that cannot be decoded is a refusal.
  The first look of `handleResponse` into the table is left out, since `complete` looks again under the lock.
  Events and a full channel of events are the business of `Intake`, the latter being one way in which
  `ReadFails`.
* Texts, parsing, formatting, redaction and audit rows are left out.
* **Not modelled**: the command parser (text without state), configuration (read once, its values are the
  constants), probe, the account switch script (section 7), and the reading of arguments and flags in the
  entry points.

## 6. Disagreements between the code and its documentation

* **`ExecLostCancel`**: `Scheduler.start` deletes the entry of its task from the active table when it ends,
  whoever the entry belongs to (`tasksvc/scheduler.go:553`). A blocked task that is supplemented and started
  again while its former worker is still notifying loses its entry; a later cancellation stores `cancelled`
  and Codex goes on. The comment at `tasksvc/scheduler.go:148` says "Cancel propagates cancellation to an
  active worker." With one slot per project it cannot happen (`ExecSerial`).
* **`ExecStuck`**: `withPushLease` gives up silently when the lease is held (`tasksvc/scheduler.go:726`). In
  the same situation the new worker ends and the task stays in `checking` without a commit, which the scan
  loop does not resume; `README.md:159` says that in `checking` the checks, the validation or the push are
  being performed.
* **`ReleaseOrphan`**: a helper survives the killed application (`ops/client.go:462`), and the restarted one
  may start another for the same project; `README.md:174` says that Git and RC changes of a project are
  serialised. The damage is limited: `MergedIsInRc` and the theorem `NoSecondCall` hold nevertheless.

Besides these, modelling brought up the following. No run is about them, either because no text of the
repository promises otherwise or because the text is a design document that the code has moved away from.

* A version conflict of a command is wrapped in `ErrFatalStore` (`tasksvc/service.go:421`) and stops the
  application, although nothing failed (action `Conflict` of `TaskExecution`). The comment at
  `tasksvc/service.go:38` speaks of persistence failures, which can be read either way.
* `Sync` fetches into the helper's own clone, while `Prepare` branches from the remote ref of the worker's
  clone. The design (`docs/superpowers/specs/2026-08-25-qq-codex-worker-design.md:162`) has one repository.
  If the base branch has moved, `PushTaskBundle` refuses a task that was prepared from the old one.
* A crash or a cancellation between `Prepare` and the checkpoint leaves a worktree that no row records, hence
  no clean-up removes. The clean-up never deletes the local branch; the design (line 307) speaks of
  worktree, branch and log. In the model this is why the branch stays in `tree`.
* A record that is appended behind a torn one shares its line, so that `Summary` cannot read it. `LogSound`
  is about the bytes of the file.
* A normal end of Codex does not kill the other members of its group, a killed application leaves Codex
  alive, and either may still commit between the checks and `ValidateCommit`. What is pushed is the commit
  that was validated (`PushIsEvidenced`), which need not be the one that was checked.
* Nothing fences a push. A worker whose push lease ran out, or was deleted by the late release of its
  predecessor under the common owner name, may push while another worker pushes the same task, or while a later
  run of the task is at work; if its push fails, it may mark that later run as failed, even a blocked one
  (`tasksvc/scheduler.go:710`, `860`). The rows remain those of `TaskLedger` and the announced commit is on the
  branch (`LedgerSpec`, `PushedIsRemote`). It takes a failing or stalled renewal or release.
* A process that Codex has left behind and that keeps descriptor 3 open makes the runner take what it has read
  within a second for the whole final message (`codex/runner.go:858`), without an error or a note. The run
  counts as successful, even if the part that is missing would have made it blocked.
* A killed helper leaves its temporaries, and the git command it had started may still push. `RemoteMoves`
  says what holds nevertheless.
* A wrapper that runs the helper as another user may refuse the signal of the client, which then waits for it.

## 7. Plan

Done: section 1, items 1 to 8, as the modules of section 2. What is left is the account switch script (stop,
snapshot, switch, start, roll back) with a failure at any step.
