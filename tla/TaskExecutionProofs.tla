------------------------ MODULE TaskExecutionProofs ------------------------
(***************************************************************************)
(* Proofs about TaskExecution for any number of tasks, messages, users,    *)
(* projects, slots and faults.  The first part says what a step of a       *)
(* worker, a save and a command do; the second has one lemma for each      *)
(* conjunct of the inductive invariant IInv.  The theorems about the       *)
(* properties follow, and the last part shows that every step is a         *)
(* transaction of TaskLedger or invisible to it.                           *)
(***************************************************************************)
EXTENDS TaskExecution, FiniteSetTheorems, TLAPS

USE ExecutionConstants

Pc == {"idle", "reserved"} \cup Preparing \cup Executing \cup Pushing \cup Ending

WorkerType == [pc : Pc, task : Task \cup {NoTask}, live : BOOLEAN,
               leased : BOOLEAN, commit : Commit \cup {NoCommit}]

RowType == [status : Status \cup {"absent"}, exec : {"none", "prepared", "session"},
            commit : Commit \cup {NoCommit}]

Branch == Commit \cup {NoCommit}

-----------------------------------------------------------------------------
(* Records and copies. *)

LEMMA Types ==
  ASSUME TypeOK
  PROVE  /\ workers \in [Worker -> WorkerType] /\ rows \in [Task -> RowType]
         /\ remote \in [Task -> Branch]
BY DEF TypeOK, WorkerType, RowType, Branch, Pc

(* A worker whose step changes only where it is. *)
Same(v, n) == n.task = v.task /\ n.live = v.live

LEMMA Goes ==
  ASSUME TypeOK, NEW w \in Worker, NEW pc \in Pc, Go(w, pc)
  PROVE  \E n \in WorkerType :
           /\ workers' = [workers EXCEPT ![w] = n]
           /\ n.pc = pc /\ Same(workers[w], n)
           /\ n.leased = workers[w].leased /\ n.commit = workers[w].commit
<1>1. PICK v \in WorkerType : v = workers[w]
  BY Types
<1> DEFINE n == [v EXCEPT !.pc = pc]
<1>2. /\ n \in WorkerType /\ n.pc = pc /\ n.task = v.task
      /\ n.live = v.live /\ n.leased = v.leased /\ n.commit = v.commit
  BY DEF WorkerType
<1>3. workers' = [workers EXCEPT ![w] = n]
  BY <1>1 DEF Go
<1> HIDE DEF n
<1> QED
  BY <1>1, <1>2, <1>3 DEF Same

(* Processes of different kinds, and of different tasks, have different     *)
(* copies.                                                                  *)
LEMMA CopyOwners ==
  ASSUME TypeOK, NEW t \in Task
  PROVE  /\ \A w \in Worker : w \in Copies(t) <=> T(w) = t
         /\ \A u \in Task : u \in Copies(t) <=> u = t
         /\ \A u \in Task : ScanItem(u) \in Copies(t) <=> u = t
<1>1. \A u \in Task : ScanItem(u) \in {"scan"} \X Task
  BY DEF ScanItem
<1>2. \A u, x \in Task : ScanItem(u) = ScanItem(x) => u = x
  BY DEF ScanItem
<1> QED
  BY <1>1, <1>2 DEF Copies, T

(* When x saves its copy of t, only its own copy stays up to date. *)
LEMMA CopiesLeft ==
  ASSUME TypeOK, NEW t \in Task, NEW x \in Copies(t),
         current' = (current \ Copies(t)) \cup {x}
  PROVE  /\ \A w \in Worker : w \in current' => w = x \/ (w \in current /\ T(w) # t)
         /\ \A w \in Worker : w \in current /\ T(w) # t => w \in current'
         /\ \A u \in Task : u \in current' => u = x \/ (u \in current /\ u # t)
         /\ \A u \in Task : ScanItem(u) \in current' =>
              ScanItem(u) = x \/ (ScanItem(u) \in current /\ u # t)
         /\ x \in current'
BY CopyOwners

-----------------------------------------------------------------------------
(* What a step of a worker does, as far as the invariant is concerned: n is *)
(* its new record, row and b are the row and the branch of its task.        *)

Moves(w, n) ==
  /\ workers' = [workers EXCEPT ![w] = n]
  /\ n \in WorkerType /\ n.task = T(w) /\ n.live = Live(w)
  /\ n.pc \notin {"idle", "reserved"} /\ WorkerShape(w, n)

(* What a worker saves over the row r: its failure, or the next status of a *)
(* task that it drives, or of one that is checking with a stored commit or  *)
(* pushed.                                                                  *)
Advances(w, r, row) ==
  /\ r.status \in {"queued", "running", "blocked", "checking", "pushed"}
  /\ Started(row)
  /\ Ended(row)
     \/ /\ Drives(workers[w]) /\ r.status \in {"running", "checking", "pushed"}
        /\ workers[w].leased \/ r.status = "running"
     \/ /\ Adrift(workers[w])
        /\ r.status = "pushed" \/ (r.status = "checking" /\ r.commit # NoCommit)
  /\ row.status = "pushed" =>
       workers[w].pc = "to_pushed" /\ row.commit = r.commit
  /\ row.status = "awaiting_merge_approval" =>
       r.status = "pushed" /\ row.commit = r.commit

(* It leaves the row alone, or it saves its own copy.                       *)
Writes(w, row, b) ==
  /\ row \in RowType /\ b \in Branch /\ RowShape(row, b)
  /\ rows' = [rows EXCEPT ![T(w)] = row]
  /\ remote' = [remote EXCEPT ![T(w)] = b]
  /\ \/ /\ row = rows[T(w)] /\ current' \in {current, current \cup {w}}
        /\ b # remote[T(w)] =>
             workers[w].pc = "push" /\ b = workers[w].commit
     \/ /\ b = remote[T(w)]
        /\ w \in current /\ current' = (current \ Copies(T(w))) \cup {w}
        /\ Advances(w, rows[T(w)], row)

Binds(w, n, row, b) ==
  /\ Steady(n) =>
       \/ Ended(row) /\ w \notin current'
       \/ Fits(n, row, b) /\ (n.pc \in Saves => w \in current')
  /\ Adrift(n) /\ n.pc \in Bound =>
       Started(row) /\ (w \in current' => FitsAdrift(n, row, b))

Resumes(w) ==
  /\ workers[w].leased /\ T(w) \notin lapsed
  /\ \/ /\ workers[w].pc = "load_push" /\ rows[T(w)].status = "checking"
        /\ rows[T(w)].commit # NoCommit
     \/ workers[w].pc = "load_pushed" /\ rows[T(w)].status = "pushed"

Leases(w, n) ==
  \/ UNCHANGED <<lease, lapsed>> /\ n.leased = workers[w].leased
  \/ /\ Available(T(w)) /\ lease' = [lease EXCEPT ![T(w)] = "held"]
     /\ lapsed' = lapsed
     /\ ~workers[w].leased /\ n.leased
  \/ /\ lease' = [lease EXCEPT ![T(w)] = "free"]
     /\ lapsed' = IF Leased(T(w)) = {w} THEN lapsed \ {T(w)} ELSE lapsed
     /\ workers[w].leased /\ ~n.leased
  \/ /\ Fault /\ lease' = lease /\ lapsed' = lapsed \cup {T(w)}
     /\ workers[w].leased /\ ~n.leased

Locked(pc) == pc \in {"prepare", "push"}

Locks(w, n) ==
  \/ gitMu' = gitMu /\ ~Locked(workers[w].pc) /\ ~Locked(n.pc)
  \/ /\ gitMu[SlotOf[w]] = NoWorker /\ gitMu' = [gitMu EXCEPT ![SlotOf[w]] = w]
     /\ ~Locked(workers[w].pc) /\ Locked(n.pc)
  \/ /\ gitMu' = [gitMu EXCEPT ![SlotOf[w]] = NoWorker]
     /\ Locked(workers[w].pc) /\ ~Locked(n.pc)

WorkStep(w, n, row, b) ==
  /\ Moves(w, n) /\ Writes(w, row, b) /\ Binds(w, n, row, b)
  /\ Drives(n) => Drives(workers[w]) \/ Resumes(w)
  /\ Leases(w, n) /\ Locks(w, n)
  /\ n.pc \in {"prepare", "codex", "checks", "push"} => w \in current'
  /\ n.pc = "to_pushed" => workers[w].pc = "push"
  /\ up /\ active' = active

(* What is known of a worker that is at work. *)
LEMMA AtWork ==
  ASSUME IInv, NEW w \in Worker, workers[w].pc \notin {"idle", "reserved"}
  PROVE  /\ T(w) \in Task /\ workers[w] \in WorkerType
         /\ rows[T(w)] \in RowType /\ remote[T(w)] \in Branch
         /\ RowShape(rows[T(w)], remote[T(w)]) /\ WorkerShape(w, workers[w])
         /\ Steady(workers[w]) =>
              \/ Ended(rows[T(w)]) /\ w \notin current
              \/ /\ Fits(workers[w], rows[T(w)], remote[T(w)])
                 /\ workers[w].pc \in Saves => w \in current
         /\ Adrift(workers[w]) /\ workers[w].pc \in Bound =>
              /\ Started(rows[T(w)])
              /\ w \in current =>
                   FitsAdrift(workers[w], rows[T(w)], remote[T(w)])
         /\ rows = [rows EXCEPT ![T(w)] = rows[T(w)]]
         /\ remote = [remote EXCEPT ![T(w)] = remote[T(w)]]
<1>1. TypeOK /\ WorkerSound /\ RowSound
  BY DEF IInv
<1>2. WorkerShape(w, workers[w]) /\ T(w) \in Task
  BY <1>1 DEF WorkerSound, WorkerShape, T
<1>3. rows \in [Task -> RowType] /\ remote \in [Task -> Branch]
      /\ workers[w] \in WorkerType
  BY <1>1, Types
<1>4. /\ Steady(workers[w]) =>
           \/ Ended(rows[T(w)]) /\ w \notin current
           \/ /\ Fits(workers[w], rows[T(w)], remote[T(w)])
              /\ workers[w].pc \in Saves => w \in current
      /\ Adrift(workers[w]) /\ workers[w].pc \in Bound =>
           /\ Started(rows[T(w)])
           /\ w \in current =>
                FitsAdrift(workers[w], rows[T(w)], remote[T(w)])
  BY <1>1 DEF WorkerSound
<1> QED
  BY <1>1, <1>2, <1>3, <1>4 DEF RowSound

(* No worker is adrift before it has the push lease and has stored the      *)
(* commit.                                                                  *)
LEMMA SteadyAtWork ==
  ASSUME IInv, NEW w \in Worker,
         workers[w].pc \in Preparing \cup Executing
                             \cup {"lease", "load_commit", "save_commit"}
  PROVE  /\ Steady(workers[w]) /\ Drives(workers[w])
         /\ \/ Ended(rows[T(w)]) /\ w \notin current
            \/ /\ Fits(workers[w], rows[T(w)], remote[T(w)])
               /\ workers[w].pc \in Saves => w \in current
<1>1. workers[w].pc \notin {"idle", "reserved"}
  BY DEF Preparing, Executing
<1>2. WorkerShape(w, workers[w])
  BY <1>1, AtWork
<1>3. Steady(workers[w]) /\ Drives(workers[w])
  BY <1>2 DEF WorkerShape, Steady, Adrift, Drives, Bound, Preparing, Executing, Pushing
<1> QED
  BY <1>1, <1>3, AtWork

(* A worker that fits its row is well with it also when it is adrift.       *)
LEMMA FitsAnyway ==
  ASSUME NEW w \in Worker, NEW n, WorkerShape(w, n), n.pc \in Bound, n.leased,
         n.pc \notin {"load_commit", "save_commit"},
         NEW row, NEW b, Fits(n, row, b)
  PROVE  Started(row) /\ FitsAdrift(n, row, b)
<1>1. n.pc \in {"push_wait", "push", "to_pushed", "to_awaiting", "fail", "save_fail"}
  BY DEF WorkerShape, Bound, Preparing, Executing, Pushing
<1> QED
  BY <1>1 DEF Fits, FitsAdrift, Started, CanTransition

LEMMA FitsBinds ==
  ASSUME NEW w \in Worker, NEW n \in WorkerType, WorkerShape(w, n),
         NEW row \in RowType, NEW b,
         n.pc \in Bound =>
           \/ Ended(row) /\ w \notin current'
           \/ Fits(n, row, b) /\ (n.pc \in Saves => w \in current')
  PROVE  Binds(w, n, row, b)
<1>1. Steady(n) => n.pc \in Bound
  BY DEF Steady
<1>2. ASSUME n.pc \in Bound, Fits(n, row, b), Adrift(n)
      PROVE  Started(row) /\ FitsAdrift(n, row, b)
  BY <1>2, FitsAnyway DEF Adrift
<1>3. Ended(row) => Started(row)
  BY DEF Ended, Started
<1> QED
  BY <1>1, <1>2, <1>3 DEF Binds

(* A worker that gives up keeps nothing but its lease. *)
LEMMA QuitStep ==
  ASSUME IInv, NEW w \in Worker, up, Quit(w),
         workers[w].pc \notin {"idle", "reserved", "prepare", "push"},
         UNCHANGED <<rows, lease, lapsed, remote, active, gitMu, current>>
  PROVE  \E n \in WorkerType : WorkStep(w, n, rows[T(w)], remote[T(w)])
<1>1. TypeOK
  BY DEF IInv
<1> DEFINE pc == IF workers[w].leased THEN "release" ELSE "exit"
<1>2. PICK n \in WorkerType :
        /\ workers' = [workers EXCEPT ![w] = n]
        /\ n.pc = pc /\ Same(workers[w], n)
        /\ n.leased = workers[w].leased /\ n.commit = workers[w].commit
  <2>1. pc \in Pc /\ Go(w, pc)
    BY DEF Pc, Ending, Quit
  <2> HIDE DEF pc
  <2> QED
    BY <1>1, <2>1, Goes
<1>3. n.pc \in {"release", "exit"} /\ (n.pc = "release" <=> n.leased)
  BY <1>2 DEF WorkerType
<1>4. Moves(w, n)
  BY <1>2, <1>3, AtWork DEF Moves, WorkerShape, Same, T, Live, Pushing, Preparing, Executing
<1>5. Writes(w, rows[T(w)], remote[T(w)])
  BY AtWork DEF Writes
<1>6. n.pc \notin Bound
  BY <1>3 DEF Bound, Pushing, Preparing, Executing
<1>7. Leases(w, n) /\ Locks(w, n)
  BY <1>2, <1>3 DEF Leases, Locks, Locked
<1> QED
  BY <1>3, <1>4, <1>5, <1>6, <1>7 DEF WorkStep, Binds, Steady, Drives

(* A step that changes nothing but where the worker is, and perhaps what it *)
(* has read.                                                                *)
LEMMA MoveStep ==
  ASSUME IInv, NEW w \in Worker, up, NEW n \in WorkerType,
         workers' = [workers EXCEPT ![w] = n], Same(workers[w], n),
         n.leased = workers[w].leased,
         workers[w].pc \notin {"idle", "reserved", "prepare", "push"},
         n.pc \notin {"idle", "reserved", "prepare", "push", "to_pushed"},
         WorkerShape(w, n),
         current' = current \/ current' = current \cup {w},
         Binds(w, n, rows[T(w)], remote[T(w)]),
         Drives(n) => Drives(workers[w]) \/ Resumes(w),
         n.pc \in {"codex", "checks"} => w \in current',
         UNCHANGED <<rows, lease, lapsed, remote, active, gitMu>>
  PROVE  WorkStep(w, n, rows[T(w)], remote[T(w)])
<1>1. Moves(w, n)
  BY DEF Moves, Same, T, Live
<1>2. Writes(w, rows[T(w)], remote[T(w)])
  BY AtWork DEF Writes
<1>3. Leases(w, n) /\ Locks(w, n)
  BY DEF Leases, Locks, Locked
<1> QED
  BY <1>1, <1>2, <1>3 DEF WorkStep

(* A step that saves the copy of the worker. *)
LEMMA SaveStep ==
  ASSUME IInv, NEW w \in Worker, up, NEW n \in WorkerType, NEW row \in RowType,
         workers' = [workers EXCEPT ![w] = n], Same(workers[w], n),
         n.leased = workers[w].leased,
         workers[w].pc \notin {"idle", "reserved", "prepare", "push"},
         n.pc \notin {"idle", "reserved", "prepare", "push", "to_pushed"},
         WorkerShape(w, n), Save(w, T(w), row),
         RowShape(row, remote[T(w)]),
         n.pc \in Bound => Fits(n, row, remote[T(w)]),
         Drives(n) => Drives(workers[w]),
         Advances(w, rows[T(w)], row),
         UNCHANGED <<lease, lapsed, remote, active, gitMu>>
  PROVE  WorkStep(w, n, row, remote[T(w)])
<1>1. Moves(w, n)
  BY DEF Moves, Same, T, Live
<1>2. Writes(w, row, remote[T(w)])
  BY AtWork DEF Writes, Save
<1>3. Leases(w, n) /\ Locks(w, n)
  BY DEF Leases, Locks, Locked
<1>4. Binds(w, n, row, remote[T(w)])
  BY FitsBinds DEF Save
<1> QED
  BY <1>1, <1>2, <1>3, <1>4 DEF WorkStep, Save

(* The worker reads its row again and goes on, or gives up. *)
LEMMA ReadStep ==
  ASSUME IInv, NEW w \in Worker, up, NEW status, NEW next \in Pc,
         ActiveTask(w, status, next), Local, lapsed' = lapsed,
         workers[w].pc \notin {"idle", "reserved", "prepare", "push"},
         next \notin {"idle", "reserved", "prepare", "push", "to_pushed"},
         NEW v \in WorkerType, v = workers[w],
         StatusOf(w) = status =>
           \A n \in WorkerType :
             n.pc = next /\ n.task = v.task /\ n.leased = v.leased /\ n.commit = v.commit
             => /\ WorkerShape(w, n) /\ Fits(n, rows[T(w)], remote[T(w)])
                /\ Drives(n) => Drives(v) \/ Resumes(w)
  PROVE  \E n \in WorkerType : WorkStep(w, n, rows[T(w)], remote[T(w)])
<1>1. CASE Live(w) /\ StatusOf(w) = status
  <2>1. Go(w, next) /\ current' = current \cup {w} /\ TypeOK
    BY <1>1 DEF ActiveTask, IInv
  <2>2. PICK n \in WorkerType :
          /\ workers' = [workers EXCEPT ![w] = n] /\ n.pc = next /\ Same(v, n)
          /\ n.leased = v.leased /\ n.commit = v.commit
    BY <2>1, Goes
  <2>3. /\ WorkerShape(w, n) /\ Fits(n, rows[T(w)], remote[T(w)])
        /\ Drives(n) => Drives(v) \/ Resumes(w)
    BY <1>1, <2>2 DEF Same
  <2>4. Binds(w, n, rows[T(w)], remote[T(w)])
    BY <2>1, <2>3, AtWork, FitsBinds
  <2> QED
    BY <2>1, <2>2, <2>3, <2>4, MoveStep DEF Local
<1>2. CASE ~(Live(w) /\ StatusOf(w) = status)
  BY <1>2, QuitStep DEF ActiveTask, Local
<1> QED
  BY <1>1, <1>2

LEMMA BeginStep ==
  ASSUME IInv, NEW w \in Worker, Begin(w), lapsed' = lapsed
  PROVE  \E n \in WorkerType : WorkStep(w, n, rows[T(w)], remote[T(w)])
<1>1. up /\ workers[w].pc = "start" /\ ActiveTask(w, "running", "begin") /\ Local
  BY DEF Begin, At
<1>2. PICK v \in WorkerType : v = workers[w] /\ WorkerShape(w, v) /\ T(w) = v.task
  BY <1>1, AtWork DEF T
<1>3. "begin" \in Pc
  BY DEF Pc, Preparing
<1>4. ASSUME NEW n \in WorkerType, n.pc = "begin", n.task = v.task,
             n.leased = v.leased, StatusOf(w) = "running"
      PROVE  /\ WorkerShape(w, n) /\ Fits(n, rows[T(w)], remote[T(w)])
             /\ Drives(n) => Drives(v)
  BY <1>1, <1>2, <1>4, SteadyAtWork DEF WorkerShape, Fits, Preparing, Executing,
     Pushing, StatusOf
<1> QED
  BY <1>1, <1>2, <1>3, <1>4, ReadStep

LEMMA LoadTaskStep ==
  ASSUME IInv, NEW w \in Worker, LoadTask(w), lapsed' = lapsed
  PROVE  \E n \in WorkerType : WorkStep(w, n, rows[T(w)], remote[T(w)])
<1> DEFINE next == CASE rows[T(w)].exec = "none" -> "git"
                     [] rows[T(w)].exec = "prepared" -> "fail"
                     [] rows[T(w)].exec = "session" -> "codex"
<1>1. up /\ workers[w].pc = "begin" /\ ActiveTask(w, "running", next) /\ Local
  BY DEF LoadTask, At
<1>2. PICK v \in WorkerType : v = workers[w] /\ WorkerShape(w, v) /\ T(w) = v.task
  BY <1>1, AtWork DEF T
<1>3. \/ next = "git" /\ rows[T(w)].exec = "none"
      \/ next = "fail"
      \/ next = "codex" /\ rows[T(w)].exec # "none"
  BY <1>1, AtWork DEF RowType
<1>4. next \in Pc
  BY <1>3 DEF Pc, Preparing, Executing, Ending
<1>5. ASSUME NEW n \in WorkerType, n.pc = next, n.task = v.task,
             n.leased = v.leased, StatusOf(w) = "running"
      PROVE  /\ WorkerShape(w, n) /\ Fits(n, rows[T(w)], remote[T(w)])
             /\ Drives(n) => Drives(v)
  <2>1. rows[T(w)].commit = NoCommit
    BY <1>1, <1>5, AtWork DEF RowShape, StatusOf
  <2> HIDE DEF next
  <2> QED
    BY <1>1, <1>2, <1>3, <1>5, <2>1, SteadyAtWork DEF WorkerShape, Fits, Preparing,
       Executing, Pushing, StatusOf
<1> HIDE DEF next
<1> QED
  BY <1>1, <1>2, <1>3, <1>4, <1>5, ReadStep

LEMMA AfterCodexStep ==
  ASSUME IInv, NEW w \in Worker, AfterCodex(w), lapsed' = lapsed
  PROVE  \E n \in WorkerType : WorkStep(w, n, rows[T(w)], remote[T(w)])
<1>1. PICK next \in {"save_blocked", "save_session"} :
        up /\ workers[w].pc = "after" /\ ActiveTask(w, "running", next) /\ Local
  BY DEF AfterCodex, At
<1>2. PICK v \in WorkerType : v = workers[w] /\ WorkerShape(w, v) /\ T(w) = v.task
  BY <1>1, AtWork DEF T
<1>3. next \in Pc
  BY DEF Pc, Executing
<1>4. ASSUME NEW n \in WorkerType, n.pc = next, n.task = v.task,
             n.leased = v.leased, StatusOf(w) = "running"
      PROVE  /\ WorkerShape(w, n) /\ Fits(n, rows[T(w)], remote[T(w)])
             /\ Drives(n) => Drives(v)
  <2>1. rows[T(w)].exec # "none"
    BY <1>1, <1>4, SteadyAtWork DEF Fits, Executing, Ended, StatusOf
  <2> QED
    BY <1>1, <1>2, <1>4, <2>1, SteadyAtWork DEF WorkerShape, Fits, Preparing,
       Executing, Pushing, StatusOf
<1> QED
  BY <1>1, <1>2, <1>3, <1>4, ReadStep

LEMMA LoadCommitStep ==
  ASSUME IInv, NEW w \in Worker, LoadCommit(w), lapsed' = lapsed
  PROVE  \E n \in WorkerType : WorkStep(w, n, rows[T(w)], remote[T(w)])
<1>1. up /\ workers[w].pc = "load_commit" /\ ActiveTask(w, "checking", "save_commit") /\ Local
  BY DEF LoadCommit, At
<1>2. PICK v \in WorkerType : v = workers[w] /\ WorkerShape(w, v) /\ T(w) = v.task
  BY <1>1, AtWork DEF T
<1>3. "save_commit" \in Pc
  BY DEF Pc, Pushing
<1>4. ASSUME NEW n \in WorkerType, n.pc = "save_commit", n.task = v.task,
             n.leased = v.leased, n.commit = v.commit, StatusOf(w) = "checking"
      PROVE  /\ WorkerShape(w, n) /\ Fits(n, rows[T(w)], remote[T(w)])
             /\ Drives(n) => Drives(v)
  <2>1. rows[T(w)].commit = NoCommit
    BY <1>1, <1>4, SteadyAtWork DEF Fits, Ended, StatusOf
  <2> QED
    BY <1>1, <1>2, <1>4, <2>1, SteadyAtWork DEF WorkerShape, Fits, Preparing,
       Executing, Pushing, StatusOf
<1> QED
  BY <1>1, <1>2, <1>3, <1>4, ReadStep

LEMMA LoadPushStep ==
  ASSUME IInv, NEW w \in Worker, LoadPush(w), lapsed' = lapsed
  PROVE  \E n \in WorkerType : WorkStep(w, n, rows[T(w)], remote[T(w)])
<1> DEFINE next == IF rows[T(w)].exec = "session" /\ rows[T(w)].commit # NoCommit
                     THEN "push_wait" ELSE "fail"
<1>1. up /\ workers[w].pc = "load_push" /\ ActiveTask(w, "checking", next) /\ Local
  BY DEF LoadPush, At
<1>2. PICK v \in WorkerType : v = workers[w] /\ WorkerShape(w, v) /\ T(w) = v.task
  BY <1>1, AtWork DEF T
<1>3. \/ next = "push_wait" /\ rows[T(w)].commit # NoCommit
      \/ next = "fail"
  OBVIOUS
<1>4. next \in Pc
  BY <1>3 DEF Pc, Pushing, Ending
<1>5. ASSUME NEW n \in WorkerType, n.pc = next, n.task = v.task,
             n.leased = v.leased, StatusOf(w) = "checking"
      PROVE  /\ WorkerShape(w, n) /\ Fits(n, rows[T(w)], remote[T(w)])
             /\ Drives(n) => Resumes(w)
  <2> HIDE DEF next
  <2>1. v.leased
    BY <1>1, <1>2 DEF WorkerShape, Pushing
  <2> QED
    BY <1>1, <1>2, <1>3, <1>5, <2>1 DEF WorkerShape, Fits, Drives, Steady, Adrift, Bound,
       Preparing, Executing, Pushing, StatusOf, Resumes
<1> HIDE DEF next
<1> QED
  BY <1>1, <1>2, <1>3, <1>4, <1>5, ReadStep

LEMMA LoadPushedStep ==
  ASSUME IInv, NEW w \in Worker, LoadPushed(w), lapsed' = lapsed
  PROVE  \E n \in WorkerType : WorkStep(w, n, rows[T(w)], remote[T(w)])
<1>1. up /\ workers[w].pc = "load_pushed" /\ ActiveTask(w, "pushed", "to_awaiting") /\ Local
  BY DEF LoadPushed, At
<1>2. PICK v \in WorkerType : v = workers[w] /\ WorkerShape(w, v) /\ T(w) = v.task
  BY <1>1, AtWork DEF T
<1>3. "to_awaiting" \in Pc
  BY DEF Pc, Pushing
<1>4. ASSUME NEW n \in WorkerType, n.pc = "to_awaiting", n.task = v.task,
             n.leased = v.leased, StatusOf(w) = "pushed"
      PROVE  /\ WorkerShape(w, n) /\ Fits(n, rows[T(w)], remote[T(w)])
             /\ Drives(n) => Resumes(w)
  BY <1>1, <1>2, <1>4 DEF WorkerShape, Fits, Drives, Steady, Adrift, Bound, Preparing,
     Executing, Pushing, StatusOf, Resumes
<1> QED
  BY <1>1, <1>2, <1>3, <1>4, ReadStep

LEMMA LoadFailStep ==
  ASSUME IInv, NEW w \in Worker, LoadFail(w), lapsed' = lapsed
  PROVE  \E n \in WorkerType : WorkStep(w, n, rows[T(w)], remote[T(w)])
<1>1. up /\ workers[w].pc = "fail" /\ Local
  BY DEF LoadFail, At
<1>2. CASE Live(w) /\ CanTransition(StatusOf(w), "failed")
  <2>1. Go(w, "save_fail") /\ current' = current \cup {w}
    BY <1>2 DEF LoadFail
  <2>2. TypeOK /\ "save_fail" \in Pc
    BY DEF IInv, Pc, Ending
  <2>3. PICK n \in WorkerType :
          /\ workers' = [workers EXCEPT ![w] = n]
          /\ n.pc = "save_fail" /\ Same(workers[w], n)
          /\ n.leased = workers[w].leased /\ n.commit = workers[w].commit
    BY <2>1, <2>2, Goes
  <2>4. ~Ended(rows[T(w)])
    BY <1>2 DEF Ended, CanTransition, StatusOf
  <2>5. /\ Adrift(n) <=> Adrift(workers[w])
        /\ Steady(n) <=> Steady(workers[w])
        /\ Drives(n) => Drives(workers[w])
    BY <1>1, <2>3 DEF Adrift, Steady, Drives, Bound, Same
  <2>6. Steady(n) => Fits(n, rows[T(w)], remote[T(w)])
    BY <1>1, <2>3, <2>4, <2>5, AtWork DEF Fits
  <2>7. Adrift(n) => Started(rows[T(w)]) /\ FitsAdrift(n, rows[T(w)], remote[T(w)])
    BY <1>1, <1>2, <2>3, <2>5, AtWork DEF FitsAdrift, StatusOf, Bound
  <2>8. WorkerShape(w, n)
    BY <1>1, <2>3, AtWork DEF WorkerShape, Same, Preparing, Executing, Pushing
  <2>9. Binds(w, n, rows[T(w)], remote[T(w)])
    BY <2>1, <2>6, <2>7 DEF Binds
  <2> QED
    BY <1>1, <2>1, <2>3, <2>5, <2>8, <2>9, MoveStep DEF Local
<1>3. CASE ~(Live(w) /\ CanTransition(StatusOf(w), "failed"))
  BY <1>1, <1>3, QuitStep DEF LoadFail, Local
<1> QED
  BY <1>2, <1>3

(* Steps that only move on: Codex, the checks, the notification. *)
LEMMA RunStep ==
  ASSUME IInv, NEW w \in Worker, RunCodex(w) \/ RunChecks(w) \/ Notify(w),
         lapsed' = lapsed
  PROVE  \E n \in WorkerType : WorkStep(w, n, rows[T(w)], remote[T(w)])
<1>1. up /\ workers[w].pc \in {"codex", "checks", "notify"} /\ Local /\ UNCHANGED current
  BY DEF RunCodex, RunChecks, Notify, At
<1>2. TypeOK /\ {"after", "fail"} \subseteq Pc
  BY DEF IInv, Pc, Executing, Ending
<1>3. PICK v \in WorkerType : v = workers[w] /\ WorkerShape(w, v) /\ T(w) = v.task
  BY <1>1, AtWork DEF T
<1>4. ASSUME NEW pc \in {"after", "fail"}, Go(w, pc),
             v.pc \in {"codex", "checks"}, pc = "after" => v.pc = "codex"
      PROVE  \E n \in WorkerType : WorkStep(w, n, rows[T(w)], remote[T(w)])
  <2>1. PICK n \in WorkerType :
          /\ workers' = [workers EXCEPT ![w] = n] /\ n.pc = pc /\ Same(v, n)
          /\ n.leased = v.leased /\ n.commit = v.commit
    BY <1>2, <1>3, <1>4, Goes
  <2>2. ~v.leased
    BY <1>3, <1>4 DEF WorkerShape, Executing
  <2>3. WorkerShape(w, n) /\ Drives(v)
    BY <1>3, <1>4, <2>1, <2>2, SteadyAtWork DEF WorkerShape, Same, Preparing, Executing,
       Pushing
  <2>4. Fits(v, rows[T(w)], remote[T(w)]) => Fits(n, rows[T(w)], remote[T(w)])
    <3>1. rows[T(w)].status = "running" => rows[T(w)].commit = NoCommit
      BY <1>1, AtWork DEF RowShape
    <3> QED
      BY <1>4, <2>1, <2>2, <3>1 DEF Fits
  <2>5. Binds(w, n, rows[T(w)], remote[T(w)])
    <3>1. v.pc \in Executing /\ n.pc \notin Saves /\ rows[T(w)] \in RowType
      BY <1>1, <1>4, <2>1, AtWork DEF Executing, Saves
    <3> QED
      BY <1>1, <1>3, <2>3, <2>4, <3>1, SteadyAtWork, FitsBinds
  <2> QED
    BY <1>1, <1>3, <1>4, <2>1, <2>3, <2>5, MoveStep DEF Local
<1>5. ASSUME NEW c \in Commit, v.pc = "checks",
             workers' = [workers EXCEPT ![w].pc = "lease", ![w].commit = c]
      PROVE  \E n \in WorkerType : WorkStep(w, n, rows[T(w)], remote[T(w)])
  <2> DEFINE n == [v EXCEPT !.pc = "lease", !.commit = c]
  <2>1. /\ n \in WorkerType /\ n.pc = "lease" /\ Same(v, n)
        /\ n.leased = v.leased /\ n.commit = c
    BY DEF WorkerType, Pc, Pushing, Same
  <2>2. workers' = [workers EXCEPT ![w] = n]
    BY <1>3, <1>5
  <2> HIDE DEF n
  <2>3. WorkerShape(w, n) /\ Drives(v)
    BY <1>3, <1>5, <2>1, SteadyAtWork DEF WorkerShape, Same, Preparing, Executing, Pushing
  <2>4. Fits(v, rows[T(w)], remote[T(w)]) => Fits(n, rows[T(w)], remote[T(w)])
    BY <1>5, <2>1 DEF Fits
  <2>5. Binds(w, n, rows[T(w)], remote[T(w)])
    <3>1. v.pc \in Executing /\ n.pc \notin Saves /\ rows[T(w)] \in RowType
      BY <1>1, <1>5, <2>1, AtWork DEF Executing, Saves
    <3>2. \/ Ended(rows[T(w)]) /\ w \notin current
          \/ Fits(n, rows[T(w)], remote[T(w)])
      BY <1>3, <2>4, <3>1, SteadyAtWork
    <3> QED
      BY <1>1, <2>1, <2>3, <3>1, <3>2, FitsBinds
  <2> QED
    BY <1>1, <1>3, <1>5, <2>1, <2>2, <2>3, <2>5, MoveStep DEF Local
<1>6. CASE Quit(w)
  BY <1>1, <1>6, QuitStep DEF Local
<1> QED
  BY <1>1, <1>3, <1>4, <1>5, <1>6 DEF RunCodex, RunChecks, Notify, At

(* Two fields of an element, written one after the other. *)
LEMMA TwoFields ==
  ASSUME NEW S, NEW f \in [S -> WorkerType], NEW g, NEW w \in S, NEW pc, NEW c,
         g = [f EXCEPT ![w].pc = pc, ![w].commit = c]
  PROVE  g = [f EXCEPT ![w] = [f[w] EXCEPT !.pc = pc, !.commit = c]]
OBVIOUS

(* The git mutex: taken with a fresh copy of the row, and given back after  *)
(* the command that it protects.                                            *)
LEMMA LockStep ==
  ASSUME IInv, NEW w \in Worker, NEW pc, NEW status, NEW next,
         \/ pc = "git" /\ status = "running" /\ next = "prepare"
         \/ pc = "push_wait" /\ status = "checking" /\ next = "push",
         LockGit(w, pc, status, next), lapsed' = lapsed
  PROVE  \E n \in WorkerType : WorkStep(w, n, rows[T(w)], remote[T(w)])
<1>1. /\ up /\ workers[w].pc = pc /\ gitMu[SlotOf[w]] = NoWorker
      /\ UNCHANGED <<rows, lease, remote, active>>
  BY DEF LockGit, At
<1>2. PICK v \in WorkerType : v = workers[w] /\ WorkerShape(w, v) /\ T(w) = v.task
  BY <1>1, AtWork DEF T
<1>3. CASE Live(w) /\ StatusOf(w) = status
  <2>1. PICK c \in Branch : c = rows[T(w)].commit
    BY <1>1, AtWork DEF RowType, Branch
  <2> DEFINE n == [v EXCEPT !.pc = next, !.commit = c]
  <2>2. /\ n \in WorkerType /\ n.pc = next /\ Same(v, n)
        /\ n.leased = v.leased /\ n.commit = c
    BY DEF WorkerType, Pc, Preparing, Pushing, Same, Branch
  <2>3. /\ workers' = [workers EXCEPT ![w] = n]
        /\ gitMu' = [gitMu EXCEPT ![SlotOf[w]] = w]
        /\ current' = current \cup {w}
    <3>1. /\ workers' = [workers EXCEPT ![w].pc = next, ![w].commit = c]
          /\ gitMu' = [gitMu EXCEPT ![SlotOf[w]] = w]
          /\ current' = current \cup {w}
      BY <1>3, <2>1 DEF LockGit
    <3>2. workers \in [Worker -> WorkerType]
      BY Types DEF IInv
    <3>3. workers' = [workers EXCEPT ![w] = [workers[w] EXCEPT !.pc = next, !.commit = c]]
      BY <3>1, <3>2, TwoFields
    <3>4. workers[w] = v
      BY <1>2
    <3> QED
      BY <3>1, <3>3, <3>4
  <2> HIDE DEF n
  <2>4. Moves(w, n)
    BY <1>1, <1>2, <2>2, <2>3 DEF Moves, WorkerShape, Same, Preparing, Executing, Pushing,
       T, Live
  <2>5. /\ Adrift(n) <=> Adrift(v)
        /\ Steady(n) <=> Steady(v)
        /\ Drives(n) => Drives(v)
    BY <1>1, <1>2, <2>2 DEF Adrift, Steady, Drives, Bound, Preparing, Pushing, Same
  <2>6. Steady(n) => Fits(n, rows[T(w)], remote[T(w)])
    <3>1. Steady(v) => Fits(v, rows[T(w)], remote[T(w)])
      BY <1>1, <1>2, <1>3, AtWork DEF Ended, StatusOf
    <3> QED
      BY <1>1, <1>2, <2>1, <2>2, <2>5, <3>1 DEF Fits
  <2>7. Adrift(n) => Started(rows[T(w)]) /\ FitsAdrift(n, rows[T(w)], remote[T(w)])
    BY <1>3, <2>1, <2>2 DEF Started, FitsAdrift, StatusOf
  <2>8. Binds(w, n, rows[T(w)], remote[T(w)])
    BY <2>3, <2>6, <2>7 DEF Binds
  <2>9. Writes(w, rows[T(w)], remote[T(w)])
    BY <1>1, <2>3, AtWork DEF Writes
  <2>10. Leases(w, n) /\ Locks(w, n)
    BY <1>1, <1>2, <2>2, <2>3 DEF Leases, Locks, Locked
  <2> QED
    BY <1>1, <1>2, <2>2, <2>3, <2>4, <2>5, <2>8, <2>9, <2>10 DEF WorkStep
<1>4. CASE ~(Live(w) /\ StatusOf(w) = status)
  BY <1>1, <1>4, QuitStep DEF LockGit
<1> QED
  BY <1>3, <1>4

LEMMA PrepareStep ==
  ASSUME IInv, NEW w \in Worker, Prepare(w), lapsed' = lapsed
  PROVE  \E n \in WorkerType : WorkStep(w, n, rows[T(w)], remote[T(w)])
<1>1. /\ up /\ workers[w].pc = "prepare" /\ UnlockGit(w)
      /\ UNCHANGED <<rows, lease, remote, active, current>>
  BY DEF Prepare, At
<1>2. PICK v \in WorkerType : v = workers[w] /\ WorkerShape(w, v) /\ T(w) = v.task
  BY <1>1, AtWork DEF T
<1>3. PICK pc \in {"save_prepared", "fail"} : Go(w, pc)
  BY DEF Prepare
<1>4. TypeOK /\ pc \in Pc
  BY DEF IInv, Pc, Preparing, Ending
<1>5. PICK n \in WorkerType :
        /\ workers' = [workers EXCEPT ![w] = n] /\ n.pc = pc /\ Same(v, n)
        /\ n.leased = v.leased /\ n.commit = v.commit
  BY <1>2, <1>3, <1>4, Goes
<1>6. ~v.leased
  BY <1>1, <1>2 DEF WorkerShape, Preparing
<1>7. Moves(w, n)
  BY <1>1, <1>2, <1>5, <1>6 DEF Moves, WorkerShape, Same, Preparing, Executing, Pushing,
     T, Live
<1>8. Binds(w, n, rows[T(w)], remote[T(w)])
  <2>1. Fits(v, rows[T(w)], remote[T(w)]) => Fits(n, rows[T(w)], remote[T(w)])
    <3>1. rows[T(w)].status = "running" => rows[T(w)].commit = NoCommit
      BY <1>1, AtWork DEF RowShape
    <3> QED
      BY <1>1, <1>2, <1>5, <1>6, <3>1 DEF Fits
  <2>2. v.pc \in Preparing /\ v.pc \in Saves /\ rows[T(w)] \in RowType
    BY <1>1, <1>2, AtWork DEF Preparing, Saves
  <2>3. \/ Ended(rows[T(w)]) /\ w \notin current
        \/ Fits(n, rows[T(w)], remote[T(w)]) /\ w \in current
    BY <1>2, <2>1, <2>2, SteadyAtWork
  <2> QED
    BY <1>1, <1>5, <1>7, <2>2, <2>3, FitsBinds DEF Moves
<1>9. Writes(w, rows[T(w)], remote[T(w)])
  BY <1>1, AtWork DEF Writes
<1>10. Leases(w, n) /\ Locks(w, n) /\ Drives(v)
  BY <1>1, <1>2, <1>5, <1>6, SteadyAtWork DEF Leases, Locks, Locked, UnlockGit, Preparing
<1> QED
  BY <1>1, <1>2, <1>5, <1>7, <1>8, <1>9, <1>10 DEF WorkStep

(* The push may change the branch although the worker is told of a failure. *)
LEMMA PushStep ==
  ASSUME IInv, NEW w \in Worker, Push(w), lapsed' = lapsed
  PROVE  \E n \in WorkerType, b \in Branch : WorkStep(w, n, rows[T(w)], b)
<1>1. /\ up /\ workers[w].pc = "push" /\ UnlockGit(w)
      /\ UNCHANGED <<rows, lease, active, current>>
  BY DEF Push, At
<1>2. PICK v \in WorkerType : v = workers[w] /\ WorkerShape(w, v) /\ T(w) = v.task
  BY <1>1, AtWork DEF T
<1>3. PICK pc \in {"to_pushed", "fail"}, b \in Branch :
        /\ Go(w, pc) /\ remote' = [remote EXCEPT ![T(w)] = b]
        /\ (b = v.commit /\ b # NoCommit) \/ (b = remote[T(w)] /\ pc = "fail")
  <2>1. remote[T(w)] \in Branch /\ v.commit \in Branch
        /\ remote = [remote EXCEPT ![T(w)] = remote[T(w)]]
    BY <1>1, AtWork DEF WorkerType, Branch
  <2> QED
    BY <1>2, <2>1 DEF Push
<1>4. TypeOK /\ pc \in Pc
  BY DEF IInv, Pc, Pushing, Ending
<1>5. PICK n \in WorkerType :
        /\ workers' = [workers EXCEPT ![w] = n] /\ n.pc = pc /\ Same(v, n)
        /\ n.leased = v.leased /\ n.commit = v.commit
  BY <1>2, <1>3, <1>4, Goes
<1>6. v.leased
  BY <1>1, <1>2 DEF WorkerShape, Pushing
<1>7. Moves(w, n)
  BY <1>1, <1>2, <1>5, <1>6 DEF Moves, WorkerShape, Same, Preparing, Executing, Pushing,
     T, Live
<1>8. /\ Adrift(n) <=> Adrift(v)
      /\ Steady(n) <=> Steady(v)
      /\ Drives(n) => Drives(v)
  BY <1>1, <1>2, <1>5 DEF Adrift, Steady, Drives, Bound, Pushing, Same
<1>9. Binds(w, n, rows[T(w)], b)
  <2>1. Fits(v, rows[T(w)], remote[T(w)]) => Fits(n, rows[T(w)], b)
    BY <1>1, <1>2, <1>3, <1>5, <1>6 DEF Fits
  <2>2. FitsAdrift(v, rows[T(w)], remote[T(w)]) => FitsAdrift(n, rows[T(w)], b)
    BY <1>1, <1>2, <1>3, <1>5 DEF FitsAdrift
  <2>3. v.pc \in Bound /\ v.pc \in Saves
    BY <1>1, <1>2 DEF Bound, Pushing, Saves
  <2> QED
    BY <1>1, <1>2, <1>8, <2>1, <2>2, <2>3, AtWork DEF Binds
<1>10. Writes(w, rows[T(w)], b)
  <2>1. /\ v.commit = rows[T(w)].commit
        \/ rows[T(w)].status \notin {"pushed", "awaiting_merge_approval"}
    BY <1>1, <1>2 DEF IInv, PushSound
  <2>2. RowShape(rows[T(w)], b)
    BY <1>1, <1>3, <2>1, AtWork DEF RowShape
  <2> QED
    BY <1>1, <1>2, <1>3, <2>2, AtWork DEF Writes
<1>11. Leases(w, n) /\ Locks(w, n)
  BY <1>1, <1>2, <1>5 DEF Leases, Locks, Locked, UnlockGit
<1> QED
  BY <1>1, <1>2, <1>5, <1>7, <1>8, <1>9, <1>10, <1>11 DEF WorkStep

(* The push lease. *)
LEMMA AcquireStep ==
  ASSUME IInv, NEW w \in Worker, AcquireLease(w), lapsed' = lapsed
  PROVE  \E n \in WorkerType : WorkStep(w, n, rows[T(w)], remote[T(w)])
<1>1. up /\ workers[w].pc = "lease" /\ UNCHANGED <<rows, remote, active, gitMu, current>>
  BY DEF AcquireLease, At
<1>2. PICK v \in WorkerType : v = workers[w] /\ WorkerShape(w, v) /\ T(w) = v.task
  BY <1>1, AtWork DEF T
<1>3. CASE Live(w) /\ Available(T(w))
  <2> DEFINE n == [v EXCEPT !.pc = "load_commit", !.leased = TRUE]
  <2>1. /\ n \in WorkerType /\ n.pc = "load_commit" /\ Same(v, n)
        /\ n.leased /\ n.commit = v.commit
    BY DEF WorkerType, Pc, Pushing, Same
  <2>2. /\ workers' = [workers EXCEPT ![w] = n]
        /\ lease' = [lease EXCEPT ![T(w)] = "held"]
    <3>1. /\ workers' = [workers EXCEPT ![w].pc = "load_commit", ![w].leased = TRUE]
          /\ lease' = [lease EXCEPT ![T(w)] = "held"]
      BY <1>3 DEF AcquireLease
    <3>2. v = workers[w] /\ w \in DOMAIN workers
      BY <1>2 DEF IInv, TypeOK
    <3> QED
      BY <3>1, <3>2
  <2> HIDE DEF n
  <2>3. ~v.leased
    BY <1>1, <1>2 DEF WorkerShape
  <2>4. Moves(w, n)
    BY <1>1, <1>2, <2>1, <2>2 DEF Moves, WorkerShape, Same, Preparing, Executing,
       Pushing, T, Live
  <2>5. Binds(w, n, rows[T(w)], remote[T(w)])
    <3>1. Fits(v, rows[T(w)], remote[T(w)]) => Fits(n, rows[T(w)], remote[T(w)])
      BY <1>1, <1>2, <2>1 DEF Fits
    <3>2. n.pc \notin Saves /\ rows[T(w)] \in RowType
      BY <1>1, <2>1, AtWork DEF Saves
    <3>3. \/ Ended(rows[T(w)]) /\ w \notin current
          \/ Fits(n, rows[T(w)], remote[T(w)])
      BY <1>1, <1>2, <3>1, SteadyAtWork
    <3> QED
      BY <1>1, <2>1, <2>4, <3>2, <3>3, FitsBinds DEF Moves
  <2>6. Writes(w, rows[T(w)], remote[T(w)])
    BY <1>1, AtWork DEF Writes
  <2>7. Leases(w, n) /\ Locks(w, n) /\ Drives(v)
    BY <1>1, <1>2, <1>3, <2>1, <2>2, <2>3, SteadyAtWork DEF Leases, Locks, Locked
  <2> QED
    BY <1>1, <1>2, <2>1, <2>4, <2>5, <2>6, <2>7 DEF WorkStep
<1>4. CASE ~(Live(w) /\ Available(T(w)))
  BY <1>1, <1>4, QuitStep DEF AcquireLease
<1> QED
  BY <1>3, <1>4

LEMMA ReleaseStep ==
  ASSUME IInv, NEW w \in Worker, ReleaseLease(w) \/ ReleaseFails(w)
  PROVE  \E n \in WorkerType : WorkStep(w, n, rows[T(w)], remote[T(w)])
<1>1. up /\ workers[w].pc = "release" /\ UNCHANGED <<rows, remote, active, gitMu, current>>
  BY DEF ReleaseLease, ReleaseFails, leaseFrame, At
<1>2. PICK v \in WorkerType : v = workers[w] /\ WorkerShape(w, v) /\ T(w) = v.task
  BY <1>1, AtWork DEF T
<1> DEFINE n == [v EXCEPT !.pc = "exit", !.leased = FALSE]
<1>3. n \in WorkerType /\ n.pc = "exit" /\ Same(v, n) /\ ~n.leased
  BY DEF WorkerType, Pc, Ending, Same
<1>4. workers' = [workers EXCEPT ![w] = n]
  BY <1>2 DEF ReleaseLease, ReleaseFails
<1> HIDE DEF n
<1>5. v.leased
  BY <1>1, <1>2 DEF WorkerShape
<1>6. Leases(w, n)
  BY <1>2, <1>3, <1>5 DEF Leases, ReleaseLease, ReleaseFails
<1>7. Moves(w, n)
  BY <1>1, <1>2, <1>3, <1>4 DEF Moves, WorkerShape, Same, Preparing, Executing, Pushing,
     T, Live
<1>8. n.pc \notin Bound
  BY <1>3 DEF Bound, Preparing, Executing, Pushing
<1>9. Writes(w, rows[T(w)], remote[T(w)])
  BY <1>1, AtWork DEF Writes
<1>10. Locks(w, n)
  BY <1>1, <1>3 DEF Locks, Locked
<1> QED
  BY <1>1, <1>3, <1>6, <1>7, <1>8, <1>9, <1>10 DEF WorkStep, Binds, Steady, Drives

(* The worker saves its copy and goes on; if that conflicts it fails the    *)
(* task or gives up.                                                        *)
LEMMA SavingStep ==
  ASSUME IInv, NEW w \in Worker, up, NEW row, NEW next \in Pc,
         NEW v \in WorkerType, v = workers[w], v.pc \in Saves \ {"prepare", "push"},
         UNCHANGED <<lease, lapsed, remote, active, gitMu>>,
         \/ Save(w, T(w), row) /\ Go(w, next)
         \/ Go(w, "fail") /\ w \notin current /\ UNCHANGED <<rows, current>>
         \/ Quit(w) /\ UNCHANGED <<rows, current>>,
         next \notin {"idle", "reserved", "prepare", "push", "to_pushed",
                     "load_commit", "save_commit"},
         v.pc = "save_fail" => next = "notify",
         /\ Steady(v) => Fits(v, rows[T(w)], remote[T(w)])
         /\ Adrift(v) => /\ Started(rows[T(w)])
                         /\ FitsAdrift(v, rows[T(w)], remote[T(w)])
         => /\ row \in RowType /\ RowShape(row, remote[T(w)])
            /\ Advances(w, rows[T(w)], row)
            /\ \A n \in WorkerType :
                 n.pc = next /\ n.task = v.task /\ n.leased = v.leased
                 /\ n.commit = v.commit
                 => /\ WorkerShape(w, n)
                    /\ n.pc \in Bound => Fits(n, row, remote[T(w)])
  PROVE  \E n \in WorkerType, r \in RowType : WorkStep(w, n, r, remote[T(w)])
<1>1. /\ v.pc \notin {"idle", "reserved", "prepare", "push"} /\ v.pc \in Bound
      /\ TypeOK
  BY DEF Saves, IInv, Bound, Preparing, Executing, Pushing
<1>2. rows[T(w)] \in RowType /\ WorkerShape(w, v) /\ T(w) = v.task
  BY <1>1, AtWork DEF T
<1>3. /\ Steady(v) => \/ Ended(rows[T(w)]) /\ w \notin current
                      \/ Fits(v, rows[T(w)], remote[T(w)]) /\ w \in current
      /\ Adrift(v) => /\ Started(rows[T(w)])
                      /\ w \in current => FitsAdrift(v, rows[T(w)], remote[T(w)])
  BY <1>1, AtWork
<1>4. CASE Save(w, T(w), row) /\ Go(w, next)
  <2>1. PICK n \in WorkerType :
          /\ workers' = [workers EXCEPT ![w] = n] /\ n.pc = next /\ Same(v, n)
          /\ n.leased = v.leased /\ n.commit = v.commit
    BY <1>1, <1>4, Goes
  <2>2. /\ Steady(v) => Fits(v, rows[T(w)], remote[T(w)])
        /\ Adrift(v) => /\ Started(rows[T(w)])
                        /\ FitsAdrift(v, rows[T(w)], remote[T(w)])
    BY <1>3, <1>4 DEF Save
  <2>3. /\ row \in RowType /\ RowShape(row, remote[T(w)])
        /\ Advances(w, rows[T(w)], row)
        /\ WorkerShape(w, n) /\ (n.pc \in Bound => Fits(n, row, remote[T(w)]))
    BY <2>1, <2>2 DEF Same
  <2>4. Drives(n) => Drives(v)
    <3>1. Adrift(v) => Adrift(n)
      BY <2>1 DEF Adrift, Same
    <3>2. next = "notify" => ~Drives(n)
      BY <2>1 DEF Drives, Steady, Bound, Preparing, Executing, Pushing
    <3>3. ~Drives(v) => Adrift(v) \/ v.pc = "save_fail"
      BY <1>1 DEF Drives, Steady, Saves
    <3> QED
      BY <3>1, <3>2, <3>3 DEF Drives, Steady
  <2> QED
    BY <1>1, <1>4, <2>1, <2>3, <2>4, SaveStep
<1>5. CASE Go(w, "fail") /\ w \notin current /\ UNCHANGED <<rows, current>>
  <2>1. "fail" \in Pc
    BY DEF Pc, Ending
  <2>2. PICK n \in WorkerType :
          /\ workers' = [workers EXCEPT ![w] = n] /\ n.pc = "fail" /\ Same(v, n)
          /\ n.leased = v.leased /\ n.commit = v.commit
    BY <1>1, <1>5, <2>1, Goes
  <2>3. WorkerShape(w, n)
    BY <1>1, <1>2, <2>2 DEF WorkerShape, Same, Preparing, Executing, Pushing
  <2>4. Adrift(v) => Adrift(n)
    BY <2>2 DEF Adrift, Same
  <2>5. Binds(w, n, rows[T(w)], remote[T(w)])
    <3>1. /\ Steady(v) => Ended(rows[T(w)])
          /\ Adrift(v) => Started(rows[T(w)])
          /\ Steady(v) \/ Adrift(v)
      BY <1>1, <1>3, <1>5 DEF Steady
    <3> QED
      BY <1>5, <2>4, <3>1 DEF Binds, Steady, Ended, Started
  <2>6. Drives(n) => Drives(v)
    BY <1>1, <2>2, <2>4 DEF Drives, Steady
  <2> QED
    BY <1>1, <1>2, <1>5, <2>2, <2>3, <2>5, <2>6, MoveStep
<1>6. CASE Quit(w) /\ UNCHANGED <<rows, current>>
  BY <1>1, <1>2, <1>6, QuitStep
<1> QED
  BY <1>4, <1>5, <1>6

(* What each of the saves needs of the row, and leaves of it. *)
LEMMA CheckpointStep ==
  ASSUME IInv, NEW w \in Worker,
         SavePrepared(w) \/ SaveSession(w) \/ SaveCommit(w), lapsed' = lapsed
  PROVE  \E n \in WorkerType, r \in RowType : WorkStep(w, n, r, remote[T(w)])
<1>1. /\ up /\ workers[w].pc \in {"save_prepared", "save_session", "save_commit"}
      /\ UNCHANGED <<lease, remote, active, gitMu>>
  BY DEF SavePrepared, SaveSession, SaveCommit, Saving, At
<1>2. PICK v \in WorkerType : v = workers[w] /\ WorkerShape(w, v) /\ T(w) = v.task
  BY <1>1, AtWork DEF T
<1>3. PICK r \in RowType : r = rows[T(w)] /\ RowShape(r, remote[T(w)])
  BY <1>1, AtWork
<1>4. PICK row \in RowType, next \in Pc :
        /\ Checkpoint(w, row, next)
        /\ \/ v.pc = "save_prepared" /\ row = [r EXCEPT !.exec = "prepared"]
              /\ next = "codex"
           \/ v.pc = "save_session" /\ row = [r EXCEPT !.exec = "session"]
              /\ next = "to_checking"
           \/ v.pc = "save_commit" /\ row = [r EXCEPT !.commit = v.commit]
              /\ next = "load_push"
  <2>1. {"codex", "to_checking", "load_push"} \subseteq Pc
    BY DEF Pc, Executing, Pushing
  <2>2. /\ [r EXCEPT !.exec = "prepared"] \in RowType
        /\ [r EXCEPT !.exec = "session"] \in RowType
        /\ [r EXCEPT !.commit = v.commit] \in RowType
    BY DEF RowType, WorkerType
  <2> QED
    BY <1>2, <1>3, <2>1, <2>2 DEF SavePrepared, SaveSession, SaveCommit, At
<1>5. \/ Save(w, T(w), row) /\ Go(w, next)
      \/ Go(w, "fail") /\ w \notin current /\ UNCHANGED <<rows, current>>
      \/ Quit(w) /\ UNCHANGED <<rows, current>>
  BY <1>4 DEF Checkpoint
<1>6. v.pc = "save_commit" => v.commit \in Commit
  BY <1>2 DEF WorkerShape
<1>7. /\ row \in RowType /\ row.status = r.status
      /\ v.pc = "save_prepared" => row.exec = "prepared" /\ row.commit = r.commit
      /\ v.pc = "save_session" => row.exec = "session" /\ row.commit = r.commit
      /\ v.pc = "save_commit" => row.exec = r.exec /\ row.commit = v.commit
  BY <1>4, <1>6 DEF RowType
<1>8. Steady(v) /\ Drives(v) /\ (v.pc = "save_commit" => v.leased)
  BY <1>1, <1>2, SteadyAtWork DEF WorkerShape, Preparing, Executing, Pushing
<1>9. ASSUME Fits(v, r, remote[T(w)])
      PROVE  /\ RowShape(row, remote[T(w)])
             /\ Advances(w, r, row)
             /\ \A n \in WorkerType :
                  n.pc = next /\ n.task = v.task /\ n.leased = v.leased
                  /\ n.commit = v.commit
                  => /\ WorkerShape(w, n)
                     /\ n.pc \in Bound => Fits(n, row, remote[T(w)])
  <2>1. /\ r.status \in {"running", "checking"} /\ r.commit = NoCommit
        /\ r.status = "running" <=> v.pc # "save_commit"
    BY <1>1, <1>2, <1>3, <1>9 DEF Fits, RowShape
  <2>2. RowShape(row, remote[T(w)]) /\ Advances(w, r, row)
    BY <1>1, <1>2, <1>3, <1>4, <1>7, <1>8, <2>1 DEF RowShape, Advances, Started
  <2>3. ASSUME NEW n \in WorkerType, n.pc = next, n.task = v.task, n.leased = v.leased
        PROVE  /\ WorkerShape(w, n)
               /\ n.pc \in Bound => Fits(n, row, remote[T(w)])
    BY <1>1, <1>2, <1>4, <1>7, <2>1, <2>3
       DEF WorkerShape, Fits, Bound, Preparing, Executing, Pushing
  <2> QED
    BY <2>2, <2>3
<1>10. /\ v.pc \in Saves \ {"prepare", "push"} /\ v.pc # "save_fail"
       /\ next \in {"codex", "to_checking", "load_push"}
  BY <1>1, <1>2, <1>4 DEF Saves
<1> QED
  BY <1>1, <1>2, <1>3, <1>5, <1>7, <1>8, <1>9, <1>10, SavingStep

LEMMA TransitionStep ==
  ASSUME IInv, NEW w \in Worker,
         SaveBlocked(w) \/ ToChecking(w) \/ ToPushed(w) \/ ToAwaiting(w) \/ SaveFail(w),
         lapsed' = lapsed
  PROVE  \E n \in WorkerType, r \in RowType : WorkStep(w, n, r, remote[T(w)])
<1>1. /\ up /\ workers[w].pc \in {"save_blocked", "to_checking", "to_pushed",
                                  "to_awaiting", "save_fail"}
      /\ UNCHANGED <<lease, remote, active, gitMu>>
  BY DEF SaveBlocked, ToChecking, ToPushed, ToAwaiting, SaveFail, Saving, At
<1>2. PICK v \in WorkerType : v = workers[w] /\ WorkerShape(w, v) /\ T(w) = v.task
  BY <1>1, AtWork DEF T
<1>3. PICK r \in RowType : r = rows[T(w)] /\ RowShape(r, remote[T(w)])
  BY <1>1, AtWork
<1>4. PICK row \in RowType, next \in Pc :
        /\ Transition(w, row, next)
        /\ \/ v.pc = "save_blocked" /\ next = "notify"
              /\ row = [[r EXCEPT !.status = "blocked"] EXCEPT !.exec = "session"]
           \/ v.pc = "to_checking" /\ next = "checks"
              /\ row = [r EXCEPT !.status = "checking"]
           \/ v.pc = "to_pushed" /\ next = "to_awaiting"
              /\ row = [r EXCEPT !.status = "pushed"]
           \/ v.pc = "to_awaiting" /\ next = "notify"
              /\ row = [r EXCEPT !.status = "awaiting_merge_approval"]
           \/ v.pc = "save_fail" /\ next = "notify"
              /\ row = [r EXCEPT !.status = "failed"]
  <2>1. {"notify", "checks", "to_awaiting"} \subseteq Pc
    BY DEF Pc, Executing, Pushing, Ending
  <2>2. /\ \A s \in Status : [r EXCEPT !.status = s] \in RowType
        /\ [[r EXCEPT !.status = "blocked"] EXCEPT !.exec = "session"] \in RowType
    BY DEF RowType, Status
  <2>3. {"blocked", "checking", "pushed", "awaiting_merge_approval", "failed"} \subseteq Status
    BY DEF Status
  <2> QED
    BY <1>2, <1>3, <2>1, <2>2, <2>3 DEF SaveBlocked, ToChecking, ToPushed, ToAwaiting, SaveFail, At,
       Moved
<1>5. \/ Save(w, T(w), row) /\ Go(w, next)
      \/ Quit(w) /\ UNCHANGED <<rows, current>>
  BY <1>4 DEF Transition
<1>6. /\ row \in RowType /\ row.commit = r.commit
      /\ v.pc = "save_blocked" => row.status = "blocked" /\ row.exec = "session"
      /\ v.pc # "save_blocked" => row.exec = r.exec
      /\ v.pc = "to_checking" => row.status = "checking"
      /\ v.pc = "to_pushed" => row.status = "pushed"
      /\ v.pc = "to_awaiting" => row.status = "awaiting_merge_approval"
      /\ v.pc = "save_fail" => row.status = "failed"
  BY <1>4 DEF RowType, Status
<1>7. ASSUME Steady(v) => Fits(v, r, remote[T(w)]),
             Adrift(v) => Started(r) /\ FitsAdrift(v, r, remote[T(w)])
      PROVE  /\ RowShape(row, remote[T(w)])
             /\ Advances(w, r, row)
             /\ \A n \in WorkerType :
                  n.pc = next /\ n.task = v.task /\ n.leased = v.leased
                  /\ n.commit = v.commit
                  => /\ WorkerShape(w, n)
                     /\ n.pc \in Bound => Fits(n, row, remote[T(w)])
  <2>1. /\ v.pc \in {"save_blocked", "to_checking"} => r.status = "running"
        /\ v.pc = "to_checking" => r.exec = "session"
        /\ v.pc = "to_pushed" => /\ r.status = "checking" /\ r.commit # NoCommit
                                 /\ remote[T(w)] = r.commit
        /\ v.pc = "to_awaiting" => r.status = "pushed"
        /\ v.pc = "save_fail" =>
             r.status \in {"queued", "running", "blocked", "checking", "pushed"}
    <3>1. /\ Adrift(v) \/ Steady(v)
          /\ Adrift(v) => v.pc \notin {"save_blocked", "to_checking"}
      BY <1>1, <1>2 DEF Adrift, Steady, WorkerShape, Bound, Executing, Pushing
    <3>2. CASE Steady(v)
      BY <1>1, <1>2, <1>3, <1>7, <3>2 DEF Fits
    <3>3. CASE Adrift(v)
      BY <1>3, <1>7, <3>1, <3>3 DEF FitsAdrift, Started, RowShape, CanTransition
    <3> QED
      BY <3>1, <3>2, <3>3
  <2>2. RowShape(row, remote[T(w)])
    BY <1>1, <1>2, <1>3, <1>4, <1>6, <2>1 DEF RowShape
  <2>3. Advances(w, r, row)
    <3>1. /\ v.pc # "save_fail" => Drives(v) \/ Adrift(v)
          /\ v.pc \in {"to_pushed", "to_awaiting"} => v.leased
          /\ Adrift(v) => v.leased /\ v.pc \notin {"save_blocked", "to_checking"}
      BY <1>1, <1>2 DEF Adrift, Steady, Drives, WorkerShape, Bound, Executing, Pushing
    <3> QED
      BY <1>1, <1>2, <1>6, <2>1, <3>1 DEF Advances, Started, Ended
  <2>4. ASSUME NEW n \in WorkerType, n.pc = next, n.task = v.task, n.leased = v.leased
        PROVE  /\ WorkerShape(w, n)
               /\ n.pc \in Bound => Fits(n, row, remote[T(w)])
    <3>1. v.pc = "to_checking" => r.commit = NoCommit
      BY <1>3, <2>1 DEF RowShape
    <3> QED
      BY <1>1, <1>2, <1>4, <1>6, <2>1, <2>4, <3>1
       DEF WorkerShape, Fits, Bound, Preparing, Executing, Pushing
  <2> QED
    BY <2>2, <2>3, <2>4
<1>8. v.pc \in Saves \ {"prepare", "push"}
  BY <1>1, <1>2 DEF Saves
<1>9. /\ next \in {"notify", "checks", "to_awaiting"}
      /\ v.pc = "save_fail" => next = "notify"
  BY <1>4
<1> QED
  BY <1>1, <1>2, <1>3, <1>5, <1>6, <1>7, <1>8, <1>9, SavingStep

(* The store may fail when the lease is acquired or released. *)
Fails(w) ==
  \/ ReleaseFails(w)
  \/ AcquireFails /\ At(w, "lease") /\ Quit(w) /\ UNCHANGED scan

Acts(w) == Work(w) \/ Fails(w)

LEMMA FailsStep ==
  ASSUME IInv, NEW w \in Worker, Fails(w)
  PROVE  \E n \in WorkerType : WorkStep(w, n, rows[T(w)], remote[T(w)])
<1>1. CASE AcquireFails /\ At(w, "lease") /\ Quit(w)
  BY <1>1, QuitStep DEF AcquireFails, leaseFrame, At
<1> QED
  BY <1>1, ReleaseStep DEF Fails

(* Every step of a worker but its end is such a step. *)
LEMMA WorkerSteps ==
  ASSUME IInv, NEW w \in Worker, Acts(w), ~Exit(w)
  PROVE  \E n \in WorkerType, r \in RowType, b \in Branch : WorkStep(w, n, r, b)
<1>1. workers[w].pc \notin {"idle", "reserved"}
  BY DEF Acts, Fails, Work, Begin, LoadTask, Prepare, SavePrepared, LockGit, RunCodex,
     AfterCodex, SaveBlocked, SaveSession, ToChecking, RunChecks, AcquireLease, LoadCommit,
     SaveCommit, LoadPush, Push, ToPushed, LoadPushed, ToAwaiting, LoadFail, SaveFail,
     Notify, ReleaseLease, ReleaseFails, At
<1>2. rows[T(w)] \in RowType /\ remote[T(w)] \in Branch
  BY <1>1, AtWork
<1> QED
  BY <1>2, BeginStep, LoadTaskStep, AfterCodexStep, LoadCommitStep, LoadPushStep,
     LoadPushedStep, LoadFailStep, RunStep, LockStep, PrepareStep, PushStep, AcquireStep,
     ReleaseStep, FailsStep, CheckpointStep, TransitionStep DEF Acts, Work

-----------------------------------------------------------------------------
(* What commands and claims do to the tables. *)

(* The copy x of task t is saved as row: no worker is bound to the task, or *)
(* the task is cancelled.                                                   *)
TableStep(t, x, row) ==
  /\ row \in RowType /\ RowShape(row, remote[t])
  /\ rows' = [rows EXCEPT ![t] = row] /\ remote' = remote
  /\ x \in {t, ScanItem(t)} /\ current' = (current \ Copies(t)) \cup {x}
  /\ \/ rows[t].status \notin {"running", "checking", "pushed", "failed", "cancelled"}
     \/ row.status = "cancelled"
  /\ Started(rows[t]) => Started(row)
  /\ row.status \notin {"pushed", "awaiting_merge_approval"}

(* A row whose status alone changes. *)
LEMMA MovedRow ==
  ASSUME TypeOK, NEW t \in Task, NEW next \in Status
  PROVE  /\ Moved(t, next) \in RowType /\ Moved(t, next).status = next
         /\ Moved(t, next).exec = rows[t].exec
         /\ Moved(t, next).commit = rows[t].commit
<1>1. PICK r \in RowType : r = rows[t]
  BY Types
<1> QED
  BY <1>1 DEF Moved, RowType

LEMMA CreateSaves ==
  ASSUME IInv, NEW t \in Task, Create(t)
  PROVE  \/ UNCHANGED <<rows, current, remote, handlers>>
            /\ rows[t].status \notin {"absent", "draft"}
         \/ /\ TableStep(t, t, Moved(t, "draft"))
            /\ rows[t].status \in {"absent", "draft"}
            /\ handlers' = [handlers EXCEPT ![t] = [pc |-> "planning", message |-> NoMessage]]
            /\ UNCHANGED processed
<1>1. TypeOK /\ RowShape(rows[t], remote[t]) /\ "draft" \in Status
  BY DEF IInv, RowSound, Status
<1>2. CASE rows[t].status \in {"absent", "draft"}
  <2>1. /\ RowShape(Moved(t, "draft"), remote[t]) /\ Moved(t, "draft") \in RowType
        /\ ~Started(rows[t]) /\ Moved(t, "draft").status = "draft"
    BY <1>1, <1>2, MovedRow DEF RowShape, Started
  <2> QED
    BY <1>2, <2>1 DEF Create, handlerFrame, TableStep, Handle
<1> QED
  BY <1>2 DEF Create, handlerFrame

LEMMA PlanSaves ==
  ASSUME IInv, NEW t \in Task, Plan(t)
  PROVE  /\ t \notin processed /\ rows[t].status = "draft"
         /\ \E next \in {"awaiting_confirmation", "failed"} :
              TableStep(t, t, Moved(t, next)) /\ Save(t, t, Moved(t, next))
<1>1. TypeOK /\ RowShape(rows[t], remote[t])
  BY DEF IInv, RowSound
<1>2. PICK next \in {"awaiting_confirmation", "failed"} : Save(t, t, Moved(t, next))
  BY DEF Plan
<1>3. t \notin processed /\ rows[t].status = "draft"
  BY <1>2 DEF Plan, Save, IInv, HandlerSound
<1>4. /\ RowShape(Moved(t, next), remote[t]) /\ Moved(t, next) \in RowType
      /\ ~Started(rows[t]) /\ Moved(t, next).status = next
  BY <1>1, <1>3, MovedRow DEF RowShape, Status, Started
<1> QED
  BY <1>2, <1>3, <1>4 DEF TableStep, Save, Plan, handlerFrame

LEMMA CommandSaves ==
  ASSUME IInv, NEW t \in Task, CommitCommand(t)
  PROVE  LET m == handlers[t].message  row == Result(m, t) IN
         /\ m \in Message /\ m \notin processed /\ CanOperate(Sender[m], t)
         /\ Admits(m, t) /\ TableStep(t, t, row) /\ Save(t, t, row)
         /\ row.status = CASE CommandOf[m] = "cancel" -> "cancelled"
                           [] OTHER -> "queued"
         /\ row.exec = rows[t].exec
         /\ row.commit = IF CommandOf[m] = "supplement" THEN NoCommit ELSE rows[t].commit
<1> DEFINE m == handlers[t].message
           row == Result(m, t)
<1>1. TypeOK /\ RowShape(rows[t], remote[t]) /\ {"queued", "cancelled"} \subseteq Status
  BY DEF IInv, RowSound, Status
<1>2. Save(t, t, row) /\ handlers[t].pc = "commit" /\ t \in current
  BY DEF CommitCommand, Save
<1>3. /\ m \in Message /\ m \notin processed /\ CanOperate(Sender[m], t) /\ Admits(m, t)
  BY <1>2 DEF IInv, HandlerSound
<1> HIDE DEF m
<1>4. /\ row \in RowType /\ row.exec = rows[t].exec
      /\ row.status = CASE CommandOf[m] = "cancel" -> "cancelled"
                        [] OTHER -> "queued"
      /\ row.commit = IF CommandOf[m] = "supplement" THEN NoCommit ELSE rows[t].commit
  <2>1. CASE CommandOf[m] = "supplement"
    <3>1. PICK r \in RowType : /\ r = Moved(t, "queued") /\ r.status = "queued"
                               /\ r.exec = rows[t].exec
      BY <1>1, MovedRow
    <3>2. /\ [r EXCEPT !.commit = NoCommit] \in RowType
          /\ [r EXCEPT !.commit = NoCommit].status = r.status
          /\ [r EXCEPT !.commit = NoCommit].exec = r.exec
          /\ [r EXCEPT !.commit = NoCommit].commit = NoCommit
      BY DEF RowType
    <3>3. row = [r EXCEPT !.commit = NoCommit]
      BY <2>1, <3>1 DEF Result
    <3> QED
      BY <2>1, <3>1, <3>2, <3>3
  <2>2. CASE CommandOf[m] = "confirm"
    BY <1>1, <2>2, MovedRow DEF Result
  <2>3. CASE CommandOf[m] = "cancel"
    BY <1>1, <2>3, MovedRow DEF Result
  <2> QED
    BY <1>3, <2>1, <2>2, <2>3
<1>5. RowShape(row, remote[t])
  BY <1>1, <1>3, <1>4 DEF RowShape, Admits, CanTransition
<1>6. \/ rows[t].status \notin {"running", "checking", "pushed", "failed", "cancelled"}
      \/ row.status = "cancelled"
  BY <1>3, <1>4 DEF Admits
<1>7. TableStep(t, t, row)
  BY <1>2, <1>3, <1>4, <1>5, <1>6 DEF TableStep, Save, CommitCommand, handlerFrame, Started
<1> QED
  BY <1>2, <1>3, <1>4, <1>7 DEF m

LEMMA ClaimSaves ==
  ASSUME IInv, NEW t \in Task, Claim(t)
  PROVE  \/ /\ UNCHANGED <<rows, current, remote, workers>>
            /\ scan' = [scan EXCEPT !.todo = @ \ {t}]
         \/ /\ rows[t].status = "queued"
            /\ TableStep(t, ScanItem(t), Moved(t, "running"))
            /\ Moved(t, "running").status = "running"
            /\ \E w \in Worker :
                 /\ IdleWorker(w, t)
                 /\ workers' = [workers EXCEPT ![w].pc = "reserved"]
                 /\ scan' = [phase |-> "register", todo |-> scan.todo \ {t},
                             task |-> t, worker |-> w]
<1>1. TypeOK /\ RowShape(rows[t], remote[t]) /\ "running" \in Status
  BY DEF IInv, RowSound, Status
<1>2. scan.phase = "queued" /\ t \in scan.todo /\ remote' = remote
  BY DEF Claim, scanFrame
<1>3. CASE Save(ScanItem(t), t, Moved(t, "running"))
  <2>1. rows[t].status = "queued"
    BY <1>2, <1>3 DEF Save, IInv, ScanSound
  <2>2. /\ RowShape(Moved(t, "running"), remote[t]) /\ Moved(t, "running") \in RowType
        /\ Moved(t, "running").status = "running"
    BY <1>1, <2>1, MovedRow DEF RowShape
  <2>3. TableStep(t, ScanItem(t), Moved(t, "running"))
    BY <1>2, <1>3, <2>1, <2>2 DEF TableStep, Save, Started
  <2> QED
    BY <1>2, <2>1, <2>2, <2>3 DEF Claim, Skip
<1> QED
  BY <1>2, <1>3 DEF Claim, Skip

-----------------------------------------------------------------------------
(* The rows, the branches and the workers after such steps. *)

LEMMA WorkRows ==
  ASSUME IInv, NEW w \in Worker, NEW n \in WorkerType, NEW row, NEW b,
         WorkStep(w, n, row, b)
  PROVE  /\ rows' \in [Task -> RowType] /\ remote' \in [Task -> Branch] /\ RowSound'
         /\ T(w) \in Task /\ rows'[T(w)] = row /\ remote'[T(w)] = b
         /\ \A t \in Task \ {T(w)} : rows'[t] = rows[t] /\ remote'[t] = remote[t]
<1>1. /\ rows \in [Task -> RowType] /\ remote \in [Task -> Branch]
      /\ \A t \in Task : RowShape(rows[t], remote[t])
  BY Types DEF IInv, RowSound
<1>2. /\ row \in RowType /\ b \in Branch /\ RowShape(row, b)
      /\ rows' = [rows EXCEPT ![T(w)] = row]
      /\ remote' = [remote EXCEPT ![T(w)] = b]
  BY DEF WorkStep, Writes
<1>3. T(w) \in Task
  BY DEF WorkStep, Moves, WorkerShape
<1>4. /\ rows' \in [Task -> RowType] /\ remote' \in [Task -> Branch]
      /\ rows'[T(w)] = row /\ remote'[T(w)] = b
      /\ \A t \in Task \ {T(w)} : rows'[t] = rows[t] /\ remote'[t] = remote[t]
  BY <1>1, <1>2, <1>3
<1>5. RowSound'
  BY <1>1, <1>2, <1>4 DEF RowSound
<1> QED
  BY <1>3, <1>4, <1>5

LEMMA TableRows ==
  ASSUME IInv, NEW t \in Task, NEW x, NEW row, TableStep(t, x, row)
  PROVE  /\ rows' \in [Task -> RowType] /\ RowSound' /\ rows'[t] = row
         /\ \A u \in Task \ {t} : rows'[u] = rows[u]
<1>1. /\ rows \in [Task -> RowType]
      /\ \A u \in Task : RowShape(rows[u], remote[u])
  BY Types DEF IInv, RowSound
<1>2. /\ row \in RowType /\ RowShape(row, remote[t])
      /\ rows' = [rows EXCEPT ![t] = row] /\ remote' = remote
  BY DEF TableStep
<1>3. /\ rows' \in [Task -> RowType] /\ rows'[t] = row
      /\ \A u \in Task \ {t} : rows'[u] = rows[u]
  BY <1>1, <1>2
<1>4. RowSound'
  BY <1>1, <1>2, <1>3 DEF RowSound
<1> QED
  BY <1>3, <1>4

(* Which workers a step of w, or a save by somebody else, leaves alone. *)
LEMMA WorkRest ==
  ASSUME IInv, NEW w \in Worker, NEW n \in WorkerType, NEW row, NEW b,
         WorkStep(w, n, row, b)
  PROVE  /\ workers' \in [Worker -> WorkerType] /\ workers'[w] = n /\ n.task = T(w)
         /\ \A u \in Worker \ {w} : workers'[u] = workers[u]
<1>1. workers \in [Worker -> WorkerType]
  BY Types DEF IInv
<1> QED
  BY <1>1 DEF WorkStep, Moves

(* A worker with its row and branch is as the invariant wants it. *)
Sound(u, v, r, b, holds) ==
  /\ WorkerShape(u, v)
  /\ v.pc \in {"idle", "reserved"} => ~holds
  /\ Steady(v) =>
       \/ Ended(r) /\ ~holds
       \/ Fits(v, r, b) /\ (v.pc \in Saves => holds)
  /\ Adrift(v) /\ v.pc \in Bound =>
       Started(r) /\ (holds => FitsAdrift(v, r, b))

(* All workers are so after a step, as far as it is not that step which     *)
(* loses a lease.                                                           *)
SoundAfter ==
  \A u \in Worker : Sound(u, workers'[u], rows'[workers'[u].task],
                         remote'[workers'[u].task], u \in current')

LEMMA SoundWorkers ==
  WorkerSound <=> \A u \in Worker :
                    Sound(u, workers[u], rows[T(u)], remote[T(u)], u \in current)
BY DEF WorkerSound, Sound

(* What others read or save of a task leaves its workers sound. *)
LEMMA OthersSound ==
  ASSUME IInv, NEW w \in Worker, NEW n \in WorkerType, NEW row, NEW b,
         WorkStep(w, n, row, b), NEW u \in Worker \ {w}
  PROVE  Sound(u, workers[u], rows'[T(u)], remote'[T(u)], u \in current')
<1>1. Sound(u, workers[u], rows[T(u)], remote[T(u)], u \in current)
  BY SoundWorkers DEF IInv
<1>2. TypeOK /\ WorkerSound /\ PushSound /\ OneDriver /\ LeaseSound
  BY DEF IInv
<1>3. CASE current' \in {current, current \cup {w}} /\ row = rows[T(w)]
  <2>1. u \in current' <=> u \in current
    BY <1>3
  <2>2. CASE T(u) # T(w) \/ b = remote[T(w)]
    <3>1. CASE workers[u].pc \in {"idle", "reserved"}
      BY <1>1, <2>1, <3>1 DEF Sound, Steady, Bound, Preparing, Executing, Pushing
    <3>2. CASE workers[u].pc \notin {"idle", "reserved"}
      <4>1. T(u) \in Task
        BY <3>2, AtWork
      <4>2. rows'[T(u)] = rows[T(u)] /\ remote'[T(u)] = remote[T(u)]
        BY <1>3, <2>2, <4>1, WorkRows
      <4> QED
        BY <1>1, <2>1, <4>2
    <3> QED
      BY <3>1, <3>2
  <2>3. CASE T(u) = T(w) /\ b # remote[T(w)]
    <3>1. /\ workers[w].pc = "push" /\ b = workers[w].commit
          /\ rows'[T(u)] = rows[T(u)] /\ remote'[T(u)] = b
      BY <1>3, <2>3, WorkRows DEF WorkStep, Writes
    <3>2. Steady(workers[u]) => workers[u].pc # "to_pushed"
      <4>1. workers[w].leased /\ (workers[u].pc = "to_pushed" => workers[u].leased)
        BY <1>2, <3>1 DEF WorkerSound, WorkerShape, Pushing
      <4> QED
        BY <1>2, <2>3, <4>1 DEF LeaseSound, Steady, Adrift, T
    <3>3. Steady(workers[u]) /\ Fits(workers[u], rows[T(u)], remote[T(u)])
            => Fits(workers[u], rows'[T(u)], remote'[T(u)])
      BY <3>1, <3>2 DEF Fits
    <3>4. u \in current /\ workers[u].pc = "to_pushed" => b = rows[T(u)].commit
      BY <1>2, <2>3, <3>1 DEF PushSound
    <3>5. u \in current /\ FitsAdrift(workers[u], rows[T(u)], remote[T(u)])
            => FitsAdrift(workers[u], rows'[T(u)], remote'[T(u)])
      BY <3>1, <3>4 DEF FitsAdrift
    <3> QED
      BY <1>1, <2>1, <3>1, <3>3, <3>5 DEF Sound
  <2> QED
    BY <2>2, <2>3
<1>4. CASE /\ b = remote[T(w)]
           /\ w \in current /\ current' = (current \ Copies(T(w))) \cup {w}
           /\ Advances(w, rows[T(w)], row)
  <2>1. T(w) \in Task /\ w \in Copies(T(w))
    BY <1>2, WorkRows, CopyOwners
  <2>2. CASE T(u) # T(w)
    <3>1. u \in current' <=> u \in current
      BY <1>2, <1>4, <2>1, <2>2, CopiesLeft
    <3>2. CASE workers[u].pc \in {"idle", "reserved"}
      BY <1>1, <3>1, <3>2 DEF Sound, Steady, Bound, Preparing, Executing, Pushing
    <3>3. CASE workers[u].pc \notin {"idle", "reserved"}
      <4>1. T(u) \in Task
        BY <3>3, AtWork
      <4>2. rows'[T(u)] = rows[T(u)] /\ remote'[T(u)] = remote[T(u)]
        BY <2>2, <4>1, WorkRows
      <4> QED
        BY <1>1, <3>1, <4>2
    <3> QED
      BY <3>2, <3>3
  <2>3. CASE T(u) = T(w)
    <3>1. u \notin current'
      BY <1>2, <1>4, <2>1, <2>3, CopiesLeft
    <3>2. rows'[T(u)] = row
      BY <2>3, WorkRows
    <3>3. Steady(workers[u]) => Ended(row)
      <4> SUFFICES ASSUME ~Ended(row), Steady(workers[u])
                   PROVE  FALSE
        OBVIOUS
      <4>1. Fits(workers[u], rows[T(u)], remote[T(u)]) /\ WorkerShape(u, workers[u])
        BY <1>1, <1>4, <2>3 DEF Sound, Ended, Advances
      <4>2. CASE /\ Drives(workers[w])
                 /\ workers[w].leased \/ rows[T(w)].status = "running"
        <5>1. ~Drives(workers[u])
          BY <1>2, <2>3, <4>2 DEF OneDriver
        <5>2. /\ workers[u].pc \in {"fail", "save_fail"} /\ workers[u].leased
              /\ T(u) \notin lapsed
          BY <5>1 DEF Drives, Steady, Adrift, T
        <5>3. rows[T(w)].status = "checking"
          BY <2>3, <4>1, <5>2 DEF Fits
        <5> QED
          BY <1>2, <2>3, <4>2, <5>2, <5>3 DEF LeaseSound
      <4>3. CASE /\ Adrift(workers[w])
                 /\ \/ rows[T(w)].status = "pushed"
                    \/ rows[T(w)].status = "checking" /\ rows[T(w)].commit # NoCommit
        <5>1. ~workers[u].leased \/ workers[u].pc \in {"load_commit", "save_commit"}
          BY <2>3, <4>3 DEF Steady, Adrift, T
        <5> QED
          BY <2>3, <4>1, <4>3, <5>1
             DEF Fits, WorkerShape, Steady, Bound, Preparing, Executing, Pushing
      <4> QED
        BY <1>4, <4>2, <4>3 DEF Advances
    <3>4. Started(row)
      BY <1>4 DEF Advances
    <3> QED
      BY <1>1, <3>1, <3>2, <3>3, <3>4 DEF Sound
  <2> QED
    BY <2>2, <2>3
<1> QED
  BY <1>3, <1>4 DEF WorkStep, Writes

LEMMA WorkSound ==
  ASSUME IInv, NEW w \in Worker, NEW n \in WorkerType, NEW row, NEW b,
         WorkStep(w, n, row, b)
  PROVE  SoundAfter
<1>1. ASSUME NEW u \in Worker
      PROVE  Sound(u, workers'[u], rows'[workers'[u].task],
                   remote'[workers'[u].task], u \in current')
  <2>1. CASE u = w
    <3>1. /\ WorkerShape(w, n) /\ n.pc \notin {"idle", "reserved"}
          /\ Binds(w, n, row, b)
      BY DEF WorkStep, Moves
    <3>2. Sound(w, n, row, b, w \in current')
      BY <3>1 DEF Sound, Binds
    <3> QED
      BY <2>1, <3>2, WorkRest, WorkRows
  <2>2. CASE u # w
    <3>1. workers'[u] = workers[u] /\ workers'[u].task = T(u)
      BY <2>2, WorkRest DEF T
    <3> QED
      BY <2>2, <3>1, OthersSound
  <2> QED
    BY <2>1, <2>2
<1> QED
  BY <1>1 DEF SoundAfter

LEMMA TableSound ==
  ASSUME IInv, NEW t \in Task, NEW x, NEW row, TableStep(t, x, row), NEW u \in Worker
  PROVE  Sound(u, workers[u], rows'[T(u)], remote'[T(u)], u \in current')
<1>1. Sound(u, workers[u], rows[T(u)], remote[T(u)], u \in current)
  BY SoundWorkers DEF IInv
<1>2. TypeOK /\ x \in {t, ScanItem(t)} /\ current' = (current \ Copies(t)) \cup {x}
      /\ remote' = remote
  BY DEF IInv, TableStep
<1>3. x \in Copies(t) /\ u # x
  <2>1. ScanItem(t) \in {"scan"} \X Task
    BY DEF ScanItem
  <2> QED
    BY <1>2, <2>1, CopyOwners
<1>4. CASE T(u) # t
  <2>1. u \in current' <=> u \in current
    BY <1>2, <1>3, <1>4, CopiesLeft
  <2>2. CASE workers[u].pc \in {"idle", "reserved"}
    BY <1>1, <2>1, <2>2 DEF Sound, Steady, Bound, Preparing, Executing, Pushing
  <2>3. CASE workers[u].pc \notin {"idle", "reserved"}
    <3>1. T(u) \in Task
      BY <2>3, AtWork
    <3>2. rows'[T(u)] = rows[T(u)]
      BY <1>4, <3>1, TableRows
    <3> QED
      BY <1>1, <1>2, <2>1, <3>2
  <2> QED
    BY <2>2, <2>3
<1>5. CASE T(u) = t
  <2>1. u \notin current'
    BY <1>2, <1>3, <1>5, CopiesLeft
  <2>2. rows'[T(u)] = row
    BY <1>5, TableRows
  <2>3. Steady(workers[u]) => Ended(row)
    <3> SUFFICES ASSUME ~Ended(row), Steady(workers[u])
                 PROVE  FALSE
      OBVIOUS
    <3>1. rows[t].status \notin {"running", "checking", "pushed", "failed", "cancelled"}
      BY DEF TableStep, Ended
    <3>2. Fits(workers[u], rows[T(u)], remote[T(u)])
      BY <1>1, <1>5, <3>1 DEF Sound, Ended
    <3> QED
      BY <1>5, <3>1, <3>2 DEF Fits, Steady, Bound, Preparing, Executing, Pushing
  <2>4. Started(rows[T(u)]) => Started(row)
    BY <1>5 DEF TableStep
  <2> QED
    BY <1>1, <2>1, <2>2, <2>3, <2>4 DEF Sound
<1> QED
  BY <1>4, <1>5

(* A row that the recovery has gone over. *)
LEMMA RecoveredRow ==
  ASSUME NEW r \in RowType, NEW b, RowShape(r, b)
  PROVE  LET n == [r EXCEPT !.status = Recovered(r.status, r.commit # NoCommit)] IN
         /\ n \in RowType /\ RowShape(n, b)
         /\ n.exec = r.exec /\ n.commit = r.commit
         /\ n.status = Recovered(r.status, r.commit # NoCommit)
         /\ n.status = "cancelled" <=> r.status = "cancelled"
         /\ n.status = "checking" => r.commit # NoCommit
<1> DEFINE s == Recovered(r.status, r.commit # NoCommit)
           n == [r EXCEPT !.status = s]
<1>1. /\ s = IF r.status = "running" \/ (r.status = "checking" /\ r.commit = NoCommit)
               THEN "failed"
             ELSE IF r.status = "pushed" THEN "awaiting_merge_approval" ELSE r.status
      /\ s \in Status \cup {"absent"}
  BY DEF Recovered, Interrupted, RowShape, RowType, Status
<1> HIDE DEF s
<1>2. n \in RowType /\ n.exec = r.exec /\ n.commit = r.commit /\ n.status = s
  BY <1>1 DEF RowType
<1> HIDE DEF n
<1>3. RowShape(n, b)
  BY <1>1, <1>2 DEF RowShape
<1>4. n.status = "cancelled" <=> r.status = "cancelled"
  BY <1>1, <1>2
<1>5. n.status = "checking" => r.commit # NoCommit
  BY <1>1, <1>2
<1> QED
  BY <1>2, <1>3, <1>4, <1>5 DEF n, s

LEMMA RecoveryRows ==
  ASSUME IInv, RecoverInterrupted
  PROVE  /\ rows' \in [Task -> RowType] /\ RowSound' /\ remote' = remote
         /\ \A t \in Task :
              /\ rows'[t].status = "cancelled" <=> rows[t].status = "cancelled"
              /\ rows'[t].status = "checking" => rows'[t].commit # NoCommit
              /\ rows'[t].exec = rows[t].exec /\ rows'[t].commit = rows[t].commit
              /\ rows'[t].status = Recovered(rows[t].status, rows[t].commit # NoCommit)
<1>1. /\ rows \in [Task -> RowType]
      /\ \A t \in Task : RowShape(rows[t], remote[t])
  BY Types DEF IInv, RowSound
<1>2. /\ remote' = remote
      /\ rows' = [t \in Task |-> [rows[t] EXCEPT !.status =
                    Recovered(rows[t].status, rows[t].commit # NoCommit)]]
  BY DEF RecoverInterrupted
<1>3. ASSUME NEW t \in Task
      PROVE  /\ rows'[t] \in RowType /\ RowShape(rows'[t], remote[t])
             /\ rows'[t].status = "cancelled" <=> rows[t].status = "cancelled"
             /\ rows'[t].status = "checking" => rows'[t].commit # NoCommit
             /\ rows'[t].exec = rows[t].exec /\ rows'[t].commit = rows[t].commit
             /\ rows'[t].status = Recovered(rows[t].status, rows[t].commit # NoCommit)
  <2>1. PICK r \in RowType : r = rows[t] /\ RowShape(r, remote[t])
    BY <1>1
  <2>2. rows'[t] = [r EXCEPT !.status = Recovered(r.status, r.commit # NoCommit)]
    BY <1>2, <2>1
  <2> QED
    BY <2>1, <2>2, RecoveredRow
<1>4. rows' \in [Task -> RowType]
  BY <1>2, <1>3
<1>5. RowSound'
  BY <1>2, <1>3 DEF RowSound
<1> QED
  BY <1>2, <1>3, <1>4, <1>5

-----------------------------------------------------------------------------
(* Each part of the invariant after any step. *)

(* The steps that leave all rows and branches as they are. *)
LEMMA NextTables ==
  ASSUME IInv, [Next]_vars
  PROVE  \/ UNCHANGED <<rows, remote>>
         \/ \E w \in Worker, n \in WorkerType, row \in RowType, b \in Branch :
              Work(w) /\ WorkStep(w, n, row, b)
         \/ \E t \in Task : \E x, row : TableStep(t, x, row) /\ UNCHANGED remote
         \/ RecoverInterrupted
<1>1. CASE \E w \in Worker : Work(w)
  BY <1>1, WorkerSteps DEF Acts, Exit
<1>2. CASE \E t \in Task : Create(t) \/ Plan(t) \/ CommitCommand(t) \/ Claim(t)
  BY <1>2, CreateSaves, PlanSaves, CommandSaves, ClaimSaves DEF TableStep
<1>3. CASE \/ \E t \in Task : \/ Interrupt(t) \/ Conflict(t) \/ ExpireLease(t)
                              \/ Stall(t) \/ \E m \in Message : Read(t, m)
           \/ ListQueued \/ ListChecking \/ ListPushed \/ EndScan \/ StartWorker
           \/ \E t \in Task : \/ Resume(t, "checking", "load_push")
                              \/ Resume(t, "pushed", "load_pushed")
           \/ \E w \in Worker : LoseLease(w) \/ Renew(w) \/ ReleaseFails(w)
           \/ AcquireFails \/ Crash \/ UNCHANGED vars
  BY <1>3 DEF Interrupt, Conflict, ExpireLease, Stall, Read, ListQueued, ListChecking,
     ListPushed, EndScan, List, StartWorker, Resume, LoseLease, Renew, ReleaseFails,
     AcquireFails, Crash, vars, handlerFrame, scanFrame, leaseFrame
<1> QED
  BY <1>1, <1>2, <1>3 DEF Next, Answer, Scan

LEMMA NextRowSound ==
  IInv /\ [Next]_vars => /\ rows' \in [Task -> RowType] /\ remote' \in [Task -> Branch]
                         /\ RowSound'
<1> SUFFICES ASSUME IInv, [Next]_vars
             PROVE  /\ rows' \in [Task -> RowType] /\ remote' \in [Task -> Branch]
                    /\ RowSound'
  OBVIOUS
<1>1. /\ rows \in [Task -> RowType] /\ remote \in [Task -> Branch] /\ RowSound
  BY Types DEF IInv
<1>2. CASE UNCHANGED <<rows, remote>>
  BY <1>1, <1>2 DEF RowSound
<1> QED
  BY <1>1, <1>2, NextTables, WorkRows, TableRows, RecoveryRows

LEMMA IdleFacts ==
  /\ Idle \in WorkerType /\ Idle.pc = "idle" /\ Idle.task = NoTask /\ ~Idle.leased
  /\ ~Idle.live /\ Idle.pc \notin Bound /\ ~Steady(Idle) /\ ~Adrift(Idle)
BY DEF Idle, WorkerType, Pc, Steady, Adrift, Bound, Preparing, Executing, Pushing

LEMMA IdleSound ==
  ASSUME NEW u \in Worker, NEW r, NEW b
  PROVE  Sound(u, Idle, r, b, FALSE)
BY IdleFacts DEF Sound, WorkerShape, Preparing, Executing, Pushing

(* A worker that is cancelled goes on as it was. *)
LEMMA LiveChange ==
  ASSUME IInv, NEW w \in Worker, workers' = [workers EXCEPT ![w].live = FALSE]
  PROVE  /\ workers' \in [Worker -> WorkerType]
         /\ \A u \in Worker :
              /\ workers'[u].pc = workers[u].pc /\ workers'[u].task = workers[u].task
              /\ workers'[u].leased = workers[u].leased
              /\ workers'[u].commit = workers[u].commit
              /\ workers'[u].live => workers[u].live
         /\ ~workers'[w].live
<1>1. PICK v \in WorkerType : v = workers[w]
  BY Types DEF IInv
<1> DEFINE n == [v EXCEPT !.live = FALSE]
<1>2. n \in WorkerType /\ n.pc = v.pc /\ n.task = v.task /\ n.leased = v.leased
      /\ n.commit = v.commit /\ ~n.live
  BY DEF WorkerType
<1>3. workers' = [workers EXCEPT ![w] = n]
  BY <1>1
<1> HIDE DEF n
<1>4. workers \in [Worker -> WorkerType]
  BY Types DEF IInv
<1>5. workers'[w] = n /\ \A u \in Worker \ {w} : workers'[u] = workers[u]
  BY <1>3, <1>4
<1>6. workers' \in [Worker -> WorkerType]
  BY <1>2, <1>3, <1>4
<1>7. ASSUME NEW u \in Worker
      PROVE  /\ workers'[u].pc = workers[u].pc /\ workers'[u].task = workers[u].task
             /\ workers'[u].leased = workers[u].leased
             /\ workers'[u].commit = workers[u].commit
             /\ workers'[u].live => workers[u].live
  BY <1>1, <1>2, <1>5
<1> QED
  BY <1>2, <1>5, <1>6, <1>7

LEMMA LiveSound ==
  ASSUME IInv, NEW w \in Worker, workers' = [workers EXCEPT ![w].live = FALSE],
         UNCHANGED <<rows, remote, current>>
  PROVE  workers' \in [Worker -> WorkerType] /\ SoundAfter
<1>1. ASSUME NEW u \in Worker
      PROVE  Sound(u, workers'[u], rows'[workers'[u].task],
                   remote'[workers'[u].task], u \in current')
  <2>1. Sound(u, workers[u], rows[T(u)], remote[T(u)], u \in current)
    BY SoundWorkers DEF IInv
  <2>2. PICK n \in WorkerType :
          /\ n = workers'[u] /\ n.pc = workers[u].pc /\ n.task = T(u)
          /\ n.leased = workers[u].leased /\ n.commit = workers[u].commit
    BY LiveChange DEF T
  <2>3. Sound(u, n, rows[T(u)], remote[T(u)], u \in current)
    BY <2>1, <2>2 DEF Sound, WorkerShape, Fits, FitsAdrift, Steady, Adrift, T
  <2> QED
    BY <2>2, <2>3
<1> QED
  BY <1>1, LiveChange DEF SoundAfter

(* A new worker. *)
LEMMA Starts ==
  ASSUME IInv, NEW w \in Worker, NEW t \in Task,
         NEW pc \in {"start", "load_push", "load_pushed"}, NEW leased \in BOOLEAN,
         Start(w, t, pc, leased)
  PROVE  \E n \in WorkerType :
           /\ workers' = [workers EXCEPT ![w] = n]
           /\ workers' \in [Worker -> WorkerType] /\ workers'[w] = n
           /\ n.pc = pc /\ n.task = t /\ n.live /\ n.leased = leased
           /\ \A u \in Worker \ {w} : workers'[u] = workers[u]
<1> DEFINE n == [Idle EXCEPT !.pc = pc, !.task = t, !.live = TRUE, !.leased = leased]
<1>1. n \in WorkerType /\ n.pc = pc /\ n.task = t /\ n.live /\ n.leased = leased
  BY DEF Idle, WorkerType, Pc, Preparing, Pushing
<1>2. workers' = [workers EXCEPT ![w] = n]
  BY DEF Start
<1>3. workers \in [Worker -> WorkerType]
  BY Types DEF IInv
<1> HIDE DEF n
<1> QED
  BY <1>1, <1>2, <1>3

LEMMA Reserves ==
  ASSUME IInv, NEW w \in Worker, workers[w].pc = "idle",
         workers' = [workers EXCEPT ![w].pc = "reserved"]
  PROVE  \E n \in WorkerType :
           /\ workers'[w] = n
           /\ workers' \in [Worker -> WorkerType]
           /\ n.pc = "reserved" /\ n.task = NoTask /\ ~n.leased
           /\ n.live = workers[w].live
           /\ \A u \in Worker \ {w} : workers'[u] = workers[u]
<1>1. PICK v \in WorkerType : v = workers[w] /\ v.task = NoTask /\ ~v.leased
  BY Types DEF IInv, WorkerSound, WorkerShape
<1> DEFINE n == [v EXCEPT !.pc = "reserved"]
<1>2. n \in WorkerType /\ n.pc = "reserved" /\ n.task = NoTask /\ ~n.leased
      /\ n.live = v.live
  BY <1>1 DEF WorkerType, Pc
<1>3. workers' = [workers EXCEPT ![w] = n]
  BY <1>1
<1>4. workers \in [Worker -> WorkerType]
  BY Types DEF IInv
<1> HIDE DEF n
<1>5. /\ workers' \in [Worker -> WorkerType]
      /\ workers'[w] = n
      /\ \A u \in Worker \ {w} : workers'[u] = workers[u]
  BY <1>2, <1>3, <1>4
<1>6. n.live = workers[w].live
  BY <1>1, <1>2
<1> QED
  BY <1>2, <1>5, <1>6

(* Copies of handlers and of the scan are not copies of workers. *)
LEMMA OtherCopies ==
  ASSUME NEW w \in Worker, NEW t \in Task
  PROVE  w # t /\ w # ScanItem(t)
<1>1. ScanItem(t) \in {"scan"} \X Task
  BY DEF ScanItem
<1> QED
  BY <1>1

(* What a scan lists are tasks. *)
LEMMA Lists ==
  ASSUME NEW phase, NEW next, NEW listed, List(phase, next, listed),
         listed \subseteq Task
  PROVE  /\ scan' = [NoScan EXCEPT !.phase = next, !.todo = listed]
         /\ \A u \in Worker : u \in current' <=> u \in current
         /\ \A u \in Task : u \in current' <=> u \in current
         /\ \A u \in Task : ScanItem(u) \in current' => u \in listed
<1>1. current' = (current \ {ScanItem(u) : u \in Task}) \cup {ScanItem(u) : u \in listed}
  BY DEF List
<1>2. \A u \in Task : ScanItem(u) \in {"scan"} \X Task
  BY DEF ScanItem
<1>3. \A u, x \in Task : ScanItem(u) = ScanItem(x) => u = x
  BY DEF ScanItem
<1>4. \A u \in Worker : u \in current' <=> u \in current
  BY <1>1, OtherCopies
<1>5. \A u \in Task : u \in current' <=> u \in current
  <2>1. \A u, x \in Task : u # ScanItem(x)
    BY <1>2
  <2> QED
    BY <1>1, <2>1
<1>6. \A u \in Task : ScanItem(u) \in current' => u \in listed
  BY <1>1, <1>3
<1> QED
  BY <1>4, <1>5, <1>6 DEF List

LEMMA Listed ==
  ASSUME NEW status
  PROVE  /\ ListByStatus(status) \subseteq Task
         /\ \A t \in ListByStatus(status) : rows[t].status = status
BY DEF ListByStatus, Oldest

LEMMA Listings ==
  ASSUME ListQueued \/ ListChecking \/ ListPushed \/ EndScan
  PROVE  \E phase, next, listed :
           /\ listed \subseteq Task /\ List(phase, next, listed)
           /\ next = "queued" => \A t \in listed : rows[t].status = "queued"
           /\ next \in {"queued", "checking", "pushed", "idle"}
<1>1. ListQueued => List("idle", "queued", ListByStatus("queued"))
  BY DEF ListQueued
<1>2. ListChecking =>
        List("queued", "checking",
             {t \in ListByStatus("checking") : rows[t].commit # NoCommit})
  BY DEF ListChecking
<1>3. ListPushed => List("checking", "pushed", ListByStatus("pushed"))
  BY DEF ListPushed
<1>4. EndScan => List("pushed", "idle", {})
  BY DEF EndScan
<1> QED
  BY <1>1, <1>2, <1>3, <1>4, Listed

LEMMA CopiesRead ==
  ASSUME \/ \E t \in Task : \/ ExpireLease(t) \/ Stall(t)
                            \/ \E m \in Message : Read(t, m)
         \/ ListQueued \/ ListChecking \/ ListPushed \/ EndScan
         \/ AcquireFails \/ UNCHANGED vars
  PROVE  \A u \in Worker : u \in current' <=> u \in current
<1>1. CASE ListQueued \/ ListChecking \/ ListPushed \/ EndScan
  BY <1>1, Listings, Lists
<1>2. CASE \E t \in Task, m \in Message : Read(t, m)
  BY <1>2, OtherCopies DEF Read
<1>3. CASE \/ \E t \in Task : ExpireLease(t) \/ Stall(t)
           \/ AcquireFails \/ UNCHANGED vars
  BY <1>3 DEF ExpireLease, Stall, AcquireFails, leaseFrame, vars
<1> QED
  BY <1>1, <1>2, <1>3

(* The store fails when a lease is acquired: by a worker, or by the scan.   *)
LEMMA AcquiresFail ==
  ASSUME AcquireFails
  PROVE  \/ \E w \in Worker : Fails(w) /\ ~Exit(w)
         \/ UNCHANGED workers /\ \E t \in scan.todo : Skip(t)
BY DEF AcquireFails, Fails, At, Exit

LEMMA NextSoundAfter ==
  IInv /\ [Next]_vars => workers' \in [Worker -> WorkerType] /\ SoundAfter
<1> SUFFICES ASSUME IInv, [Next]_vars
             PROVE  workers' \in [Worker -> WorkerType] /\ SoundAfter
  OBVIOUS
<1>0. workers \in [Worker -> WorkerType]
  BY Types DEF IInv
<1>00. ASSUME NEW u \in Worker
       PROVE  Sound(u, workers[u], rows[T(u)], remote[T(u)], u \in current)
  BY SoundWorkers DEF IInv
<1>000. ASSUME UNCHANGED <<rows, remote, workers>>,
               \A u \in Worker : u \in current' <=> u \in current
        PROVE  workers' \in [Worker -> WorkerType] /\ SoundAfter
  <2>1. ASSUME NEW u \in Worker
        PROVE  Sound(u, workers'[u], rows'[workers'[u].task],
                     remote'[workers'[u].task], u \in current')
    BY <1>00, <1>000 DEF T
  <2> QED
    BY <1>0, <1>000, <2>1 DEF SoundAfter
<1>1. CASE \E w \in Worker : Acts(w) /\ ~Exit(w)
  BY <1>1, WorkerSteps, WorkSound, WorkRest
<1>2. CASE \E w \in Worker : Work(w) /\ Exit(w)
  <2>1. PICK w \in Worker : Exit(w)
    BY <1>2
  <2>2. /\ workers' = [workers EXCEPT ![w] = Idle] /\ current' = current \ {w}
        /\ rows' = rows /\ remote' = remote
    BY <2>1 DEF Exit
  <2>3. ASSUME NEW u \in Worker
        PROVE  Sound(u, workers'[u], rows'[workers'[u].task],
                     remote'[workers'[u].task], u \in current')
    <3>1. CASE u = w
      <4>1. u \notin current'
        BY <2>2, <3>1
      <4>2. workers'[u] = Idle
        BY <1>0, <2>2, <3>1
      <4> QED
        BY <4>1, <4>2, IdleSound DEF Sound
    <3>2. CASE u # w
      <4>1. workers'[u] = workers[u] /\ (u \in current') = (u \in current)
        BY <1>0, <2>2, <3>2
      <4> QED
        BY <1>00, <2>2, <4>1 DEF T
    <3> QED
      BY <3>1, <3>2
  <2>4. workers' \in [Worker -> WorkerType]
    BY <1>0, <2>2, IdleFacts
  <2> QED
    BY <2>3, <2>4 DEF SoundAfter
<1>3. ASSUME NEW t \in Task, NEW x, NEW row, TableStep(t, x, row),
             workers' = workers \/ \E w \in Worker :
               /\ workers[w].pc = "idle" /\ workers' = [workers EXCEPT ![w].pc = "reserved"]
      PROVE  workers' \in [Worker -> WorkerType] /\ SoundAfter
  <2>1. CASE workers' = workers
    <3>1. ASSUME NEW u \in Worker
          PROVE  Sound(u, workers'[u], rows'[workers'[u].task],
                       remote'[workers'[u].task], u \in current')
      BY <1>3, <2>1, TableSound DEF T
    <3> QED
      BY <1>0, <2>1, <3>1 DEF SoundAfter
  <2>2. ASSUME NEW w \in Worker, workers[w].pc = "idle",
               workers' = [workers EXCEPT ![w].pc = "reserved"]
        PROVE  workers' \in [Worker -> WorkerType] /\ SoundAfter
    <3>1. PICK n \in WorkerType :
            /\ workers'[w] = n /\ workers' \in [Worker -> WorkerType]
            /\ n.pc = "reserved" /\ n.task = NoTask /\ ~n.leased
            /\ \A u \in Worker \ {w} : workers'[u] = workers[u]
      BY <2>2, Reserves
    <3>2. w \notin current'
      BY <1>3, <2>2, TableSound DEF Sound
    <3>3. ASSUME NEW r, NEW b
          PROVE  Sound(w, n, r, b, FALSE)
      BY <3>1 DEF Sound, WorkerShape, Steady, Bound, Preparing, Executing, Pushing
    <3>4. ASSUME NEW u \in Worker
          PROVE  Sound(u, workers'[u], rows'[workers'[u].task],
                       remote'[workers'[u].task], u \in current')
      <4>1. CASE u = w
        <5>1. u \notin current' /\ workers'[u] = n
          BY <3>1, <3>2, <4>1
        <5> QED
          BY <3>3, <4>1, <5>1 DEF Sound
      <4>2. CASE u # w
        BY <1>3, <3>1, <4>2, TableSound DEF T
      <4> QED
        BY <4>1, <4>2
    <3> QED
      BY <3>1, <3>4 DEF SoundAfter
  <2> QED
    BY <1>3, <2>1, <2>2
<1>4. CASE \E t \in Task : Create(t) \/ Plan(t) \/ CommitCommand(t) \/ Claim(t)
  <2>1. CASE UNCHANGED <<rows, remote, current, workers>>
    BY <2>1, <1>000
  <2> QED
    BY <1>3, <1>4, <2>1, CreateSaves, PlanSaves, CommandSaves, ClaimSaves
       DEF Create, Plan, CommitCommand, IdleWorker
<1>5. ASSUME NEW w \in Worker, NEW t \in Task,
             NEW pc \in {"start", "load_push", "load_pushed"}, NEW leased \in BOOLEAN,
             Start(w, t, pc, leased), workers[w].pc \in {"idle", "reserved"},
             SlotOf[w] = ProjectOf[t], leased <=> pc # "start",
             pc = "start" => rows[t].status \in {"running", "failed", "cancelled"},
             UNCHANGED <<rows, remote, current>>
      PROVE  workers' \in [Worker -> WorkerType] /\ SoundAfter
  <2>1. PICK n \in WorkerType :
          /\ workers' \in [Worker -> WorkerType] /\ workers'[w] = n
          /\ n.pc = pc /\ n.task = t /\ n.live /\ n.leased = leased
          /\ \A u \in Worker \ {w} : workers'[u] = workers[u]
    BY <1>5, Starts
  <2>2. w \notin current
    BY <1>00, <1>5 DEF Sound
  <2>3. Sound(w, n, rows[t], remote[t], w \in current)
    <3>1. WorkerShape(w, n)
      BY <1>5, <2>1 DEF WorkerShape, Preparing, Executing, Pushing
    <3>2. pc # "start" => n.pc \notin Bound
      BY <1>5, <2>1 DEF Bound
    <3>3. Ended(rows[t]) \/ (pc = "start" => Fits(n, rows[t], remote[t]))
      BY <1>5, <2>1 DEF Fits, Ended
    <3>4. n.pc \notin Saves /\ n.pc \notin {"idle", "reserved"}
      BY <1>5, <2>1 DEF Saves
    <3>5. ~Adrift(n) \/ n.pc \notin Bound
      BY <1>5, <2>1, <3>2 DEF Adrift
    <3> QED
      BY <2>2, <3>1, <3>2, <3>3, <3>4, <3>5 DEF Sound, Steady
  <2>4. ASSUME NEW u \in Worker
        PROVE  Sound(u, workers'[u], rows'[workers'[u].task],
                     remote'[workers'[u].task], u \in current')
    <3>1. CASE u = w
      BY <1>5, <2>1, <2>3, <3>1
    <3>2. CASE u # w
      BY <1>00, <1>5, <2>1, <3>2 DEF T
    <3> QED
      BY <3>1, <3>2
  <2> QED
    BY <2>1, <2>4 DEF SoundAfter
<1>6. CASE StartWorker
  <2>1. /\ scan.worker \in Worker /\ scan.task \in Task
        /\ workers[scan.worker].pc = "reserved" /\ SlotOf[scan.worker] = ProjectOf[scan.task]
        /\ rows[scan.task].status \in {"running", "failed", "cancelled"}
    BY <1>6 DEF StartWorker, IInv, ScanSound
  <2>2. /\ Start(scan.worker, scan.task, "start", FALSE)
        /\ UNCHANGED <<rows, remote, current>>
    BY <1>6 DEF StartWorker, scanFrame
  <2> QED
    BY <1>5, <2>1, <2>2
<1>7. CASE \E t \in Task : Resume(t, "checking", "load_push")
                           \/ Resume(t, "pushed", "load_pushed")
  <2>1. CASE UNCHANGED <<rows, remote, current, workers>>
    BY <2>1, <1>000
  <2>2. CASE \E t \in Task, w \in Worker, pc \in {"load_push", "load_pushed"} :
               /\ Start(w, t, pc, TRUE) /\ IdleWorker(w, t)
               /\ UNCHANGED <<rows, remote, current>>
    <3>1. PICK t \in Task, w \in Worker, pc \in {"load_push", "load_pushed"} :
            /\ Start(w, t, pc, TRUE) /\ IdleWorker(w, t)
            /\ UNCHANGED <<rows, remote, current>>
      BY <2>2
    <3>2. /\ pc \in {"start", "load_push", "load_pushed"} /\ pc # "start"
          /\ workers[w].pc \in {"idle", "reserved"} /\ SlotOf[w] = ProjectOf[t]
          /\ pc = "start" => rows[t].status \in {"running", "failed", "cancelled"}
      BY <3>1 DEF IdleWorker
    <3> DEFINE leased == TRUE
    <3>3. leased \in BOOLEAN /\ (leased <=> pc # "start") /\ Start(w, t, pc, leased)
      BY <3>1, <3>2
    <3> HIDE DEF leased
    <3> QED
      BY <1>5, <3>1, <3>2, <3>3
  <2> QED
    BY <1>7, <2>1, <2>2 DEF Resume, scanFrame
<1>8. CASE \/ \E t \in Task : Interrupt(t)
           \/ \E w \in Worker : LoseLease(w) \/ Renew(w)
  <2>1. CASE UNCHANGED <<rows, remote, current, workers>>
    BY <2>1, <1>000
  <2>2. CASE \E w \in Worker : /\ workers' = [workers EXCEPT ![w].live = FALSE]
                               /\ UNCHANGED <<rows, remote, current>>
    BY <2>2, LiveSound
  <2>3. \A t \in Task : active[t] \in Worker \cup {NoWorker}
    BY DEF IInv, TypeOK
  <2> QED
    BY <1>8, <2>1, <2>2, <2>3 DEF Interrupt, LoseLease, Renew, handlerFrame, leaseFrame
<1>12. ASSUME workers' = [w \in Worker |-> Idle], current' = {}
       PROVE  workers' \in [Worker -> WorkerType] /\ SoundAfter
  <2>1. ASSUME NEW u \in Worker
        PROVE  Sound(u, workers'[u], rows'[workers'[u].task],
                     remote'[workers'[u].task], u \in current')
    <3>1. workers'[u] = Idle /\ u \notin current'
      BY <1>12
    <3> QED
      BY <3>1, IdleSound DEF Sound
  <2>2. workers' \in [Worker -> WorkerType]
    BY <1>12, IdleFacts
  <2> QED
    BY <2>1, <2>2 DEF SoundAfter
<1>9. CASE (\E t \in Task : Conflict(t)) \/ Crash
  <2>1. workers' = [w \in Worker |-> Idle] /\ current' = {}
    BY <1>9 DEF Conflict, Crash, ProcessEnds
  <2> QED
    BY <1>12, <2>1
<1>10. CASE RecoverInterrupted
  <2>1. workers' = workers /\ workers = [w \in Worker |-> Idle] /\ current' = {}
    BY <1>10 DEF RecoverInterrupted, IInv, DownSound
  <2> QED
    BY <1>12, <2>1
<1>11. CASE \/ \E t \in Task : \/ ExpireLease(t) \/ Stall(t)
                               \/ \E m \in Message : Read(t, m)
            \/ ListQueued \/ ListChecking \/ ListPushed \/ EndScan
            \/ AcquireFails /\ UNCHANGED workers
            \/ UNCHANGED vars
  <2>1. UNCHANGED <<rows, remote, workers>>
    BY <1>11 DEF ExpireLease, Stall, Read, ListQueued, ListChecking, ListPushed,
       EndScan, List, AcquireFails, vars, handlerFrame, scanFrame, leaseFrame
  <2>2. \A u \in Worker : u \in current' <=> u \in current
    BY <1>11, CopiesRead
  <2> QED
    BY <2>1, <2>2, <1>000
<1>13. CASE AcquireFails
  BY <1>1, <1>11, <1>13, AcquiresFail DEF Acts
<1>14. CASE \E w \in Worker : ReleaseFails(w)
  <2>1. \E w \in Worker : Acts(w) /\ ~Exit(w)
    BY <1>14 DEF Acts, Fails, ReleaseFails, Exit, At
  <2> QED
    BY <1>1, <2>1
<1> QED
  BY <1>1, <1>2, <1>4, <1>6, <1>7, <1>8, <1>9, <1>10, <1>11, <1>13, <1>14
     DEF Next, Answer, Scan, Acts


(* What a step does to the workers, their leases and the mutexes.           *)
SameWorker(u) ==
  /\ workers'[u].pc = workers[u].pc /\ workers'[u].task = workers[u].task
  /\ workers'[u].leased = workers[u].leased /\ workers'[u].commit = workers[u].commit
  /\ workers'[u].live => workers[u].live

Stays ==
  /\ \A u \in Worker : SameWorker(u)
  /\ gitMu' = gitMu
  /\ \/ UNCHANGED <<lease, lapsed>>
     \/ \E t \in Task : /\ Leased(t) # {}
                        /\ Fault \/ t \in lapsed \/ \A w \in Leased(t) : ~Live(w)
                        /\ \E left \in {"held", "expired"} :
                             lease' = [lease EXCEPT ![t] = left]
                        /\ lapsed' = lapsed \cup {t}
     \/ \E t \in Task : /\ Leased(t) = {} /\ lapsed' = lapsed \ {t}
                        /\ lease' = [lease EXCEPT ![t] = "free"]

Leaves(w) ==
  /\ workers[w].pc \in {"idle", "exit"} /\ ~workers[w].leased
  /\ workers'[w].pc \in {"idle", "reserved"} /\ ~workers'[w].leased
  /\ workers'[w].task = NoTask
  /\ \A u \in Worker \ {w} : workers'[u] = workers[u]
  /\ UNCHANGED <<lease, lapsed, gitMu>>

Enters(w, t) ==
  /\ workers[w].pc \in {"idle", "reserved"} /\ ~workers[w].leased
  /\ workers'[w].task = t
  /\ \A u \in Worker \ {w} : workers'[u] = workers[u]
  /\ \/ /\ scan.phase = "register" /\ scan.task = t
        /\ workers'[w].pc = "start" /\ ~workers'[w].leased /\ lease' = lease
     \/ /\ workers'[w].pc \in {"load_push", "load_pushed"} /\ workers'[w].leased
        /\ Available(t) /\ lease' = [lease EXCEPT ![t] = "held"]
  /\ UNCHANGED <<lapsed, gitMu>> /\ scan' # scan

Ends ==
  /\ workers' = [w \in Worker |-> Idle]
  /\ lease' \in [Task -> {"free", "expired", "orphan"}] /\ lapsed' = {}
  /\ \A t \in Task : lease'[t] = "orphan" =>
       Fault \/ lease[t] = "orphan" \/ (lease[t] = "held" /\ Leased(t) = {})
  /\ gitMu' = [p \in Project |-> NoWorker] /\ scan' = NoScan

LEMMA NextWorkers ==
  ASSUME IInv, [Next]_vars
  PROVE  \/ Stays \/ Ends
         \/ \E w \in Worker, n \in WorkerType, row \in RowType, b \in Branch :
              Acts(w) /\ WorkStep(w, n, row, b)
         \/ \E w \in Worker : Leaves(w)
         \/ \E w \in Worker, t \in Task : Enters(w, t)
<1>0. /\ workers \in [Worker -> WorkerType] /\ WorkerSound /\ ScanSound /\ LeaseSound
      /\ lease \in [Task -> {"free", "held", "expired", "orphan"}]
  BY Types DEF IInv, TypeOK
<1>00. \A w \in Worker : workers[w].pc \in {"idle", "reserved", "exit"} => ~workers[w].leased
  BY <1>0 DEF WorkerSound, WorkerShape
<1>1. CASE \E w \in Worker : Acts(w) /\ ~Exit(w)
  BY <1>1, WorkerSteps
<1>2. CASE \E w \in Worker : Work(w) /\ Exit(w)
  <2>1. PICK w \in Worker : Work(w) /\ Exit(w)
    BY <1>2
  <2>2. /\ workers[w].pc = "exit" /\ workers' = [workers EXCEPT ![w] = Idle]
        /\ UNCHANGED <<lease, lapsed, gitMu>>
    BY <2>1 DEF Exit, ReleaseLease, Work, At
  <2>3. workers'[w] = Idle /\ \A u \in Worker \ {w} : workers'[u] = workers[u]
    BY <1>0, <2>2
  <2>4. Leaves(w)
    BY <1>00, <2>2, <2>3, IdleFacts DEF Leaves
  <2> QED
    BY <2>4
<1>3. CASE \E t \in Task : Claim(t)
  <2>1. PICK t \in Task : Claim(t)
    BY <1>3
  <2>2. UNCHANGED <<lease, lapsed, gitMu>>
    BY <2>1 DEF Claim, scanFrame
  <2>3. CASE workers' = workers
    BY <2>2, <2>3 DEF Stays, SameWorker
  <2>4. CASE \E w \in Worker : /\ workers[w].pc = "idle"
                               /\ workers' = [workers EXCEPT ![w].pc = "reserved"]
    <3>1. PICK w \in Worker : /\ workers[w].pc = "idle"
                              /\ workers' = [workers EXCEPT ![w].pc = "reserved"]
      BY <2>4
    <3>2. /\ workers'[w].pc = "reserved" /\ workers'[w].task = NoTask
          /\ ~workers'[w].leased
          /\ \A u \in Worker \ {w} : workers'[u] = workers[u]
      BY <3>1, Reserves
    <3>3. Leaves(w)
      BY <1>00, <2>2, <3>1, <3>2 DEF Leaves
    <3> QED
      BY <3>3
  <2> QED
    BY <2>1, <2>3, <2>4, ClaimSaves DEF IdleWorker
<1>4. CASE StartWorker
  <2>1. /\ scan.worker \in Worker /\ scan.task \in Task /\ scan.phase = "register"
        /\ workers[scan.worker].pc = "reserved"
        /\ Start(scan.worker, scan.task, "start", FALSE)
        /\ UNCHANGED <<lease, lapsed, gitMu>>
    BY <1>0, <1>4 DEF StartWorker, ScanSound, scanFrame
  <2>3. scan' # scan
    BY <1>4 DEF StartWorker, IInv, TypeOK
  <2> DEFINE leased == FALSE
  <2>2. leased \in BOOLEAN /\ Start(scan.worker, scan.task, "start", leased) /\ ~leased
    BY <2>1
  <2> HIDE DEF leased
  <2>4. Enters(scan.worker, scan.task)
    BY <1>00, <2>1, <2>2, <2>3, Starts DEF Enters
  <2> QED
    BY <2>1, <2>4
<1>5. ASSUME NEW t \in Task, NEW phase, NEW pc \in {"load_push", "load_pushed"},
             Resume(t, phase, pc)
      PROVE  Stays \/ \E w \in Worker : Enters(w, t)
  <2>1. CASE UNCHANGED <<lease, workers, active>>
    BY <1>5, <2>1 DEF Stays, SameWorker, Resume, scanFrame
  <2>2. CASE \E w \in Worker : /\ workers[w].pc = "idle" /\ Available(t)
                               /\ lease' = [lease EXCEPT ![t] = "held"]
                               /\ Start(w, t, pc, TRUE)
    <3>1. PICK w \in Worker : /\ workers[w].pc = "idle" /\ Available(t)
                              /\ lease' = [lease EXCEPT ![t] = "held"]
                              /\ Start(w, t, pc, TRUE)
      BY <2>2
    <3>3. /\ workers'[w].pc = pc /\ workers'[w].task = t /\ workers'[w].leased
          /\ \A u \in Worker \ {w} : workers'[u] = workers[u]
      <4>1. workers' = [workers EXCEPT ![w] = [Idle EXCEPT !.pc = pc, !.task = t, !.live = TRUE, !.leased = TRUE]]
        BY <3>1 DEF Start
      <4> QED
        BY <1>0, <4>1 DEF Idle
    <3>4. scan' # scan
      BY <1>5 DEF Resume, Skip, IInv, TypeOK
    <3>5. Enters(w, t)
      BY <1>00, <1>5, <3>1, <3>3, <3>4 DEF Enters, Resume, scanFrame
    <3> QED
      BY <3>5
  <2> QED
    BY <1>5, <2>1, <2>2 DEF Resume, IdleWorker
<1>6. CASE \/ \E t \in Task : Interrupt(t)
           \/ \E w \in Worker : LoseLease(w)
           \/ \E w \in Worker : Renew(w) /\ lease' = lease
  <2>1. UNCHANGED <<lease, lapsed, gitMu>>
    BY <1>6 DEF Interrupt, LoseLease, Renew, handlerFrame, leaseFrame
  <2>2. \A t \in Task : active[t] \in Worker \cup {NoWorker}
    BY DEF IInv, TypeOK
  <2>3. \/ workers' = workers
        \/ \E w \in Worker : workers' = [workers EXCEPT ![w].live = FALSE]
    BY <1>6, <2>2 DEF Interrupt, LoseLease, Renew
  <2> QED
    BY <2>1, <2>3, LiveChange DEF Stays, SameWorker
<1>7. CASE (\E t \in Task : Conflict(t)) \/ Crash
  <2>1. ProcessEnds /\ lease' \in [Task -> {"free", "expired", "orphan"}]
    <3>1. \A t \in Task : LeftBehind(t) \in {"free", "expired", "orphan"}
      BY <1>0 DEF LeftBehind
    <3> QED
      BY <1>7, <3>1 DEF Conflict, Crash
  <2>2. ASSUME NEW t \in Task, lease'[t] = "orphan", ~Fault
        PROVE  lease[t] = "orphan" \/ (lease[t] = "held" /\ Leased(t) = {})
    <3>1. lease'[t] = IF Leased(t) # {} THEN "free" ELSE LeftBehind(t)
      BY <1>7, <2>2 DEF Conflict, Crash
    <3> QED
      BY <2>2, <3>1 DEF LeftBehind
  <2> QED
    BY <2>1, <2>2 DEF ProcessEnds, Ends
<1>8. CASE \/ \E t \in Task : \/ Create(t) \/ Plan(t) \/ CommitCommand(t)
                              \/ \E m \in Message : Read(t, m)
           \/ ListQueued \/ ListChecking \/ ListPushed \/ EndScan
           \/ AcquireFails /\ UNCHANGED workers
           \/ RecoverInterrupted \/ UNCHANGED vars
  BY <1>8 DEF Stays, SameWorker, Create, Plan, CommitCommand, Read, ListQueued,
     ListChecking, ListPushed, EndScan, List, AcquireFails, RecoverInterrupted, vars,
     handlerFrame, scanFrame, leaseFrame
<1>9. CASE \E t \in Task : Stall(t) \/ ExpireLease(t)
  <2>1. PICK t \in Task : Stall(t) \/ ExpireLease(t)
    BY <1>9
  <2>2. \A u \in Worker : SameWorker(u) /\ gitMu' = gitMu
    BY <2>1 DEF SameWorker, Stall, ExpireLease, leaseFrame
  <2>3. \/ /\ Leased(t) # {}
           /\ Fault \/ \A w \in Leased(t) : ~Live(w)
           /\ lease' = [lease EXCEPT ![t] = "expired"] /\ lapsed' = lapsed \cup {t}
        \/ /\ Leased(t) = {} /\ lapsed' = lapsed \ {t}
           /\ lease' = [lease EXCEPT ![t] = "free"]
    BY <2>1 DEF Stall, ExpireLease
  <2>4. gitMu' = gitMu
    BY <2>1 DEF Stall, ExpireLease, leaseFrame
  <2> QED
    BY <2>2, <2>3, <2>4 DEF Stays
<1>10. CASE \E w \in Worker : Renew(w) /\ lease' # lease
  <2>1. PICK w \in Worker : Renew(w) /\ lease' # lease
    BY <1>10
  <2>2. /\ workers[w].leased /\ lease[T(w)] = "expired"
        /\ lease' = [lease EXCEPT ![T(w)] = "held"]
        /\ UNCHANGED <<workers, lapsed, gitMu>>
    BY <2>1 DEF Renew, leaseFrame
  <2>3. T(w) \in Task /\ T(w) \in lapsed
    BY <1>0, <2>2 DEF LeaseSound, WorkerSound, WorkerShape, T
  <2>4. lapsed' = lapsed \cup {T(w)} /\ Leased(T(w)) # {}
    BY <2>2, <2>3 DEF Leased, T
  <2> QED
    BY <2>2, <2>3, <2>4 DEF Stays, SameWorker
<1>11. CASE AcquireFails
  BY <1>1, <1>8, <1>11, AcquiresFail DEF Acts
<1>12. CASE \E w \in Worker : ReleaseFails(w)
  <2>1. \E w \in Worker : Acts(w) /\ ~Exit(w)
    BY <1>12 DEF Acts, Fails, ReleaseFails, Exit, At
  <2> QED
    BY <1>1, <2>1
<1> QED
  BY <1>1, <1>2, <1>3, <1>4, <1>5, <1>6, <1>7, <1>8, <1>9, <1>10, <1>11, <1>12
     DEF Next, Answer, Scan, Acts

(* A lease that was lost stays lost until its worker is gone.               *)
LEMMA StillLapsed ==
  ASSUME IInv, [Next]_vars, NEW u \in Worker,
         workers'[u].leased, workers'[u].task \in lapsed
  PROVE  workers'[u].task \in lapsed'
<1>1. workers'[u].task \in Task
  BY DEF IInv, TypeOK
<1>2. CASE Stays
  BY <1>1, <1>2 DEF Stays, SameWorker, Leased
<1>3. CASE Ends
  BY <1>3, IdleFacts DEF Ends
<1>4. CASE \E w \in Worker, n \in WorkerType, row \in RowType, b \in Branch :
             WorkStep(w, n, row, b)
  <2>1. PICK w \in Worker, n \in WorkerType, row \in RowType, b \in Branch :
          WorkStep(w, n, row, b)
    BY <1>4
  <2>2. /\ workers'[w] = n /\ n.task = T(w)
        /\ \A x \in Worker \ {w} : workers'[x] = workers[x]
    BY <2>1, WorkRest
  <2>3. ASSUME Leased(T(w)) = {w}, ~n.leased
        PROVE  workers'[u].task # T(w)
    <3>1. u # w /\ workers'[u] = workers[u]
      BY <2>2, <2>3
    <3> QED
      BY <2>3, <3>1 DEF Leased, T
  <2> QED
    BY <2>1, <2>3 DEF WorkStep, Leases
<1>5. CASE (\E w \in Worker : Leaves(w)) \/ \E w \in Worker, t \in Task : Enters(w, t)
  BY <1>5 DEF Leaves, Enters
<1> QED
  BY <1>2, <1>3, <1>4, <1>5, NextWorkers

LEMMA StillAdrift ==
  ASSUME IInv, [Next]_vars, NEW u \in Worker
  PROVE  /\ Steady(workers[u])' => Steady(workers'[u])
         /\ Drives(workers[u])' => Drives(workers'[u])
BY StillLapsed DEF Drives, Steady, Adrift

LEMMA NextWorkerSound ==
  IInv /\ [Next]_vars => workers' \in [Worker -> WorkerType] /\ WorkerSound'
<1> SUFFICES ASSUME IInv, [Next]_vars
             PROVE  workers' \in [Worker -> WorkerType] /\ WorkerSound'
  OBVIOUS
<1>1. workers' \in [Worker -> WorkerType] /\ SoundAfter
  BY NextSoundAfter
<1>2. ASSUME NEW u \in Worker
      PROVE  LET v == workers'[u]
                 r == rows'[workers'[u].task]
                 b == remote'[workers'[u].task]
             IN  /\ WorkerShape(u, v)
                 /\ v.pc \in {"idle", "reserved"} => u \notin current'
                 /\ Steady(workers[u])' =>
                      \/ Ended(r) /\ u \notin current'
                      \/ Fits(v, r, b) /\ (v.pc \in Saves => u \in current')
                 /\ Adrift(workers[u])' /\ v.pc \in Bound =>
                      Started(r) /\ (u \in current' => FitsAdrift(v, r, b))
  <2> DEFINE v == workers'[u]
             r == rows'[workers'[u].task]
             b == remote'[workers'[u].task]
  <2>1. Sound(u, v, r, b, u \in current')
    BY <1>1 DEF SoundAfter
  <2>2. Adrift(workers[u])' => v.leased /\ v.pc \notin {"load_commit", "save_commit"}
    BY DEF Adrift
  <2>3. Steady(workers[u])' => Steady(v)
    BY StillAdrift
  <2> HIDE DEF v, r, b
  <2>4. ASSUME v.pc \in Bound, v.leased, v.pc \notin {"load_commit", "save_commit"}
        PROVE  Started(r) /\ (u \in current' => FitsAdrift(v, r, b))
    <3>1. CASE Adrift(v)
      BY <2>1, <2>4, <3>1 DEF Sound
    <3>2. CASE Steady(v)
      <4>1. WorkerShape(u, v) /\ ((Ended(r) /\ u \notin current') \/ Fits(v, r, b))
        BY <2>1, <3>2 DEF Sound
      <4>2. Ended(r) => Started(r)
        BY DEF Ended, Started
      <4> QED
        BY <2>4, <4>1, <4>2, FitsAnyway
    <3> QED
      BY <2>4, <3>1, <3>2 DEF Steady
  <2>5. /\ WorkerShape(u, v)
        /\ v.pc \in {"idle", "reserved"} => u \notin current'
        /\ Steady(v) => \/ Ended(r) /\ u \notin current'
                        \/ Fits(v, r, b) /\ (v.pc \in Saves => u \in current')
    BY <2>1 DEF Sound
  <2>6. /\ Steady(workers[u])' =>
             \/ Ended(r) /\ u \notin current'
             \/ Fits(v, r, b) /\ (v.pc \in Saves => u \in current')
        /\ Adrift(workers[u])' /\ v.pc \in Bound =>
             Started(r) /\ (u \in current' => FitsAdrift(v, r, b))
    BY <2>2, <2>3, <2>4, <2>5
  <2> QED
    BY <2>5, <2>6 DEF v, r, b
<1> QED
  BY <1>1, <1>2 DEF WorkerSound, T

LEMMA NextOneDriver ==
  IInv /\ [Next]_vars => OneDriver'
<1> SUFFICES ASSUME IInv, [Next]_vars,
                    NEW u \in Worker, NEW w \in Worker, u # w,
                    Drives(workers'[u]), Drives(workers'[w]),
                    workers'[u].task = workers'[w].task
             PROVE  FALSE
  BY StillAdrift DEF OneDriver, T
<1>0. /\ WorkerSound /\ OneDriver /\ LeaseSound /\ ScanSound
  BY DEF IInv
<1>1. CASE Stays
  <2>1. Drives(workers[u]) /\ Drives(workers[w]) /\ T(u) = T(w)
    BY <1>1 DEF Stays, SameWorker, Drives, Steady, Adrift, T
  <2> QED
    BY <1>0, <2>1 DEF OneDriver
<1>2. CASE Ends
  BY <1>2, IdleFacts DEF Ends, Drives
<1>3. ASSUME NEW x \in Worker, NEW y \in Worker, x # y,
             Drives(workers'[x]), Drives(workers'[y]),
             workers'[x].task = workers'[y].task,
             NEW n \in WorkerType, NEW row, NEW b, WorkStep(x, n, row, b)
      PROVE  FALSE
  <2>1. workers'[x] = n /\ n.task = T(x) /\ workers'[y] = workers[y]
    BY <1>3, WorkRest
  <2>2. Drives(workers[y]) /\ T(x) = T(y) /\ Drives(n)
    BY <1>3, <2>1 DEF T
  <2>3. Resumes(x)
    BY <1>0, <1>3, <2>2 DEF WorkStep, OneDriver
  <2>4. /\ workers[x].leased /\ T(x) \notin lapsed
        /\ \/ rows[T(y)].status = "checking" /\ rows[T(y)].commit # NoCommit
           \/ rows[T(y)].status = "pushed"
    BY <2>2, <2>3 DEF Resumes
  <2>5. workers[y].pc \in Bound /\ Fits(workers[y], rows[T(y)], remote[T(y)])
    BY <1>0, <2>2, <2>4 DEF Drives, Steady, WorkerSound, Ended
  <2>6. workers[y].leased
    <3>1. workers[y].pc \in {"load_commit", "save_commit", "push_wait", "push", "to_pushed",
                             "to_awaiting"}
      BY <2>2, <2>4, <2>5 DEF Fits, Drives, Steady, Bound, Preparing, Executing, Pushing
    <3> QED
      BY <1>0, <3>1 DEF WorkerSound, WorkerShape, Pushing
  <2> QED
    BY <1>0, <1>3, <2>2, <2>4, <2>6 DEF LeaseSound
<1>4. CASE \E x \in Worker, n \in WorkerType, row \in RowType, b \in Branch :
             WorkStep(x, n, row, b)
  <2>1. PICK x \in Worker, n \in WorkerType, row \in RowType, b \in Branch :
          WorkStep(x, n, row, b)
    BY <1>4
  <2>2. CASE x = u
    BY <1>3, <2>1, <2>2
  <2>3. CASE x = w
    BY <1>3, <2>1, <2>3
  <2>4. CASE x # u /\ x # w
    <3>1. workers'[u] = workers[u] /\ workers'[w] = workers[w]
      BY <2>1, <2>4, WorkRest
    <3> QED
      BY <1>0, <3>1 DEF OneDriver, T
  <2> QED
    BY <2>2, <2>3, <2>4
<1>5. CASE \E x \in Worker : Leaves(x)
  <2>1. PICK x \in Worker : Leaves(x)
    BY <1>5
  <2>2. x # u /\ x # w
    BY <2>1 DEF Leaves, Drives, Steady, Bound, Preparing, Executing, Pushing
  <2> QED
    BY <1>0, <2>1, <2>2 DEF Leaves, OneDriver, T
<1>6. CASE \E x \in Worker, t \in Task : Enters(x, t)
  <2>1. PICK x \in Worker, t \in Task : Enters(x, t)
    BY <1>6
  <2>2. CASE x # u /\ x # w
    BY <1>0, <2>1, <2>2 DEF Enters, OneDriver, T
  <2>3. ASSUME NEW y \in Worker, y # x, Drives(workers'[x]), Drives(workers'[y]),
               workers'[x].task = workers'[y].task
        PROVE  FALSE
    <3>1. scan.phase = "register" /\ scan.task = t
      BY <2>1, <2>3 DEF Enters, Drives, Steady, Bound
    <3>2. Drives(workers[y]) /\ T(y) = t
      BY <2>1, <2>3 DEF Enters, T
    <3> QED
      BY <1>0, <3>1, <3>2 DEF ScanSound
  <2> QED
    BY <2>2, <2>3
<1> QED
  BY <1>1, <1>2, <1>4, <1>5, <1>6, NextWorkers

LEMMA NextLeaseSound ==
  IInv /\ [Next]_vars => LeaseSound'
<1> SUFFICES ASSUME IInv, [Next]_vars
             PROVE  LeaseSound'
  OBVIOUS
<1>0. LeaseSound /\ lease \in [Task -> {"free", "held", "expired", "orphan"}]
  BY DEF IInv, TypeOK
<1>00. \A w \in Worker : workers[w].leased => T(w) \in Task
  BY DEF IInv, TypeOK, WorkerSound, WorkerShape, T
<1>1. CASE Stays
  <2>1. \A w \in Worker : /\ workers'[w].task = T(w)
                          /\ workers'[w].leased = workers[w].leased
    BY <1>1 DEF Stays, SameWorker, T
  <2>2. CASE UNCHANGED <<lease, lapsed>>
    BY <1>0, <1>00, <2>1, <2>2 DEF LeaseSound, T
  <2>3. CASE \E t \in Task : lapsed' = lapsed \cup {t} /\ \E left \in {"held", "expired"} :
               lease' = [lease EXCEPT ![t] = left]
    <3>1. PICK t \in Task : lapsed' = lapsed \cup {t} /\ \E left \in {"held", "expired"} :
            lease' = [lease EXCEPT ![t] = left]
      BY <2>3
    <3>2. \A x \in Task \ lapsed' : x \notin lapsed /\ lease'[x] = lease[x]
      BY <1>0, <3>1
    <3> QED
      BY <1>0, <1>00, <2>1, <3>2 DEF LeaseSound, T
  <2>4. CASE \E t \in Task : /\ Leased(t) = {} /\ lapsed' = lapsed \ {t}
                             /\ lease' = [lease EXCEPT ![t] = "free"]
    <3>1. PICK t \in Task : /\ Leased(t) = {} /\ lapsed' = lapsed \ {t}
                           /\ lease' = [lease EXCEPT ![t] = "free"]
      BY <2>4
    <3>2. \A w \in Worker : workers[w].leased => T(w) # t
      BY <3>1 DEF Leased, T
    <3>3. lease'[t] = "free" /\ \A x \in Task \ {t} : lease'[x] = lease[x]
      BY <1>0, <3>1
    <3> QED
      BY <1>0, <1>00, <2>1, <3>1, <3>2, <3>3 DEF LeaseSound, T
  <2> QED
    BY <1>1, <2>2, <2>3, <2>4 DEF Stays
<1>2. CASE Ends
  BY <1>2, IdleFacts DEF Ends, LeaseSound
<1>3. CASE \E w \in Worker, n \in WorkerType, row \in RowType, b \in Branch :
             WorkStep(w, n, row, b)
  <2>1. PICK w \in Worker, n \in WorkerType, row \in RowType, b \in Branch :
          WorkStep(w, n, row, b)
    BY <1>3
  <2>2. /\ workers'[w] = n /\ n.task = T(w) /\ T(w) \in Task
        /\ \A u \in Worker \ {w} : workers'[u] = workers[u]
    BY <2>1, WorkRest, WorkRows
  <2>3. CASE UNCHANGED <<lease, lapsed>> /\ n.leased = workers[w].leased
    <3>1. \A u \in Worker : /\ workers'[u].task = T(u)
                            /\ workers'[u].leased = workers[u].leased
      BY <2>2, <2>3 DEF T
    <3> QED
      BY <1>0, <2>3, <3>1 DEF LeaseSound, T
  <2>4. CASE /\ Available(T(w)) /\ lease' = [lease EXCEPT ![T(w)] = "held"]
             /\ lapsed' = lapsed /\ ~workers[w].leased /\ n.leased
    <3>1. \A t \in Task : lease'[t] = "held" <=> t = T(w) \/ lease[t] = "held"
      BY <1>0, <2>2, <2>4
    <3>2. \A u \in Worker : workers'[u].leased =>
            \/ u = w
            \/ workers[u].leased /\ (T(u) = T(w) => T(w) \in lapsed)
      BY <1>0, <2>2, <2>4 DEF LeaseSound, Available
    <3>3. \A u \in Worker : /\ workers'[u].task = T(u)
                            /\ workers[u].leased => workers'[u].leased
      BY <2>2, <2>4 DEF T
    <3> QED
      BY <1>0, <1>00, <2>2, <2>4, <3>1, <3>2, <3>3 DEF LeaseSound, T
  <2>5. CASE /\ lease' = [lease EXCEPT ![T(w)] = "free"]
             /\ lapsed' = IF Leased(T(w)) = {w} THEN lapsed \ {T(w)} ELSE lapsed
             /\ workers[w].leased /\ ~n.leased
    <3>1. \A t \in Task : lease'[t] = "held" <=> t # T(w) /\ lease[t] = "held"
      BY <1>0, <2>2, <2>5
    <3>2. \A u \in Worker : /\ workers'[u].task = T(u)
                            /\ workers'[u].leased <=> u # w /\ workers[u].leased
      BY <2>2, <2>5 DEF T
    <3>3. T(w) \notin lapsed' => \A u \in Worker : workers'[u].leased => T(u) # T(w)
      <4>1. CASE Leased(T(w)) = {w}
        BY <3>2, <4>1 DEF Leased, T
      <4>2. CASE Leased(T(w)) # {w}
        <5>1. \E u \in Worker \ {w} : workers[u].leased /\ T(u) = T(w)
          BY <2>5, <4>2 DEF Leased, T
        <5> QED
          BY <1>0, <2>5, <4>2, <5>1 DEF LeaseSound
      <4> QED
        BY <4>1, <4>2
    <3>4. \A t \in Task \ {T(w)} : t \in lapsed' <=> t \in lapsed
      BY <2>5
    <3> QED
      BY <1>0, <1>00, <3>1, <3>2, <3>3, <3>4 DEF LeaseSound, T
  <2>6. CASE /\ lease' = lease /\ lapsed' = lapsed \cup {T(w)}
             /\ workers[w].leased /\ ~n.leased
    <3>1. \A u \in Worker : /\ workers'[u].task = T(u)
                            /\ workers'[u].leased <=> u # w /\ workers[u].leased
      BY <2>2, <2>6 DEF T
    <3> QED
      BY <1>0, <1>00, <2>6, <3>1 DEF LeaseSound, T
  <2> QED
    BY <2>1, <2>3, <2>4, <2>5, <2>6 DEF WorkStep, Leases
<1>4. CASE \E w \in Worker : Leaves(w)
  <2>1. PICK w \in Worker : Leaves(w)
    BY <1>4
  <2>2. \A u \in Worker : workers'[u].leased <=> workers[u].leased
    BY <2>1 DEF Leaves
  <2>3. \A u \in Worker : workers[u].leased => workers'[u].task = T(u)
    BY <2>1 DEF Leaves, T
  <2> QED
    BY <1>0, <2>1, <2>2, <2>3 DEF Leaves, LeaseSound, T
<1>5. CASE \E w \in Worker, t \in Task : Enters(w, t)
  <2>1. PICK w \in Worker, t \in Task : Enters(w, t)
    BY <1>5
  <2>2. CASE ~workers'[w].leased
    <3>1. \A u \in Worker : workers'[u].leased <=> workers[u].leased
      BY <2>1, <2>2 DEF Enters
    <3>2. \A u \in Worker : workers[u].leased => workers'[u].task = T(u)
      BY <2>1 DEF Enters, T
    <3> QED
      BY <1>0, <2>1, <2>2, <3>1, <3>2 DEF Enters, LeaseSound, T
  <2>3. CASE workers'[w].leased
    <3>1. \A x \in Task : lease'[x] = "held" <=> x = t \/ lease[x] = "held"
      BY <1>0, <2>1, <2>3 DEF Enters
    <3>2. \A u \in Worker : workers'[u].leased =>
            \/ u = w
            \/ /\ workers[u].leased /\ workers'[u].task = T(u)
               /\ T(u) = t => t \in lapsed
      BY <1>0, <2>1, <2>3 DEF LeaseSound, Enters, Available, T
    <3>3. \A u \in Worker : workers[u].leased =>
            workers'[u].task = T(u) /\ workers'[u].leased
      BY <2>1 DEF Enters, T
    <3> QED
      BY <1>0, <1>00, <2>1, <2>3, <3>1, <3>2, <3>3 DEF LeaseSound, Enters, T
  <2> QED
    BY <2>2, <2>3
<1> QED
  BY <1>1, <1>2, <1>3, <1>4, <1>5, NextWorkers

LEMMA NextMutexSound ==
  IInv /\ [Next]_vars => MutexSound' /\ gitMu' \in [Project -> Worker \cup {NoWorker}]
<1> SUFFICES ASSUME IInv, [Next]_vars
             PROVE  MutexSound' /\ gitMu' \in [Project -> Worker \cup {NoWorker}]
  OBVIOUS
<1>0. MutexSound /\ gitMu \in [Project -> Worker \cup {NoWorker}]
  BY DEF IInv, TypeOK
<1>1. CASE Stays
  BY <1>0, <1>1 DEF Stays, SameWorker, MutexSound
<1>2. CASE Ends
  <2>1. \A w \in Worker : SlotOf[w] \in Project /\ w # NoWorker
    OBVIOUS
  <2> QED
    BY <1>2, <2>1, IdleFacts DEF Ends, MutexSound
<1>3. CASE \E w \in Worker, n \in WorkerType, row \in RowType, b \in Branch :
             WorkStep(w, n, row, b)
  <2>1. PICK w \in Worker, n \in WorkerType, row \in RowType, b \in Branch :
          WorkStep(w, n, row, b)
    BY <1>3
  <2>2. /\ workers'[w] = n /\ SlotOf[w] \in Project
        /\ \A u \in Worker \ {w} : workers'[u] = workers[u]
    BY <2>1, WorkRest
  <2>3. CASE gitMu' = gitMu /\ ~Locked(workers[w].pc) /\ ~Locked(n.pc)
    BY <1>0, <2>2, <2>3 DEF MutexSound, Locked
  <2>4. CASE /\ gitMu[SlotOf[w]] = NoWorker /\ gitMu' = [gitMu EXCEPT ![SlotOf[w]] = w]
             /\ ~Locked(workers[w].pc) /\ Locked(n.pc)
    BY <1>0, <2>2, <2>4 DEF MutexSound, Locked
  <2>5. CASE /\ gitMu' = [gitMu EXCEPT ![SlotOf[w]] = NoWorker]
             /\ Locked(workers[w].pc) /\ ~Locked(n.pc)
    BY <1>0, <2>2, <2>5 DEF MutexSound, Locked
  <2> QED
    BY <2>1, <2>3, <2>4, <2>5 DEF WorkStep, Locks
<1>4. CASE \E w \in Worker : Leaves(w)
  <2>1. PICK w \in Worker : Leaves(w)
    BY <1>4
  <2>2. \A u \in Worker : Locked(workers'[u].pc) <=> Locked(workers[u].pc)
    BY <2>1 DEF Leaves, Locked
  <2> QED
    BY <1>0, <2>1, <2>2 DEF Leaves, MutexSound, Locked
<1>5. CASE \E w \in Worker, t \in Task : Enters(w, t)
  <2>1. PICK w \in Worker, t \in Task : Enters(w, t)
    BY <1>5
  <2>2. \A u \in Worker : Locked(workers'[u].pc) <=> Locked(workers[u].pc)
    BY <2>1 DEF Enters, Locked
  <2> QED
    BY <1>0, <2>1, <2>2 DEF Enters, MutexSound, Locked
<1> QED
  BY <1>1, <1>2, <1>3, <1>4, <1>5, NextWorkers

(* The copies of the workers are read by their own steps alone.             *)
LEMMA NextCopies ==
  ASSUME IInv, [Next]_vars
  PROVE  \/ \E w \in Worker, n \in WorkerType, row \in RowType, b \in Branch :
              WorkStep(w, n, row, b)
         \/ \A u \in Worker : u \in current' => u \in current
<1>1. CASE \E w \in Worker : Acts(w) /\ ~Exit(w)
  BY <1>1, WorkerSteps
<1>2. CASE \E w \in Worker : Exit(w)
  BY <1>2 DEF Exit
<1>3. ASSUME NEW t \in Task, NEW x, NEW row, TableStep(t, x, row)
      PROVE  \A u \in Worker : u \in current' => u \in current
  BY <1>3, OtherCopies DEF TableStep
<1>4. CASE \E t \in Task : Create(t) \/ Plan(t) \/ CommitCommand(t) \/ Claim(t)
  BY <1>3, <1>4, CreateSaves, PlanSaves, CommandSaves, ClaimSaves
<1>5. CASE \/ \E t \in Task : \/ Interrupt(t) \/ Resume(t, "checking", "load_push")
                              \/ Resume(t, "pushed", "load_pushed")
           \/ \E w \in Worker : LoseLease(w) \/ Renew(w) \/ ReleaseFails(w)
           \/ StartWorker \/ RecoverInterrupted
  BY <1>5 DEF Interrupt, Resume, LoseLease, Renew, ReleaseFails, StartWorker,
     RecoverInterrupted, leaseFrame
<1>6. CASE Crash \/ \E t \in Task : Conflict(t)
  BY <1>6 DEF Crash, Conflict, ProcessEnds
<1>7. CASE \/ \E t \in Task : \/ ExpireLease(t) \/ Stall(t)
                              \/ \E m \in Message : Read(t, m)
           \/ ListQueued \/ ListChecking \/ ListPushed \/ EndScan
           \/ AcquireFails \/ UNCHANGED vars
  BY <1>7, CopiesRead
<1> QED
  BY <1>1, <1>2, <1>4, <1>5, <1>6, <1>7 DEF Next, Answer, Scan, Acts

(* Workers that push are where they were, unless one of them moves.         *)
LEMMA PushesStay ==
  ASSUME IInv, [Next]_vars,
         ~ \E w \in Worker, n \in WorkerType, row \in RowType, b \in Branch :
             WorkStep(w, n, row, b),
         NEW u \in Worker, workers'[u].pc \in {"push", "to_pushed"}
  PROVE  /\ workers'[u].pc = workers[u].pc /\ workers'[u].task = T(u)
         /\ workers'[u].commit = workers[u].commit /\ T(u) \in Task
<1>1. ASSUME SameWorker(u)
      PROVE  /\ workers'[u].pc = workers[u].pc /\ workers'[u].task = T(u)
             /\ workers'[u].commit = workers[u].commit /\ T(u) \in Task
  <2>1. workers[u].pc \in {"push", "to_pushed"}
    BY <1>1 DEF SameWorker
  <2>2. T(u) \in Task
    BY <2>1, AtWork
  <2> QED
    BY <1>1, <2>2 DEF SameWorker, T
<1>2. CASE Stays
  BY <1>1, <1>2 DEF Stays
<1>3. ~Ends
  BY IdleFacts DEF Ends
<1>4. ASSUME NEW w \in Worker, workers'[w].pc \notin {"push", "to_pushed"},
             \A x \in Worker \ {w} : workers'[x] = workers[x]
      PROVE  SameWorker(u)
  <2>1. u # w /\ workers'[u] = workers[u]
    BY <1>4
  <2> QED
    BY <2>1 DEF SameWorker
<1>5. CASE \E w \in Worker : Leaves(w)
  BY <1>1, <1>4, <1>5 DEF Leaves
<1>6. CASE \E w \in Worker, t \in Task : Enters(w, t)
  BY <1>1, <1>4, <1>6 DEF Enters
<1> QED
  BY <1>2, <1>3, <1>5, <1>6, NextWorkers

LEMMA NextPushSound ==
  IInv /\ [Next]_vars => PushSound'
<1> SUFFICES ASSUME IInv, [Next]_vars,
                    NEW v \in Worker, workers'[v].pc = "push",
                    \/ rows'[workers'[v].task].status \in {"pushed", "awaiting_merge_approval"}
                    \/ \E w \in Worker : /\ workers'[w].task = workers'[v].task
                                         /\ workers'[w].pc = "to_pushed" /\ w \in current'
             PROVE  workers'[v].commit = rows'[workers'[v].task].commit
  BY DEF PushSound, T
<1>0. PushSound /\ MutexSound /\ WorkerSound /\ TypeOK
  BY DEF IInv
<1>1. ASSUME NEW x \in Worker, NEW n \in WorkerType, NEW row \in RowType, NEW b \in Branch,
             WorkStep(x, n, row, b)
      PROVE  workers'[v].commit = rows'[workers'[v].task].commit
  <2>1. /\ workers'[x] = n /\ n.task = T(x) /\ T(x) \in Task /\ rows'[T(x)] = row
        /\ \A u \in Worker \ {x} : workers'[u] = workers[u]
        /\ \A t \in Task \ {T(x)} : rows'[t] = rows[t]
    BY <1>1, WorkRest, WorkRows
  <2>2. CASE v = x
    <3>1. n.pc = "push" /\ Binds(x, n, row, b) /\ x \in current'
      BY <1>1, <2>1, <2>2 DEF WorkStep
    <3>2. n.commit = row.commit
      BY <3>1 DEF Binds, Steady, Bound, Pushing, Fits, FitsAdrift
    <3> QED
      BY <2>1, <2>2, <3>2
  <2>3. CASE v # x /\ T(v) # T(x)
    <3>1. workers[v].pc = "push" /\ workers'[v] = workers[v] /\ T(v) \in Task
      BY <2>1, <2>3, AtWork
    <3>2. rows'[T(v)] = rows[T(v)]
      BY <2>1, <2>3, <3>1
    <3>3. ASSUME NEW w \in Worker, workers'[w].task = T(v), workers'[w].pc = "to_pushed",
                 w \in current'
          PROVE  T(w) = T(v) /\ workers[w].pc = "to_pushed" /\ w \in current
      <4>1. w # x /\ workers'[w] = workers[w]
        BY <2>1, <2>3, <3>3
      <4> QED
        BY <1>1, <3>3, <4>1 DEF WorkStep, Writes, T
    <3> QED
      BY <1>0, <3>1, <3>2, <3>3 DEF PushSound, T
  <2>4. CASE v # x /\ T(v) = T(x)
    <3>1. workers[v].pc = "push" /\ workers'[v] = workers[v]
      BY <2>1, <2>4
    <3>2. n.pc # "to_pushed"
      <4>1. SlotOf[v] = SlotOf[x]
        <5>1. workers[v].pc \notin {"idle", "reserved"}
          BY <3>1
        <5>2. WorkerShape(v, workers[v])
          BY <5>1, AtWork
        <5>3. SlotOf[v] = ProjectOf[T(v)]
          BY <5>1, <5>2 DEF WorkerShape, T
        <5>4. n.pc \notin {"idle", "reserved"} /\ WorkerShape(x, n)
          BY <1>1 DEF WorkStep, Moves
        <5>5. SlotOf[x] = ProjectOf[n.task]
          BY <5>4 DEF WorkerShape
        <5> QED
          BY <2>1, <2>4, <5>3, <5>5
      <4>2. workers[x].pc # "push"
        BY <1>0, <2>4, <3>1, <4>1 DEF MutexSound
      <4> QED
        BY <1>1, <4>2 DEF WorkStep
    <3>3. \A w \in Worker : workers'[w].pc = "to_pushed" =>
            w # x /\ workers'[w] = workers[w]
      BY <2>1, <3>2
    <3>4. CASE row = rows[T(x)] /\ current' \in {current, current \cup {x}}
      BY <1>0, <2>1, <2>4, <3>1, <3>3, <3>4 DEF PushSound, T
    <3>5. CASE /\ x \in current /\ current' = (current \ Copies(T(x))) \cup {x}
               /\ Advances(x, rows[T(x)], row)
      <4>1. \A w \in Worker : w \in current' => w = x \/ T(w) # T(x)
        BY <1>0, <2>1, <3>5, CopyOwners
      <4>2. row.status \in {"pushed", "awaiting_merge_approval"}
        BY <2>1, <2>4, <3>1, <3>3, <4>1 DEF T
      <4>3. CASE workers[x].pc = "to_pushed" /\ row.commit = rows[T(x)].commit
        BY <1>0, <2>1, <2>4, <3>1, <3>5, <4>3 DEF PushSound, T
      <4>4. CASE rows[T(x)].status = "pushed" /\ row.commit = rows[T(x)].commit
        BY <1>0, <2>1, <2>4, <3>1, <4>4 DEF PushSound, T
      <4> QED
        BY <3>5, <4>2, <4>3, <4>4 DEF Advances
    <3> QED
      BY <1>1, <3>4, <3>5 DEF WorkStep, Writes
  <2> QED
    BY <2>2, <2>3, <2>4
<1>2. CASE ~ \E w \in Worker, n \in WorkerType, row \in RowType, b \in Branch :
               WorkStep(w, n, row, b)
  <2>1. /\ workers[v].pc = "push" /\ workers'[v].task = T(v)
        /\ workers'[v].commit = workers[v].commit /\ T(v) \in Task
    BY <1>2, PushesStay
  <2>2. \A w \in Worker : workers'[w].pc = "to_pushed" =>
          workers[w].pc = "to_pushed" /\ workers'[w].task = T(w)
    BY <1>2, PushesStay
  <2>3. \A w \in Worker : w \in current' => w \in current
    BY <1>2, NextCopies
  <2>4. CASE rows'[T(v)] = rows[T(v)]
    BY <1>0, <2>1, <2>2, <2>3, <2>4 DEF PushSound
  <2>5. ASSUME NEW t \in Task, NEW x, NEW row, TableStep(t, x, row)
        PROVE  rows'[T(v)] = rows[T(v)]
    <3>1. CASE T(v) # t
      BY <2>1, <2>5, <3>1, TableRows
    <3>2. CASE T(v) = t
      <4>1. rows'[t].status \notin {"pushed", "awaiting_merge_approval"}
        BY <2>5, TableRows DEF TableStep
      <4>2. \A w \in Worker : w \in current' => T(w) # t
        BY <1>0, <2>5, CopyOwners, OtherCopies DEF TableStep
      <4> QED
        BY <2>1, <2>2, <3>2, <4>1, <4>2
    <3> QED
      BY <3>1, <3>2
  <2>6. ~RecoverInterrupted
    BY <2>1, IdleFacts DEF RecoverInterrupted, IInv, DownSound
  <2> QED
    BY <1>2, <2>4, <2>5, <2>6, NextTables
<1> QED
  BY <1>1, <1>2

-----------------------------------------------------------------------------
(* The command handlers. *)

LEMMA CancelledStays ==
  ASSUME IInv, [Next]_vars, NEW t \in Task, rows[t].status = "cancelled"
  PROVE  rows'[t].status = "cancelled"
<1>1. CASE UNCHANGED <<rows, remote>>
  BY <1>1
<1>2. CASE \E w \in Worker, n \in WorkerType, row \in RowType, b \in Branch :
             Work(w) /\ WorkStep(w, n, row, b)
  <2>1. PICK w \in Worker, n \in WorkerType, row \in RowType, b \in Branch :
          WorkStep(w, n, row, b)
    BY <1>2
  <2>2. T(w) = t => row = rows[t]
    BY <2>1 DEF WorkStep, Writes, Advances
  <2> QED
    BY <2>1, <2>2, WorkRows
<1>3. CASE \E u \in Task : \E x, row : TableStep(u, x, row) /\ UNCHANGED remote
  <2>0. PICK u \in Task : \E x, row : TableStep(u, x, row)
    BY <1>3
  <2>1. PICK x, row : TableStep(u, x, row)
    BY <2>0
  <2>2. u = t => row.status = "cancelled"
    BY <2>1 DEF TableStep
  <2> QED
    BY <2>1, <2>2, TableRows
<1>4. CASE RecoverInterrupted
  BY <1>4, RecoveryRows
<1> QED
  BY <1>1, <1>2, <1>3, <1>4, NextTables

(* Which copies of handlers and of the scan a save leaves up to date. *)
LEMMA WorkCopies ==
  ASSUME IInv, NEW w \in Worker, NEW n \in WorkerType, NEW row, NEW b,
         WorkStep(w, n, row, b), NEW t \in Task
  PROVE  /\ t \in current' => t \in current /\ rows'[t] = rows[t]
         /\ ScanItem(t) \in current' => ScanItem(t) \in current /\ rows'[t] = rows[t]
<1>1. TypeOK /\ T(w) \in Task /\ w # t /\ w # ScanItem(t)
  BY OtherCopies, WorkRows DEF IInv
<1>2. T(w) # t => rows'[t] = rows[t]
  BY WorkRows
<1>3. CASE row = rows[T(w)] /\ current' \in {current, current \cup {w}}
  BY <1>1, <1>2, <1>3, WorkRows
<1>4. CASE current' = (current \ Copies(T(w))) \cup {w}
  <2>1. w \in Copies(T(w))
    BY <1>1, CopyOwners
  <2> QED
    BY <1>1, <1>2, <1>4, <2>1, CopiesLeft
<1> QED
  BY <1>3, <1>4 DEF WorkStep, Writes

LEMMA TableCopies ==
  ASSUME IInv, NEW u \in Task, NEW x, NEW row, TableStep(u, x, row), NEW t \in Task
  PROVE  /\ t \in current' =>
              t = x \/ (t \in current /\ t # u /\ rows'[t] = rows[t])
         /\ ScanItem(t) \in current' =>
              ScanItem(t) = x \/ (ScanItem(t) \in current /\ t # u /\ rows'[t] = rows[t])
<1>1. TypeOK /\ x \in {u, ScanItem(u)} /\ current' = (current \ Copies(u)) \cup {x}
  BY DEF IInv, TableStep
<1>2. x \in Copies(u)
  BY <1>1, CopyOwners
<1> QED
  BY <1>1, <1>2, CopiesLeft, TableRows

(* The scan and the copies of different tasks. *)
LEMMA Items ==
  /\ \A t, u \in Task : ScanItem(t) = ScanItem(u) => t = u
  /\ \A t, u \in Task : t # ScanItem(u)
<1>1. \A t \in Task : ScanItem(t) \in {"scan"} \X Task
  BY DEF ScanItem
<1>2. \A t, u \in Task : ScanItem(t) = ScanItem(u) => t = u
  BY DEF ScanItem
<1> QED
  BY <1>1, <1>2

LEMMA WorkWrites ==
  ASSUME IInv, NEW w \in Worker, Acts(w)
  PROVE  \/ \E n \in WorkerType, row \in RowType, b \in Branch : WorkStep(w, n, row, b)
         \/ rows' = rows /\ remote' = remote /\ current' = current \ {w}
BY WorkerSteps DEF Exit

(* A step of a worker or of the scan. *)
OtherStep ==
  \/ Scan \/ AcquireFails \/ UNCHANGED vars
  \/ \E w \in Worker : Work(w) \/ LoseLease(w) \/ Renew(w) \/ ReleaseFails(w)
  \/ \E t \in Task : ExpireLease(t) \/ Stall(t)

LEMMA OtherStepCopies ==
  ASSUME IInv, OtherStep, NEW t \in Task, t \in current'
  PROVE  t \in current /\ rows'[t] = rows[t]
<1>1. CASE \E w \in Worker : Work(w)
  BY <1>1, WorkWrites, WorkCopies DEF Acts
<1>2. CASE \E u \in Task : Claim(u)
  BY <1>2, ClaimSaves, TableCopies, Items
<1>3. CASE ListQueued \/ ListChecking \/ ListPushed \/ EndScan
  <2>1. PICK phase, next, listed : listed \subseteq Task /\ List(phase, next, listed)
    BY <1>3, Listings
  <2> QED
    BY <2>1, Lists DEF List
<1>4. CASE \/ StartWorker \/ AcquireFails \/ UNCHANGED vars
           \/ \E u \in Task : \/ Resume(u, "checking", "load_push")
                              \/ Resume(u, "pushed", "load_pushed")
                              \/ ExpireLease(u) \/ Stall(u)
           \/ \E w \in Worker : LoseLease(w) \/ Renew(w) \/ ReleaseFails(w)
  BY <1>4 DEF StartWorker, AcquireFails, Resume, ExpireLease, Stall, LoseLease, Renew,
     ReleaseFails, leaseFrame, vars
<1> QED
  BY <1>1, <1>2, <1>3, <1>4 DEF OtherStep, Scan

AdmitsAt(m, t, status) ==
  \/ /\ CommandOf[m] = "confirm"
     /\ status = "awaiting_confirmation" /\ Sender[m] = Creator[t]
  \/ /\ CommandOf[m] = "supplement"
     /\ status \in {"blocked", "awaiting_merge_approval"}
  \/ CommandOf[m] = "cancel" /\ CanTransition(status, "cancelled")

(* A handler h of task t is as the invariant wants it. *)
HandlerFits(t, h, row, done, new, holds) ==
  /\ h.pc = "planning" => t \notin done /\ (holds => row.status = "draft")
  /\ h.pc = "commit" =>
       /\ h.message \in Message /\ h.message \notin done \cup new
       /\ CanOperate(Sender[h.message], t)
       /\ holds => AdmitsAt(h.message, t, row.status)
  /\ h.pc = "interrupt" => row.status = "cancelled"

HandlerType == [pc : {"idle", "planning", "commit", "interrupt"},
                message : Message \cup {NoMessage}]

LEMMA HandlersFit ==
  ASSUME IInv
  PROVE  /\ \A t \in Task : HandlerFits(t, handlers[t], rows[t], processed, inbox,
                                        t \in current)
         /\ \A t, u \in Task :
              /\ handlers[t].pc = "commit" /\ handlers[u].pc = "commit"
              /\ handlers[t].message = handlers[u].message
              => t = u
         /\ handlers \in [Task -> HandlerType]
<1>1. HandlerSound /\ handlers \in [Task -> HandlerType]
  BY DEF IInv, TypeOK, HandlerType
<1>2. ASSUME NEW t \in Task
      PROVE  HandlerFits(t, handlers[t], rows[t], processed, inbox, t \in current)
  BY <1>1 DEF HandlerFits, HandlerSound, Admits, AdmitsAt
<1>3. ASSUME NEW t \in Task, NEW u \in Task, handlers[t].pc = "commit",
             handlers[u].pc = "commit", handlers[t].message = handlers[u].message
      PROVE  t = u
  BY <1>1, <1>3 DEF HandlerSound
<1> QED
  BY <1>1, <1>2, <1>3

(* The handler of t changes to h; the others see nothing of the step. *)
LEMMA HandlerChange ==
  ASSUME IInv, NEW t \in Task, NEW h \in HandlerType,
         handlers' = [handlers EXCEPT ![t] = h],
         HandlerFits(t, h, rows'[t], processed', inbox', t \in current'),
         \A u \in Task \ {t} :
           /\ u \in processed' => u \in processed
           /\ rows'[u] = rows[u] /\ (u \in current' => u \in current),
         \A u \in Task \ {t} : handlers[u].pc = "commit" =>
           handlers[u].message \notin (processed' \cup inbox') \ (processed \cup inbox),
         h.pc = "commit" =>
           \A u \in Task \ {t} : handlers[u].pc = "commit" =>
             h.message # handlers[u].message
  PROVE  HandlerSound' /\ handlers' \in [Task -> HandlerType]
<1>1. /\ handlers' \in [Task -> HandlerType] /\ handlers'[t] = h
      /\ \A u \in Task \ {t} : handlers'[u] = handlers[u]
  BY HandlersFit
<1>2. ASSUME NEW u \in Task
      PROVE  HandlerFits(u, handlers'[u], rows'[u], processed', inbox', u \in current')
  <2>1. CASE u = t
    BY <1>1, <2>1
  <2>2. CASE u # t
    <3>1. HandlerFits(u, handlers[u], rows[u], processed, inbox, u \in current)
      BY HandlersFit
    <3>2. /\ handlers'[u] = handlers[u] /\ rows'[u] = rows[u]
          /\ u \in current' => u \in current
          /\ u \in processed' => u \in processed
          /\ handlers[u].pc = "commit" => handlers[u].message \notin processed' \cup inbox'
      BY <1>1, <2>2, <3>1 DEF HandlerFits
    <3> QED
      BY <3>1, <3>2 DEF HandlerFits
  <2> QED
    BY <2>1, <2>2
<1>3. ASSUME NEW u \in Task, NEW x \in Task, handlers'[u].pc = "commit",
             handlers'[x].pc = "commit", handlers'[u].message = handlers'[x].message
      PROVE  u = x
  BY <1>1, <1>3, HandlersFit
<1>4. HandlerSound'
  BY <1>2, <1>3 DEF HandlerSound, HandlerFits, Admits, AdmitsAt
<1> QED
  BY <1>1, <1>4

LEMMA NextHandlerSound ==
  IInv /\ [Next]_vars => HandlerSound' /\ handlers' \in [Task -> HandlerType]
<1> SUFFICES ASSUME IInv, [Next]_vars
             PROVE  HandlerSound' /\ handlers' \in [Task -> HandlerType]
  OBVIOUS
<1>0. handlers \in [Task -> HandlerType]
  BY HandlersFit
<1>1. CASE OtherStep
  <2>1. UNCHANGED <<handlers, processed, inbox>>
    BY <1>1 DEF OtherStep, Scan, Work, LoseLease, Renew, ReleaseFails, AcquireFails,
       ExpireLease, Stall, Claim, StartWorker, Resume, ListQueued, ListChecking,
       ListPushed, EndScan, List, vars, scanFrame, workerFrame, leaseFrame
  <2>2. ASSUME NEW t \in Task
        PROVE  HandlerFits(t, handlers'[t], rows'[t], processed', inbox', t \in current')
    <3>1. HandlerFits(t, handlers[t], rows[t], processed, inbox, t \in current)
      BY HandlersFit
    <3>2. t \in current' => t \in current /\ rows'[t] = rows[t]
      BY <1>1, OtherStepCopies
    <3>3. rows[t].status = "cancelled" => rows'[t].status = "cancelled"
      BY CancelledStays
    <3> QED
      BY <2>1, <3>1, <3>2, <3>3 DEF HandlerFits
  <2>3. ASSUME NEW u \in Task, NEW x \in Task, handlers'[u].pc = "commit",
               handlers'[x].pc = "commit", handlers'[u].message = handlers'[x].message
        PROVE  u = x
    BY <2>1, <2>3, HandlersFit
  <2>4. HandlerSound'
    BY <2>2, <2>3 DEF HandlerSound, HandlerFits, Admits, AdmitsAt
  <2> QED
    BY <1>0, <2>1, <2>4
<1>2. ASSUME NEW t \in Task, Create(t)
      PROVE  HandlerSound' /\ handlers' \in [Task -> HandlerType]
  <2>1. handlers[t].pc = "idle" /\ t \notin processed /\ inbox' = inbox
    BY <1>2 DEF Create
  <2>2. CASE UNCHANGED <<rows, current, remote, handlers>>
    <3>1. processed' \in {processed, processed \cup {t}}
      BY <1>2 DEF Create
    <3>2. PICK h \in HandlerType : h = handlers[t]
      BY <1>0
    <3>3. handlers' = [handlers EXCEPT ![t] = h]
      BY <1>0, <2>2, <3>2
    <3>4. HandlerFits(t, h, rows'[t], processed', inbox', t \in current')
      BY <2>1, <3>2 DEF HandlerFits
    <3>5. \A u \in Task \ {t} : u \in processed' => u \in processed
      BY <3>1
    <3>6. \A u \in Task \ {t} : handlers[u].pc = "commit" =>
            handlers[u].message \notin (processed' \cup inbox') \ (processed \cup inbox)
      BY <2>1, <3>1, HandlersFit DEF HandlerFits
    <3> QED
      BY <2>1, <2>2, <3>2, <3>3, <3>4, <3>5, <3>6, HandlerChange
  <2>3. CASE /\ TableStep(t, t, Moved(t, "draft")) /\ UNCHANGED processed
             /\ handlers' = [handlers EXCEPT ![t] = [pc |-> "planning", message |-> NoMessage]]
    <3>1. rows'[t] = Moved(t, "draft") /\ rows'[t].status = "draft"
      BY <2>3, TableRows, MovedRow DEF IInv, Status
    <3> DEFINE h == [pc |-> "planning", message |-> NoMessage]
    <3>2. h \in HandlerType /\ h.pc = "planning"
      BY DEF HandlerType
    <3>3. handlers' = [handlers EXCEPT ![t] = h]
      BY <2>3
    <3> HIDE DEF h
    <3>4. HandlerFits(t, h, rows'[t], processed', inbox', t \in current')
      BY <2>1, <2>3, <3>1, <3>2 DEF HandlerFits
    <3>5. \A u \in Task \ {t} : rows'[u] = rows[u] /\ (u \in current' => u \in current)
      BY <2>3, TableRows, TableCopies
    <3> QED
      BY <2>1, <2>3, <3>2, <3>3, <3>4, <3>5, HandlerChange
  <2> QED
    BY <1>2, <2>2, <2>3, CreateSaves
<1>3. ASSUME NEW t \in Task, Plan(t)
      PROVE  HandlerSound' /\ handlers' \in [Task -> HandlerType]
  <2>1. PICK next : TableStep(t, t, Moved(t, next))
    BY <1>3, PlanSaves
  <2>2. /\ processed' = processed \cup {t} /\ inbox' = inbox
        /\ handlers' = [handlers EXCEPT ![t] = [pc |-> "idle", message |-> NoMessage]]
    BY <1>3 DEF Plan, Handle
  <2> DEFINE h == [pc |-> "idle", message |-> NoMessage]
  <2>3. h \in HandlerType /\ h.pc = "idle" /\ handlers' = [handlers EXCEPT ![t] = h]
    BY <2>2 DEF HandlerType
  <2> HIDE DEF h
  <2>4. HandlerFits(t, h, rows'[t], processed', inbox', t \in current')
    BY <2>3 DEF HandlerFits
  <2>5. \A u \in Task \ {t} : /\ rows'[u] = rows[u] /\ (u \in current' => u \in current)
                              /\ u \in processed' => u \in processed
    BY <2>1, <2>2, TableRows, TableCopies
  <2>6. \A u \in Task \ {t} : handlers[u].pc = "commit" =>
          handlers[u].message \notin (processed' \cup inbox') \ (processed \cup inbox)
    BY <2>2, HandlersFit DEF HandlerFits
  <2> QED
    BY <2>3, <2>4, <2>5, <2>6, HandlerChange
<1>4. ASSUME NEW t \in Task, CommitCommand(t)
      PROVE  HandlerSound' /\ handlers' \in [Task -> HandlerType]
  <2> DEFINE m == handlers[t].message
             row == Result(m, t)
  <2>1. /\ m \in Message /\ TableStep(t, t, row)
        /\ row.status = CASE CommandOf[m] = "cancel" -> "cancelled"
                          [] OTHER -> "queued"
    BY <1>4, CommandSaves
  <2>2. handlers[t].pc = "commit" /\ processed' = processed \cup {m} /\ inbox' = inbox
    BY <1>4 DEF CommitCommand
  <2>3. PICK h \in HandlerType : /\ handlers' = [handlers EXCEPT ![t] = h]
                                 /\ h.pc \in {"idle", "interrupt"}
                                 /\ h.pc = "interrupt" => CommandOf[m] = "cancel"
    <3>1. PICK pc \in {"idle", "interrupt"}, x \in Message \cup {NoMessage} :
            /\ handlers' = [handlers EXCEPT ![t] = [pc |-> pc, message |-> x]]
            /\ pc = "interrupt" => CommandOf[m] = "cancel"
      BY <1>4, <2>1 DEF CommitCommand, Handle
    <3>2. [pc |-> pc, message |-> x] \in HandlerType
      BY DEF HandlerType
    <3> QED
      BY <3>1, <3>2
  <2> HIDE DEF m, row
  <2>4. HandlerFits(t, h, rows'[t], processed', inbox', t \in current')
    BY <2>1, <2>3, TableRows DEF HandlerFits
  <2>5. \A u \in Task \ {t} : /\ rows'[u] = rows[u] /\ (u \in current' => u \in current)
                              /\ u \in processed' => u \in processed
    BY <2>1, <2>2, TableRows, TableCopies
  <2>6. \A u \in Task \ {t} : handlers[u].pc = "commit" =>
          handlers[u].message \notin (processed' \cup inbox') \ (processed \cup inbox)
    BY <2>2, HandlersFit DEF m
  <2> QED
    BY <2>3, <2>4, <2>5, <2>6, HandlerChange
<1>5. ASSUME NEW t \in Task, Interrupt(t)
      PROVE  HandlerSound' /\ handlers' \in [Task -> HandlerType]
  <2> DEFINE h == [pc |-> "idle", message |-> NoMessage]
  <2>1. /\ h \in HandlerType /\ h.pc = "idle" /\ handlers' = [handlers EXCEPT ![t] = h]
        /\ UNCHANGED <<rows, processed, inbox, current>>
    BY <1>5 DEF Interrupt, Handle, HandlerType
  <2> HIDE DEF h
  <2>2. HandlerFits(t, h, rows'[t], processed', inbox', t \in current')
    BY <2>1 DEF HandlerFits
  <2> QED
    BY <2>1, <2>2, HandlerChange
<1>6. ASSUME NEW t \in Task, NEW m \in Message, Read(t, m)
      PROVE  HandlerSound' /\ handlers' \in [Task -> HandlerType]
  <2>1. PICK h \in HandlerType : /\ h.pc = "commit" /\ h.message = m
                                 /\ handlers' = [handlers EXCEPT ![t] = h]
    <3>1. [pc |-> "commit", message |-> m] \in HandlerType
      BY DEF HandlerType
    <3> QED
      BY <1>6, <3>1 DEF Read, Handle
  <2>2. /\ m \in inbox /\ m \notin processed /\ CanOperate(Sender[m], t)
        /\ AdmitsAt(m, t, rows[t].status) /\ inbox' = inbox \ {m}
        /\ current' = current \cup {t} /\ UNCHANGED <<rows, processed>>
    BY <1>6 DEF Read, Admits, AdmitsAt
  <2>3. HandlerFits(t, h, rows'[t], processed', inbox', t \in current')
    BY <2>1, <2>2 DEF HandlerFits
  <2>4. \A u \in Task \ {t} : handlers[u].pc = "commit" =>
          handlers[u].message \notin (processed' \cup inbox') \ (processed \cup inbox)
    BY <2>1, <2>2, HandlersFit DEF HandlerFits
  <2>5. \A u \in Task \ {t} : handlers[u].pc = "commit" => h.message # handlers[u].message
    BY <2>1, <2>2, HandlersFit DEF HandlerFits
  <2>6. \A u \in Task \ {t} :
          /\ u \in processed' => u \in processed
          /\ rows'[u] = rows[u] /\ (u \in current' => u \in current)
    BY <2>2
  <2> QED
    BY <2>1, <2>3, <2>4, <2>5, <2>6, HandlerChange
<1>7. CASE (\E t \in Task : Conflict(t)) \/ Crash \/ RecoverInterrupted
  <2>1. handlers' = [t \in Task |-> NoHandler]
    BY <1>7 DEF Conflict, Crash, ProcessEnds, RecoverInterrupted, IInv, DownSound
  <2>2. NoHandler \in HandlerType /\ NoHandler.pc = "idle"
    BY DEF NoHandler, HandlerType
  <2>3. handlers' \in [Task -> HandlerType] /\ \A t \in Task : handlers'[t].pc = "idle"
    BY <2>1, <2>2
  <2>4. HandlerSound'
    BY <2>3 DEF HandlerSound
  <2> QED
    BY <2>3, <2>4
<1> QED
  BY <1>1, <1>2, <1>3, <1>4, <1>5, <1>6, <1>7 DEF Next, Answer, OtherStep

-----------------------------------------------------------------------------
(* The scan loop, and the process as a whole. *)

(* The steps that do not touch the scan.                                    *)
NoScanStep ==
  \/ UNCHANGED vars \/ RecoverInterrupted \/ (AcquireFails /\ UNCHANGED scan)
  \/ \E w \in Worker : Work(w) \/ LoseLease(w) \/ Renew(w) \/ ReleaseFails(w)
  \/ \E t \in Task : \/ Create(t) \/ Plan(t) \/ CommitCommand(t) \/ Interrupt(t)
                     \/ ExpireLease(t) \/ Stall(t) \/ \E m \in Message : Read(t, m)

LEMMA StepsOfScan ==
  ASSUME [Next]_vars
  PROVE  NoScanStep \/ Scan \/ Crash \/ (\E t \in Task : Conflict(t)) \/ AcquireFails
<1>1. CASE \E t \in Task : \/ Create(t) \/ Answer(t) \/ ExpireLease(t) \/ Stall(t)
                           \/ \E m \in Message : Read(t, m)
  BY <1>1 DEF Answer, NoScanStep
<1>2. CASE \E w \in Worker : Work(w) \/ LoseLease(w) \/ Renew(w) \/ ReleaseFails(w)
  BY <1>2 DEF NoScanStep
<1>3. CASE RecoverInterrupted \/ UNCHANGED vars
  BY <1>3 DEF NoScanStep
<1> QED
  BY <1>1, <1>2, <1>3 DEF Next

LEMMA NoScanStepItems ==
  ASSUME IInv, NoScanStep, NEW t \in Task, ScanItem(t) \in current'
  PROVE  ScanItem(t) \in current /\ rows'[t] = rows[t]
<1>1. CASE \E w \in Worker : Work(w)
  BY <1>1, WorkWrites, WorkCopies DEF Acts
<1>2. CASE \E u \in Task : Create(u) \/ Plan(u) \/ CommitCommand(u)
  BY <1>2, CreateSaves, PlanSaves, CommandSaves, TableCopies, Items
<1>3. CASE \E u \in Task, m \in Message : Read(u, m)
  BY <1>3, Items DEF Read
<1>4. CASE RecoverInterrupted
  BY <1>4 DEF RecoverInterrupted, IInv, DownSound
<1>5. CASE \/ UNCHANGED vars \/ AcquireFails
           \/ \E u \in Task : Interrupt(u) \/ ExpireLease(u) \/ Stall(u)
           \/ \E w \in Worker : LoseLease(w) \/ Renew(w) \/ ReleaseFails(w)
  BY <1>5 DEF Interrupt, LoseLease, Renew, ReleaseFails, AcquireFails, ExpireLease,
     Stall, leaseFrame, vars
<1> QED
  BY <1>1, <1>2, <1>3, <1>4, <1>5 DEF NoScanStep


(* A task that is claimed and not yet started keeps its status until it is  *)
(* cancelled, and no other worker comes to drive it.                        *)
LEMMA ClaimedTask ==
  ASSUME IInv, NoScanStep, scan.phase = "register"
  PROVE  /\ workers'[scan.worker].pc = "reserved"
         /\ rows'[scan.task].status \in {"running", "failed", "cancelled"}
         /\ \A w \in Worker : ~(Drives(workers'[w]) /\ workers'[w].task = scan.task)
<1>0. /\ scan.task \in Task /\ scan.worker \in Worker
      /\ workers[scan.worker].pc = "reserved"
      /\ rows[scan.task].status \in {"running", "failed", "cancelled"}
      /\ \A w \in Worker : ~(Drives(workers[w]) /\ T(w) = scan.task)
      /\ T(scan.worker) = NoTask /\ up
  BY DEF IInv, ScanSound, WorkerSound, WorkerShape, T, DownSound, NoScan
<1>1. scan' = scan /\ [Next]_vars
  <2>1. scan' = scan
    BY DEF NoScanStep, Work, LoseLease, Renew, ReleaseFails, ExpireLease, Stall,
       leaseFrame, Create, Plan, CommitCommand,
       Interrupt, Read, RecoverInterrupted, vars, handlerFrame, workerFrame
  <2>2. [Next]_vars
    BY DEF NoScanStep, Next, Answer
  <2> QED
    BY <2>1, <2>2
<1>2. rows'[scan.task].status \in {"running", "failed", "cancelled"}
  <2>1. CASE rows[scan.task].status = "cancelled"
    BY <1>0, <1>1, <2>1, CancelledStays
  <2>2. CASE rows[scan.task].status \in {"running", "failed"}
    <3>1. CASE \E w \in Worker, n \in WorkerType, row \in RowType, b \in Branch :
                 Work(w) /\ WorkStep(w, n, row, b)
      <4>1. PICK w \in Worker, n \in WorkerType, row \in RowType, b \in Branch :
              WorkStep(w, n, row, b)
        BY <3>1
      <4>2. T(w) = scan.task => row = rows[T(w)] \/ Ended(row)
        BY <1>0, <2>2, <4>1 DEF WorkStep, Writes, Advances
      <4>3. Ended(row) => row.status \in {"failed", "cancelled"}
        BY DEF Ended
      <4> QED
        BY <1>0, <2>2, <4>1, <4>2, <4>3, WorkRows
    <3>2. CASE \E u \in Task : \E x, row : TableStep(u, x, row) /\ UNCHANGED remote
      <4>0. PICK u \in Task : \E x, row : TableStep(u, x, row)
        BY <3>2
      <4>1. PICK x, row : TableStep(u, x, row)
        BY <4>0
      <4>2. u = scan.task => row.status = "cancelled"
        BY <2>2, <4>1 DEF TableStep
      <4> QED
        BY <1>0, <4>1, <4>2, TableRows
    <3>3. ~RecoverInterrupted
      BY <1>0 DEF RecoverInterrupted
    <3> QED
      BY <1>0, <1>1, <3>1, <3>2, <3>3, NextTables
  <2> QED
    BY <1>0, <2>1, <2>2
<1>3. CASE Stays
  <2>1. workers'[scan.worker].pc = "reserved"
    BY <1>0, <1>3 DEF Stays, SameWorker
  <2>2. \A w \in Worker : /\ Drives(workers'[w]) => Drives(workers[w])
                          /\ workers'[w].task = T(w)
    BY <1>3 DEF Stays, SameWorker, Drives, Steady, Adrift, T
  <2> QED
    BY <1>0, <1>2, <2>1, <2>2
<1>4. CASE \E w \in Worker, n \in WorkerType, row \in RowType, b \in Branch :
             WorkStep(w, n, row, b)
  <2>1. PICK w \in Worker, n \in WorkerType, row \in RowType, b \in Branch :
          WorkStep(w, n, row, b)
    BY <1>4
  <2>2. /\ workers'[w] = n /\ n.task = T(w) /\ T(w) \in Task
        /\ \A u \in Worker \ {w} : workers'[u] = workers[u]
    BY <2>1, WorkRest, WorkRows
  <2>3. w # scan.worker
    BY <1>0, <2>2
  <2>4. ~(Drives(n) /\ T(w) = scan.task)
    BY <1>0, <2>1 DEF WorkStep, Resumes
  <2> QED
    BY <1>0, <1>2, <2>2, <2>3, <2>4 DEF T
<1>5. CASE \E w \in Worker : Leaves(w)
  <2>1. PICK w \in Worker : Leaves(w)
    BY <1>5
  <2>2. w # scan.worker
    BY <1>0, <2>1 DEF Leaves
  <2>3. ~Drives(workers'[w])
    BY <2>1 DEF Leaves, Drives, Steady, Bound, Preparing, Executing, Pushing
  <2> QED
    BY <1>0, <1>2, <2>1, <2>2, <2>3 DEF Leaves, T
<1>6. ~Ends
  BY <1>1 DEF Ends, NoScan
<1> QED
  BY <1>1, <1>3, <1>4, <1>5, <1>6, NextWorkers DEF Enters

LEMMA NextScanSound ==
  IInv /\ [Next]_vars => ScanSound'
<1> SUFFICES ASSUME IInv, [Next]_vars
             PROVE  ScanSound'
  OBVIOUS
<1>0. TypeOK /\ ScanSound /\ scan.todo \subseteq Task
  BY DEF IInv, TypeOK
<1>1. CASE NoScanStep
  <2>1. scan' = scan
    BY <1>1 DEF NoScanStep, Work, LoseLease, Renew, ReleaseFails, ExpireLease, Stall,
       leaseFrame, Create, Plan, CommitCommand,
       Interrupt, Read, RecoverInterrupted, vars, handlerFrame, workerFrame
  <2>2. \A t \in Task : ScanItem(t) \in current' => ScanItem(t) \in current /\ rows'[t] = rows[t]
    BY <1>1, NoScanStepItems
  <2>3. scan.phase \in {"queued", "register"} =>
          \A t \in scan.todo : ScanItem(t) \in current' => rows'[t].status = "queued"
    BY <1>0, <2>2 DEF ScanSound
  <2>4. scan.phase = "register" =>
          \A w \in Worker : ~(Drives(workers[w])' /\ workers'[w].task = scan.task)
    BY <1>1, ClaimedTask, StillAdrift
  <2> QED
    BY <1>0, <1>1, <2>1, <2>3, <2>4, ClaimedTask DEF ScanSound, T
<1>2. CASE ListQueued \/ ListChecking \/ ListPushed \/ EndScan
  <2>1. PICK phase, next, listed :
          /\ listed \subseteq Task /\ List(phase, next, listed)
          /\ next = "queued" => \A t \in listed : rows[t].status = "queued"
          /\ next # "register"
    BY <1>2, Listings
  <2>2. rows' = rows /\ scan'.phase = next /\ scan'.todo = listed
    BY <2>1 DEF List, NoScan
  <2> QED
    BY <2>1, <2>2 DEF ScanSound
<1>3. ASSUME NEW t \in Task, Claim(t)
      PROVE  ScanSound'
  <2>0. scan.phase = "queued"
    BY <1>3 DEF Claim
  <2>1. CASE /\ UNCHANGED <<rows, current, remote, workers>>
             /\ scan' = [scan EXCEPT !.todo = @ \ {t}]
    <3>1. scan'.phase = "queued" /\ scan'.todo = scan.todo \ {t}
      BY <1>0, <2>0, <2>1 DEF TypeOK
    <3> QED
      BY <1>0, <2>0, <2>1, <3>1 DEF ScanSound
  <2>2. ASSUME NEW w \in Worker, IdleWorker(w, t), rows[t].status = "queued",
               TableStep(t, ScanItem(t), Moved(t, "running")),
               Moved(t, "running").status = "running",
               workers' = [workers EXCEPT ![w].pc = "reserved"],
               scan' = [phase |-> "register", todo |-> scan.todo \ {t},
                        task |-> t, worker |-> w]
        PROVE  ScanSound'
    <3>1. /\ scan'.phase = "register" /\ scan'.todo = scan.todo \ {t}
          /\ scan'.task = t /\ scan'.worker = w
      BY <2>2
    <3>2. \A u \in scan'.todo : ScanItem(u) \in current' => rows'[u].status = "queued"
      BY <1>0, <2>0, <2>2, <3>1, TableCopies, Items DEF ScanSound
    <3>3. SlotOf[w] = ProjectOf[t] /\ workers[w].pc = "idle"
      BY <2>2 DEF IdleWorker
    <3>4. /\ workers'[w].pc = "reserved" /\ workers'[w].task = NoTask
          /\ \A u \in Worker \ {w} : workers'[u] = workers[u]
      BY <2>2, <3>3, Reserves
    <3>5. rows'[t].status = "running"
      BY <2>2, TableRows
    <3>6. ASSUME NEW u \in Worker, Drives(workers[u]), T(u) = t
          PROVE  FALSE
      <4>1. /\ Steady(workers[u]) /\ rows[T(u)].status = "queued" /\ ~Ended(rows[T(u)])
            /\ ~(workers[u].pc \in {"fail", "save_fail"} /\ workers[u].leased)
        BY <2>2, <3>6 DEF Drives, Ended
      <4>2. Fits(workers[u], rows[T(u)], remote[T(u)]) /\ workers[u].pc \in Bound
        BY <4>1 DEF IInv, WorkerSound, Steady
      <4> QED
        BY <4>1, <4>2 DEF Fits, Bound, Preparing, Executing, Pushing
    <3>7. \A u \in Worker : ~(Drives(workers[u])' /\ workers'[u].task = t)
      <4>1. \A u \in Worker : ~(Drives(workers'[u]) /\ workers'[u].task = t)
        BY <3>4, <3>6 DEF T
      <4> QED
        BY <4>1, StillAdrift
    <3> QED
      BY <3>1, <3>2, <3>3, <3>4, <3>5, <3>7 DEF ScanSound, T
  <2> QED
    BY <1>3, <2>1, <2>2, ClaimSaves
<1>4. CASE StartWorker
  <2>1. /\ scan.phase = "register" /\ UNCHANGED <<rows, current>>
        /\ scan'.phase = "queued" /\ scan'.todo = scan.todo
    BY <1>0, <1>4 DEF StartWorker, TypeOK
  <2> QED
    BY <1>0, <2>1 DEF ScanSound
<1>5. CASE \E t \in Task : \/ Resume(t, "checking", "load_push")
                           \/ Resume(t, "pushed", "load_pushed")
  <2>1. scan'.phase \in {"checking", "pushed"}
    BY <1>0, <1>5 DEF Resume, Skip, TypeOK
  <2> QED
    BY <2>1 DEF ScanSound
<1>6. CASE (\E t \in Task : Conflict(t)) \/ Crash
  <2>1. scan' = NoScan
    BY <1>6 DEF Conflict, Crash, ProcessEnds
  <2> QED
    BY <2>1 DEF ScanSound, NoScan
<1>7. CASE AcquireFails /\ scan' # scan
  <2>1. scan'.phase \in {"checking", "pushed"}
    BY <1>0, <1>7 DEF AcquireFails, Skip, TypeOK
  <2> QED
    BY <2>1 DEF ScanSound
<1>8. AcquireFails /\ scan' = scan => NoScanStep
  BY DEF NoScanStep
<1> QED
  BY <1>1, <1>2, <1>3, <1>4, <1>5, <1>6, <1>7, <1>8, StepsOfScan DEF Scan

LEMMA NextDownSound ==
  IInv /\ [Next]_vars => DownSound'
<1> SUFFICES ASSUME IInv, [Next]_vars, ~up'
             PROVE  /\ current' = {} /\ handlers' = [t \in Task |-> NoHandler]
                    /\ scan' = NoScan /\ workers' = [w \in Worker |-> Idle]
  BY DEF DownSound
<1>1. CASE (\E t \in Task : Conflict(t)) \/ Crash
  BY <1>1 DEF Conflict, Crash, ProcessEnds
<1>2. CASE (\E t \in Task : ExpireLease(t)) \/ UNCHANGED vars
  BY <1>2 DEF ExpireLease, leaseFrame, vars, IInv, DownSound
<1>3. CASE RecoverInterrupted
  BY <1>3 DEF RecoverInterrupted
<1>4. CASE \E w \in Worker : Work(w)
  <2>1. PICK w \in Worker : Work(w)
    BY <1>4
  <2>2. up' = up
    BY <2>1 DEF Work, workerFrame
  <2>3. Exit(w) => up
    BY DEF Exit, At
  <2>4. ~Exit(w) => up
    BY <2>1, WorkerSteps DEF Acts, WorkStep
  <2> QED
    BY <2>2, <2>3, <2>4
<1>5. CASE \/ \E t \in Task : \/ Create(t) \/ Plan(t) \/ CommitCommand(t) \/ Interrupt(t)
                              \/ Stall(t) \/ \E m \in Message : Read(t, m)
           \/ \E w \in Worker : LoseLease(w) \/ ReleaseFails(w)
           \/ AcquireFails
  <2>1. up /\ up' = up
    <3>1. CASE \E t \in Task : \/ Create(t) \/ Plan(t) \/ CommitCommand(t) \/ Interrupt(t)
                              \/ \E m \in Message : Read(t, m)
      BY <3>1 DEF Create, Plan, CommitCommand, Interrupt, Read
    <3>2. CASE \/ \E t \in Task : Stall(t)
               \/ \E w \in Worker : LoseLease(w) \/ ReleaseFails(w)
               \/ AcquireFails
      BY <3>2 DEF LoseLease, ReleaseFails, AcquireFails, Stall, Fault, leaseFrame
    <3> QED
      BY <1>5, <3>1, <3>2
  <2> QED
    BY <2>1
<1>6. CASE Scan
  <2>1. up /\ up' = up
    BY <1>6 DEF Scan, ListQueued, ListChecking, ListPushed, EndScan, List, StartWorker,
       Claim, Resume, scanFrame
  <2> QED
    BY <2>1
<1>7. CASE \E w \in Worker : Renew(w)
  BY <1>7, IdleFacts DEF Renew, leaseFrame, IInv, DownSound
<1> QED
  BY <1>1, <1>2, <1>3, <1>4, <1>5, <1>6, <1>7 DEF Next, Answer

-----------------------------------------------------------------------------
(* The types. *)

Holders == Worker \cup Task \cup {ScanItem(t) : t \in Task}

ScanType == [phase : {"idle", "queued", "register", "checking", "pushed"},
             todo : SUBSET Task, task : Task \cup {NoTask},
             worker : Worker \cup {NoWorker}]

LEMMA NextCurrent ==
  IInv /\ [Next]_vars => current' \subseteq Holders
<1> SUFFICES ASSUME IInv, [Next]_vars
             PROVE  current' \subseteq Holders
  OBVIOUS
<1>0. current \subseteq Holders /\ Worker \subseteq Holders /\ Task \subseteq Holders
      /\ \A t \in Task : ScanItem(t) \in Holders
  BY DEF Holders, IInv, TypeOK
<1>1. CASE \E w \in Worker : Work(w)
  BY <1>0, <1>1, WorkWrites DEF Acts, WorkStep, Writes
<1>2. CASE \E t \in Task : Create(t) \/ Plan(t) \/ CommitCommand(t) \/ Claim(t)
  <2>1. current' = current \/ \E u \in Task : \E x, row : TableStep(u, x, row)
    BY <1>2, CreateSaves, PlanSaves, CommandSaves, ClaimSaves
  <2>2. ASSUME NEW u \in Task, NEW x, NEW row, TableStep(u, x, row)
        PROVE  current' \subseteq Holders
    BY <1>0, <2>2 DEF TableStep
  <2> QED
    BY <1>0, <2>1, <2>2
<1>3. CASE ListQueued \/ ListChecking \/ ListPushed \/ EndScan
  <2>1. PICK phase, next, listed : listed \subseteq Task /\ List(phase, next, listed)
    BY <1>3, Listings
  <2>2. current' \subseteq current \cup {ScanItem(t) : t \in listed}
    BY <2>1 DEF List
  <2> QED
    BY <1>0, <2>1, <2>2
<1>4. CASE \E t \in Task, m \in Message : Read(t, m)
  BY <1>0, <1>4 DEF Read
<1>5. CASE \/ StartWorker \/ UNCHANGED vars \/ Crash \/ RecoverInterrupted
           \/ AcquireFails
           \/ \E t \in Task : \/ Resume(t, "checking", "load_push")
                              \/ Resume(t, "pushed", "load_pushed") \/ Stall(t)
                              \/ ExpireLease(t) \/ Interrupt(t) \/ Conflict(t)
           \/ \E w \in Worker : LoseLease(w) \/ Renew(w) \/ ReleaseFails(w)
  <2>1. current' = current \/ current' = {}
    BY <1>5 DEF StartWorker, Resume, LoseLease, Renew, ReleaseFails, AcquireFails, Stall,
       ExpireLease, leaseFrame, Interrupt, Conflict, Crash, ProcessEnds,
       RecoverInterrupted, vars
  <2> QED
    BY <1>0, <2>1
<1> QED
  BY <1>1, <1>2, <1>3, <1>4, <1>5 DEF Next, Answer, Scan

LEMMA NextScanType ==
  IInv /\ [Next]_vars => /\ scan' \in ScanType
                         /\ active' \in [Task -> Worker \cup {NoWorker}]
<1> SUFFICES ASSUME IInv, [Next]_vars
             PROVE  scan' \in ScanType /\ active' \in [Task -> Worker \cup {NoWorker}]
  OBVIOUS
<1>0. /\ scan \in ScanType /\ active \in [Task -> Worker \cup {NoWorker}] /\ ScanSound
      /\ NoScan \in ScanType
  BY DEF IInv, TypeOK, ScanType, NoScan
<1>1. CASE NoScanStep
  <2>1. scan' = scan
    BY <1>1 DEF NoScanStep, Work, LoseLease, Renew, ReleaseFails, ExpireLease, Stall,
       leaseFrame, Create, Plan, CommitCommand,
       Interrupt, Read, RecoverInterrupted, vars, handlerFrame, workerFrame
  <2>2. CASE \E w \in Worker : Work(w)
    <3>1. active' = active \/ \E w \in Worker : active' = [active EXCEPT ![T(w)] = NoWorker]
      BY <2>2, WorkerSteps DEF Acts, WorkStep, Exit
    <3> QED
      BY <1>0, <2>1, <3>1
  <2>3. CASE ~\E w \in Worker : Work(w)
    <3>1. active' = active
      BY <1>1, <2>3 DEF NoScanStep, LoseLease, Renew, ReleaseFails, AcquireFails,
         ExpireLease, Stall, leaseFrame, Create, Plan, CommitCommand, Interrupt, Read,
         RecoverInterrupted, vars, handlerFrame
    <3> QED
      BY <1>0, <2>1, <3>1
  <2> QED
    BY <2>2, <2>3
<1>2. CASE ListQueued \/ ListChecking \/ ListPushed \/ EndScan
  <2>1. PICK next \in {"queued", "checking", "pushed", "idle"}, listed \in SUBSET Task :
          scan' = [NoScan EXCEPT !.phase = next, !.todo = listed] /\ active' = active
    <3>1. PICK phase, next, listed :
            /\ listed \subseteq Task /\ List(phase, next, listed)
            /\ next \in {"queued", "checking", "pushed", "idle"}
      BY <1>2, Listings
    <3>2. scan' = [NoScan EXCEPT !.phase = next, !.todo = listed] /\ active' = active
      BY <3>1 DEF List
    <3> QED
      BY <3>1, <3>2
  <2> QED
    BY <1>0, <2>1 DEF ScanType, NoScan
<1>3. CASE \E t \in Task : Claim(t)
  <2>1. PICK t \in Task : Claim(t)
    BY <1>3
  <2>2. active' = active
    BY <2>1 DEF Claim
  <2>3. scan' = [scan EXCEPT !.todo = @ \ {t}] =>
          scan' \in ScanType
    BY <1>0 DEF ScanType
  <2>4. \A w \in Worker : scan' = [phase |-> "register", todo |-> scan.todo \ {t},
                                   task |-> t, worker |-> w] => scan' \in ScanType
    BY <1>0 DEF ScanType
  <2> QED
    BY <1>0, <2>1, <2>2, <2>3, <2>4, ClaimSaves
<1>4. CASE StartWorker
  <2>1. /\ scan.worker \in Worker /\ scan.task \in Task
        /\ active' = [active EXCEPT ![scan.task] = scan.worker]
        /\ scan' = [scan EXCEPT !.phase = "queued", !.task = NoTask, !.worker = NoWorker]
    BY <1>0, <1>4 DEF StartWorker, Start, ScanSound
  <2> QED
    BY <1>0, <2>1 DEF ScanType
<1>5. CASE \E t \in Task : \/ Resume(t, "checking", "load_push")
                           \/ Resume(t, "pushed", "load_pushed")
  <2>1. PICK t \in Task : scan' = [scan EXCEPT !.todo = @ \ {t}]
                          /\ \/ active' = active
                             \/ \E w \in Worker : active' = [active EXCEPT ![t] = w]
    BY <1>5 DEF Resume, Skip, Start
  <2>2. scan' \in ScanType
    BY <1>0, <2>1 DEF ScanType
  <2> QED
    BY <1>0, <2>1, <2>2
<1>6. CASE (\E t \in Task : Conflict(t)) \/ Crash
  BY <1>0, <1>6 DEF Conflict, Crash, ProcessEnds
<1>7. CASE AcquireFails
  <2>1. /\ active' = active
        /\ scan' = scan \/ \E t \in Task : scan' = [scan EXCEPT !.todo = @ \ {t}]
    <3>1. scan.todo \subseteq Task
      BY <1>0 DEF ScanType
    <3> QED
      BY <1>7, <3>1 DEF AcquireFails, Skip, leaseFrame
  <2> QED
    BY <1>0, <2>1 DEF ScanType
<1> QED
  BY <1>1, <1>2, <1>3, <1>4, <1>5, <1>6, <1>7, StepsOfScan DEF Scan

Lease == {"free", "held", "expired", "orphan"}

LEMMA NextLeaseType ==
  IInv /\ [Next]_vars => lease' \in [Task -> Lease] /\ lapsed' \subseteq Task
<1> SUFFICES ASSUME IInv, [Next]_vars
             PROVE  lease' \in [Task -> Lease] /\ lapsed' \subseteq Task
  OBVIOUS
<1>0. lease \in [Task -> Lease] /\ lapsed \subseteq Task
  BY DEF IInv, TypeOK, Lease
<1>1. CASE Stays
  BY <1>0, <1>1 DEF Stays, Lease
<1>2. CASE \E w \in Worker, n \in WorkerType, row \in RowType, b \in Branch :
             WorkStep(w, n, row, b)
  <2>1. PICK w \in Worker, n \in WorkerType, row \in RowType, b \in Branch :
          WorkStep(w, n, row, b)
    BY <1>2
  <2>2. T(w) \in Task
    BY <2>1, WorkRows
  <2> QED
    BY <1>0, <2>1, <2>2 DEF WorkStep, Leases, Lease
<1>3. CASE \E w \in Worker : Leaves(w)
  BY <1>0, <1>3 DEF Leaves
<1>4. CASE \E w \in Worker, t \in Task : Enters(w, t)
  BY <1>0, <1>4 DEF Enters, Lease
<1>5. CASE Ends
  BY <1>5 DEF Ends, Lease
<1> QED
  BY <1>1, <1>2, <1>3, <1>4, <1>5, NextWorkers

LEMMA NextCounters ==
  IInv /\ [Next]_vars =>
    /\ processed' \subseteq Message \cup Task /\ inbox' \subseteq Message
    /\ up' \in BOOLEAN /\ faults' \in 0 .. MaxFaults
<1> SUFFICES ASSUME IInv, [Next]_vars
             PROVE  /\ processed' \subseteq Message \cup Task /\ inbox' \subseteq Message
                    /\ up' \in BOOLEAN /\ faults' \in 0 .. MaxFaults
  OBVIOUS
<1>0. /\ processed \subseteq Message \cup Task /\ inbox \subseteq Message
      /\ up \in BOOLEAN /\ faults \in 0 .. MaxFaults
  BY DEF IInv, TypeOK
<1>1. CASE OtherStep
  <2>1. UNCHANGED <<processed, inbox, up>>
    BY <1>1 DEF OtherStep, Scan, Work, LoseLease, Renew, ReleaseFails, AcquireFails,
       ExpireLease, Stall, Claim, StartWorker, Resume, ListQueued, ListChecking,
       ListPushed, EndScan, List, vars, scanFrame, workerFrame, leaseFrame
  <2>2. faults' = faults \/ Fault
    BY <1>1 DEF OtherStep, Scan, Work, LoseLease, Renew, ReleaseFails, AcquireFails,
       ExpireLease, Stall, Claim, StartWorker, Resume, ListQueued, ListChecking,
       ListPushed, EndScan, List, vars, scanFrame, workerFrame, leaseFrame
  <2>3. faults' \in 0 .. MaxFaults
    BY <1>0, <2>2 DEF Fault
  <2> QED
    BY <1>0, <2>1, <2>3
<1>2. CASE \E t \in Task : Create(t) \/ Plan(t) \/ Interrupt(t) \/ \E m \in Message : Read(t, m)
  BY <1>0, <1>2 DEF Create, Plan, Interrupt, Read, handlerFrame
<1>3. CASE \E t \in Task : CommitCommand(t)
  <2>1. PICK t \in Task : CommitCommand(t)
    BY <1>3
  <2>2. PICK m \in Message : processed' = processed \cup {m}
    BY <2>1, CommandSaves DEF CommitCommand
  <2> QED
    BY <1>0, <2>1, <2>2 DEF CommitCommand, handlerFrame
<1>4. CASE (\E t \in Task : Conflict(t)) \/ Crash \/ RecoverInterrupted
  <2>1. up' \in BOOLEAN /\ UNCHANGED <<processed, inbox>> /\ (faults' = faults \/ Fault)
    BY <1>4 DEF Conflict, Crash, ProcessEnds, RecoverInterrupted
  <2>2. faults' \in 0 .. MaxFaults
    BY <1>0, <2>1 DEF Fault
  <2> QED
    BY <1>0, <2>1, <2>2
<1> QED
  BY <1>1, <1>2, <1>3, <1>4 DEF Next, Answer, OtherStep

LEMMA NextTypeOK ==
  IInv /\ [Next]_vars => TypeOK'
<1> SUFFICES ASSUME IInv, [Next]_vars
             PROVE  TypeOK'
  OBVIOUS
<1>1. /\ rows' \in [Task -> RowType] /\ remote' \in [Task -> Branch]
      /\ workers' \in [Worker -> WorkerType] /\ handlers' \in [Task -> HandlerType]
      /\ scan' \in ScanType /\ active' \in [Task -> Worker \cup {NoWorker}]
      /\ gitMu' \in [Project -> Worker \cup {NoWorker}] /\ current' \subseteq Holders
      /\ lease' \in [Task -> Lease] /\ lapsed' \subseteq Task
  BY NextRowSound, NextWorkerSound, NextHandlerSound, NextScanType, NextMutexSound,
     NextCurrent, NextLeaseType
<1>2. /\ processed' \subseteq Message \cup Task /\ inbox' \subseteq Message
      /\ up' \in BOOLEAN /\ faults' \in 0 .. MaxFaults
  BY NextCounters
<1>3. Holders = Worker \cup Task \cup {ScanItem(t) : t \in Task}
  BY DEF Holders
<1> QED
  BY <1>1, <1>2, <1>3 DEF TypeOK, RowType, Branch, WorkerType, HandlerType, ScanType, Pc,
     Lease

LEMMA InitIInv == Init => IInv
<1> SUFFICES ASSUME Init
             PROVE  IInv
  OBVIOUS
<1>1. /\ \A t \in Task : /\ rows[t].status = "absent" /\ rows[t].commit = NoCommit
                         /\ rows[t].exec = "none" /\ handlers[t] = NoHandler
                         /\ lease[t] = "free" /\ remote[t] = NoCommit
      /\ \A w \in Worker : workers[w] = Idle
      /\ scan = NoScan /\ current = {} /\ up
      /\ \A p \in Project : gitMu[p] = NoWorker
  BY DEF Init
<1>2. TypeOK
  <2>1. /\ Idle \in WorkerType /\ NoScan \in ScanType /\ NoHandler \in HandlerType
        /\ [status |-> "absent", exec |-> "none", commit |-> NoCommit] \in RowType
    BY IdleFacts DEF NoScan, ScanType, NoHandler, HandlerType, RowType
  <2>2. /\ rows \in [Task -> RowType] /\ remote \in [Task -> Branch]
        /\ workers \in [Worker -> WorkerType] /\ handlers \in [Task -> HandlerType]
        /\ scan \in ScanType /\ active \in [Task -> Worker \cup {NoWorker}]
        /\ gitMu \in [Project -> Worker \cup {NoWorker}]
        /\ lease \in [Task -> Lease] /\ lapsed = {}
        /\ processed = {} /\ inbox = Message /\ current = {} /\ up = TRUE /\ faults = 0
    BY <2>1 DEF Init, Branch, Lease
  <2>3. faults \in 0 .. MaxFaults /\ up \in BOOLEAN
    BY <2>2
  <2> QED
    BY <2>2, <2>3 DEF TypeOK, RowType, Branch, WorkerType, HandlerType, ScanType, Pc, Lease
<1>3. RowSound
  BY <1>1 DEF RowSound, RowShape
<1>4. WorkerSound /\ OneDriver /\ LeaseSound
  <2>1. ASSUME NEW w \in Worker
        PROVE  Sound(w, workers[w], rows[T(w)], remote[T(w)], w \in current)
    <3>1. workers[w] = Idle /\ w \notin current
      BY <1>1
    <3> QED
      BY <3>1, IdleSound DEF Sound
  <2>2. WorkerSound
    BY <2>1, SoundWorkers
  <2> QED
    BY <1>1, <2>2, IdleFacts DEF OneDriver, Drives, LeaseSound
<1>5. MutexSound
  <2>1. \A w \in Worker : SlotOf[w] \in Project /\ w # NoWorker
    OBVIOUS
  <2> QED
    BY <1>1, <2>1, IdleFacts DEF MutexSound
<1>6. HandlerSound /\ ScanSound /\ DownSound /\ PushSound
  BY <1>1, IdleFacts DEF HandlerSound, NoHandler, ScanSound, NoScan, DownSound, PushSound
<1> QED
  BY <1>2, <1>3, <1>4, <1>5, <1>6 DEF IInv

LEMMA NextIInv == IInv /\ [Next]_vars => IInv'
BY NextTypeOK, NextRowSound, NextWorkerSound, NextPushSound, NextOneDriver, NextLeaseSound,
   NextMutexSound, NextHandlerSound, NextScanSound, NextDownSound DEF IInv

-----------------------------------------------------------------------------
(* The properties. *)

(* The invariant that the properties of the execution rest on holds in      *)
(* every state, for any number of tasks, workers, messages and faults.      *)
THEOREM InductiveInvariant == Spec => []IInv
<1>1. Init => IInv
  BY InitIInv
<1>2. IInv /\ [Next]_vars => IInv'
  BY NextIInv
<1> QED
  BY <1>1, <1>2, PTL DEF Spec

(* Every variable keeps its type.                                           *)
THEOREM TypeCorrect == Spec => []TypeOK
<1>1. IInv => TypeOK
  BY DEF IInv
<1> QED
  BY <1>1, InductiveInvariant, PTL

(* Two workers of one task never use its worktree together, even when the   *)
(* task was queued again, or resumed, while its former worker still ran:    *)
(* the stale one has lost its copy or the push lease, and only leaves.  A   *)
(* push counts while no lease of its task has lapsed: one that outlived its *)
(* lease is outside the statement, as nothing in the code stops it.         *)
THEOREM WorktreesAreExclusive == Spec => []WorktreeExclusive
<1>1. IInv => WorktreeExclusive
  <2> SUFFICES ASSUME IInv, NEW v \in Worker, NEW w \in Worker,
                      T(v) = T(w), InWorktree(v), InWorktree(w)
               PROVE  v = w
    BY DEF WorktreeExclusive
  <2>1. ASSUME NEW u \in Worker, InWorktree(u)
        PROVE  Drives(workers[u])
    <3>1. /\ workers[u].pc \in {"prepare", "save_prepared", "codex", "checks", "lease", "push"}
          /\ workers[u].pc = "push" => T(u) \notin lapsed
      BY <2>1 DEF InWorktree
    <3>2. WorkerShape(u, workers[u])
      BY DEF IInv, WorkerSound
    <3>3. ~Adrift(workers[u])
      BY <3>1, <3>2 DEF WorkerShape, Adrift, Preparing, Executing, T
    <3> QED
      BY <3>1, <3>3 DEF Drives, Steady, Bound, Preparing, Executing, Pushing
  <2>2. Drives(workers[v]) /\ Drives(workers[w])
    BY <2>1
  <2> QED
    BY <2>2 DEF IInv, OneDriver
<1> QED
  BY <1>1, InductiveInvariant, PTL

LEMMA LeaseHolders == IInv => LeaseHasHolder
<1> SUFFICES ASSUME IInv, NEW t \in Task \ lapsed
             PROVE  Cardinality(Leased(t)) = IF lease[t] = "held" THEN 1 ELSE 0
  BY DEF LeaseHasHolder
<1>0. /\ \A w \in Leased(t) : w \in Worker /\ workers[w].leased /\ T(w) = t
      /\ \A w \in Worker : workers[w].leased /\ T(w) = t => w \in Leased(t)
      /\ LeaseSound
  BY DEF IInv, Leased, T
<1>1. CASE lease[t] = "held"
  <2>1. PICK w \in Worker : workers[w].leased /\ T(w) = t
    BY <1>0, <1>1 DEF LeaseSound
  <2>2. Leased(t) = {w}
    BY <1>0, <2>1 DEF LeaseSound
  <2> QED
    BY <1>1, <2>2, FS_Singleton
<1>2. CASE lease[t] # "held"
  <2>1. Leased(t) = {}
    BY <1>0, <1>2 DEF LeaseSound
  <2> QED
    BY <1>2, <2>1, FS_EmptySet
<1> QED
  BY <1>1, <1>2

LEMMA MutexHolders == IInv => GitMutexReleased
<1> SUFFICES ASSUME IInv, NEW p \in Project
             PROVE  gitMu[p] # NoWorker <=>
                      \E w \in Worker : SlotOf[w] = p /\ workers[w].pc \in {"prepare", "push"}
  BY DEF GitMutexReleased
<1>0. MutexSound /\ gitMu \in [Project -> Worker \cup {NoWorker}]
  BY DEF IInv, TypeOK
<1>1. ASSUME gitMu[p] # NoWorker
      PROVE  \E w \in Worker : SlotOf[w] = p /\ workers[w].pc \in {"prepare", "push"}
  <2>1. gitMu[p] \in Worker /\ SlotOf[gitMu[p]] = p
    BY <1>0, <1>1 DEF MutexSound
  <2> QED
    BY <1>0, <2>1 DEF MutexSound
<1>2. ASSUME NEW w \in Worker, SlotOf[w] = p, workers[w].pc \in {"prepare", "push"}
      PROVE  gitMu[p] # NoWorker
  BY <1>0, <1>2 DEF MutexSound
<1> QED
  BY <1>1, <1>2

(* The git mutex of a project is held by one worker at its work, whatever   *)
(* fails, and a push lease has one holder unless the lease of that task has *)
(* lapsed: a release that failed, or a renewal that failed or came too      *)
(* late.  Every other way out of a step gives back what the worker took,    *)
(* also when its context ends or its save conflicts.                        *)
THEOREM ResourcesAreHeld == Spec => []ResourcesHaveHolders
<1>1. IInv => ResourcesHaveHolders
  BY LeaseHolders, MutexHolders DEF ResourcesHaveHolders
<1> QED
  BY <1>1, InductiveInvariant, PTL

(* The branch of a task that is pushed, or announced for a merge, holds the *)
(* commit of its row.                                                       *)
THEOREM BranchIsAnnounced == Spec => []PushedIsRemote
<1>1. IInv => PushedIsRemote
  BY DEF IInv, RowSound, RowShape, PushedIsRemote
<1> QED
  BY <1>1, InductiveInvariant, PTL

-----------------------------------------------------------------------------
(* The execution implements TaskLedger. *)

LEMMA LedgerReads ==
  ASSUME NEW t \in Task
  PROVE  /\ LedgerTasks[t] = LedgerRow(rows[t])
         /\ LedgerTasks[t].status = rows[t].status
         /\ LedgerTasks[t].exec = rows[t].exec
         /\ LedgerTasks[t].commit = rows[t].commit
BY DEF LedgerTasks, LedgerRow

LEMMA LedgerSave ==
  ASSUME TypeOK, NEW t \in Task, NEW row, rows' = [rows EXCEPT ![t] = row]
  PROVE  Ledger!SetRow(t, LedgerRow(row))
<1>1. rows' = [u \in Task |-> IF u = t THEN row ELSE rows[u]]
  BY DEF TypeOK
<1> QED
  BY <1>1 DEF LedgerTasks, Ledger!SetRow

LEMMA SameTable ==
  /\ \A a, b : Ledger!CanTransition(a, b) = CanTransition(a, b)
  /\ \A a, b : Ledger!Recovered(a, b) = Recovered(a, b)
BY DEF Ledger!CanTransition, CanTransition, Ledger!Recovered, Recovered,
       Ledger!Interrupted, Interrupted

(* There are no approvals to invalidate. *)
LEMMA NoApprovals ==
  ASSUME NEW t, NEW kind, NEW r
  PROVE  Ledger!Invalidated(t, kind, r) = [m \in Message |-> NoApproval]
BY DEF Ledger!Invalidated, Ledger!IsApproved, NoApproval

(* What each save of a worker changes, and what its row was like. *)
Saved(t, r, row) ==
  \/ /\ r.status = "running" /\ r.exec = "none"
     /\ row.status = r.status /\ row.commit = r.commit /\ row.exec = "prepared"
  \/ /\ r.status = "running" /\ r.exec # "none"
     /\ row.status = r.status /\ row.commit = r.commit /\ row.exec = "session"
  \/ /\ r.status = "running" /\ r.exec # "none"
     /\ row.status = "blocked" /\ row.commit = r.commit /\ row.exec = "session"
  \/ /\ r.status = "running" /\ r.exec = "session"
     /\ row.status = "checking" /\ row.commit = r.commit /\ row.exec = r.exec
  \/ /\ r.status = "checking"
     /\ row.status = r.status /\ row.commit \in Commit /\ row.exec = r.exec
  \/ /\ r.status = "checking" /\ r.commit # NoCommit
     /\ row.status = "pushed" /\ row.commit = r.commit /\ row.exec = r.exec
  \/ /\ r.status = "pushed"
     /\ row.status = "awaiting_merge_approval" /\ row.commit = r.commit
     /\ row.exec = r.exec
  \/ /\ r.status \in {"queued", "running", "blocked", "checking", "pushed"}
     /\ row.status = "failed" /\ row.commit = r.commit /\ row.exec = r.exec

(* What a worker knows of the row that it is going to save over.            *)
Knows(w, r) ==
  /\ RowShape(r, remote[T(w)])
  /\ \/ Steady(workers[w]) /\ Fits(workers[w], r, remote[T(w)])
     \/ /\ Adrift(workers[w]) /\ Started(r)
        /\ FitsAdrift(workers[w], r, remote[T(w)])

LEMMA WorkerSaves ==
  ASSUME IInv, NEW w \in Worker, Work(w)
  PROVE  \/ rows' = rows
         \/ \E r \in RowType, row \in RowType :
              /\ T(w) \in Task /\ r = rows[T(w)] /\ rows' = [rows EXCEPT ![T(w)] = row]
              /\ up /\ Saved(T(w), r, row)
<1>1. CASE rows' = rows
  BY <1>1
<1>2. ASSUME NEW pc \in Saves \ {"prepare", "push"}, At(w, pc),
             NEW x, Save(w, T(w), x),
             \A r \in RowType :
               r = rows[T(w)] /\ Knows(w, r) /\ WorkerShape(w, workers[w])
               => x \in RowType /\ Saved(T(w), r, x)
      PROVE  \E r \in RowType, row \in RowType :
               /\ T(w) \in Task /\ r = rows[T(w)] /\ rows' = [rows EXCEPT ![T(w)] = row]
               /\ up /\ Saved(T(w), r, row)
  <2>1. workers[w].pc \in Saves \ {"prepare", "push"} /\ up /\ w \in current
    BY <1>2 DEF At, Save
  <2>2. workers[w].pc \in Bound /\ workers[w].pc \notin {"idle", "reserved"}
    BY <2>1 DEF Saves, Bound, Preparing, Executing, Pushing
  <2>3. /\ Knows(w, rows[T(w)]) /\ WorkerShape(w, workers[w])
        /\ rows[T(w)] \in RowType /\ T(w) \in Task
    BY <2>1, <2>2, AtWork DEF Knows, Steady
  <2> QED
    BY <1>2, <2>1, <2>3 DEF Save
<1>3. ASSUME NEW r \in RowType, NEW s \in Status
      PROVE  /\ [r EXCEPT !.status = s] \in RowType /\ [r EXCEPT !.status = s].status = s
             /\ [r EXCEPT !.status = s].exec = r.exec
             /\ [r EXCEPT !.status = s].commit = r.commit
  BY DEF RowType
<1>4. CASE SavePrepared(w) \/ SaveSession(w)
  <2>1. PICK e \in {"prepared", "session"} :
          /\ At(w, IF e = "prepared" THEN "save_prepared" ELSE "save_session")
          /\ rows' = rows \/ Save(w, T(w), [rows[T(w)] EXCEPT !.exec = e])
    BY <1>4 DEF SavePrepared, SaveSession, Checkpoint
  <2>2. ASSUME NEW r \in RowType, r = rows[T(w)], Knows(w, r), WorkerShape(w, workers[w])
        PROVE  /\ [rows[T(w)] EXCEPT !.exec = e] \in RowType
               /\ Saved(T(w), r, [rows[T(w)] EXCEPT !.exec = e])
    <3>1. /\ [r EXCEPT !.exec = e] \in RowType /\ [r EXCEPT !.exec = e].exec = e
          /\ [r EXCEPT !.exec = e].status = r.status
          /\ [r EXCEPT !.exec = e].commit = r.commit
      BY DEF RowType
    <3>2. Fits(workers[w], r, remote[T(w)])
      <4>1. workers[w].pc \in {"save_prepared", "save_session"}
        BY <2>1 DEF At
      <4>2. ~workers[w].leased
        BY <2>2, <4>1 DEF WorkerShape, Preparing, Executing
      <4> QED
        BY <2>2, <4>2 DEF Knows, Adrift
    <3>3. /\ r.status = "running"
          /\ e = "prepared" => r.exec = "none"
          /\ e = "session" => r.exec # "none"
      BY <2>1, <3>2 DEF Fits, At
    <3> QED
      BY <2>1, <2>2, <3>1, <3>3 DEF Saved
  <2> QED
    BY <1>1, <1>2, <2>1, <2>2 DEF Saves
<1>5. CASE SaveCommit(w)
  <2>1. /\ At(w, "save_commit")
        /\ rows' = rows \/ Save(w, T(w), [rows[T(w)] EXCEPT !.commit = workers[w].commit])
    BY <1>5 DEF SaveCommit, Checkpoint
  <2>2. ASSUME NEW r \in RowType, r = rows[T(w)], Knows(w, r), WorkerShape(w, workers[w])
        PROVE  /\ [rows[T(w)] EXCEPT !.commit = workers[w].commit] \in RowType
               /\ Saved(T(w), r, [rows[T(w)] EXCEPT !.commit = workers[w].commit])
    <3>1. PICK c \in Commit : c = workers[w].commit
      BY <2>1, <2>2 DEF WorkerShape, At
    <3>2. /\ [r EXCEPT !.commit = c] \in RowType /\ [r EXCEPT !.commit = c].exec = r.exec
          /\ [r EXCEPT !.commit = c].status = r.status
          /\ [r EXCEPT !.commit = c].commit = c
      BY DEF RowType
    <3>3. Fits(workers[w], r, remote[T(w)])
      BY <2>1, <2>2 DEF Knows, Adrift, At
    <3> QED
      BY <2>1, <2>2, <3>1, <3>2, <3>3 DEF Saved, Fits, At
  <2> QED
    BY <1>1, <1>2, <2>1, <2>2 DEF Saves
<1>6. CASE SaveBlocked(w)
  <2>1. /\ At(w, "save_blocked")
        /\ rows' = rows
             \/ Save(w, T(w), [Moved(T(w), "blocked") EXCEPT !.exec = "session"])
    BY <1>6 DEF SaveBlocked, Transition
  <2>2. ASSUME NEW r \in RowType, r = rows[T(w)], Knows(w, r), WorkerShape(w, workers[w])
        PROVE  /\ [Moved(T(w), "blocked") EXCEPT !.exec = "session"] \in RowType
               /\ Saved(T(w), r, [Moved(T(w), "blocked") EXCEPT !.exec = "session"])
    <3> DEFINE x == [r EXCEPT !.status = "blocked"]
    <3>1. x \in RowType /\ x.status = "blocked" /\ x.commit = r.commit
      BY <1>3 DEF Status
    <3>2. Moved(T(w), "blocked") = x
      BY <2>2 DEF Moved
    <3> HIDE DEF x
    <3>3. /\ [x EXCEPT !.exec = "session"] \in RowType
          /\ [x EXCEPT !.exec = "session"].exec = "session"
          /\ [x EXCEPT !.exec = "session"].status = x.status
          /\ [x EXCEPT !.exec = "session"].commit = x.commit
      BY <3>1 DEF RowType
    <3>4. Fits(workers[w], r, remote[T(w)])
      <4>1. ~workers[w].leased
        BY <2>1, <2>2 DEF WorkerShape, At, Preparing, Executing
      <4> QED
        BY <2>2, <4>1 DEF Knows, Adrift
    <3> QED
      BY <2>1, <2>2, <3>1, <3>2, <3>3, <3>4 DEF Saved, Fits, At
  <2> QED
    BY <1>1, <1>2, <2>1, <2>2 DEF Saves
<1>7. CASE ToChecking(w) \/ ToPushed(w) \/ ToAwaiting(w) \/ SaveFail(w)
  <2>1. PICK s \in {"checking", "pushed", "awaiting_merge_approval", "failed"} :
          /\ At(w, CASE s = "checking" -> "to_checking" [] s = "pushed" -> "to_pushed"
                     [] s = "awaiting_merge_approval" -> "to_awaiting"
                     [] s = "failed" -> "save_fail")
          /\ rows' = rows \/ Save(w, T(w), Moved(T(w), s))
    BY <1>7 DEF ToChecking, ToPushed, ToAwaiting, SaveFail, Transition
  <2>2. ASSUME NEW r \in RowType, r = rows[T(w)], Knows(w, r), WorkerShape(w, workers[w])
        PROVE  Moved(T(w), s) \in RowType /\ Saved(T(w), r, Moved(T(w), s))
    <3> DEFINE x == Moved(T(w), s)
    <3>1. x = [r EXCEPT !.status = s] /\ s \in Status
      BY <2>2 DEF Status, Moved
    <3>2. x \in RowType /\ x.status = s /\ x.commit = r.commit /\ x.exec = r.exec
      BY <1>3, <3>1
    <3> HIDE DEF x
    <3>3. r.status \in CASE s = "checking" -> {"running"} [] s = "pushed" -> {"checking"}
                         [] s = "awaiting_merge_approval" -> {"pushed"}
                         [] s = "failed" -> {"queued", "running", "blocked", "checking",
                                             "pushed"}
      <4>1. CASE Fits(workers[w], r, remote[T(w)])
        BY <2>1, <4>1 DEF Fits, At
      <4>2. CASE /\ Adrift(workers[w]) /\ Started(r)
                 /\ FitsAdrift(workers[w], r, remote[T(w)])
        <5>1. s # "checking"
          BY <2>1, <2>2, <4>2 DEF Adrift, WorkerShape, At, Executing
        <5>2. CanTransition(r.status, "failed") =>
                r.status \in {"queued", "running", "blocked", "checking", "pushed"}
          BY <2>2, <4>2 DEF CanTransition, Knows, RowShape, Started
        <5> QED
          BY <2>1, <4>2, <5>1, <5>2 DEF FitsAdrift, At
      <4> QED
        BY <2>2, <4>1, <4>2 DEF Knows
    <3>4. /\ s = "checking" => r.exec = "session"
          /\ s = "pushed" => r.commit # NoCommit
      <4>1. CASE Fits(workers[w], r, remote[T(w)])
        BY <2>1, <4>1 DEF Fits, At
      <4>2. CASE Adrift(workers[w]) /\ FitsAdrift(workers[w], r, remote[T(w)])
        <5>1. s # "checking"
          BY <2>1, <2>2, <4>2 DEF Adrift, WorkerShape, At, Executing
        <5> QED
          BY <2>1, <4>2, <5>1 DEF FitsAdrift, At
      <4> QED
        BY <2>2, <4>1, <4>2 DEF Knows
    <3> QED
      BY <3>2, <3>3, <3>4 DEF Saved, x
  <2> QED
    BY <1>1, <1>2, <2>1, <2>2 DEF Saves
<1>8. CASE \/ Begin(w) \/ LoadTask(w) \/ Prepare(w) \/ RunCodex(w) \/ AfterCodex(w)
           \/ LockGit(w, "git", "running", "prepare")
           \/ LockGit(w, "push_wait", "checking", "push")
           \/ RunChecks(w) \/ AcquireLease(w) \/ LoadCommit(w) \/ LoadPush(w) \/ Push(w)
           \/ LoadPushed(w) \/ LoadFail(w) \/ Notify(w) \/ ReleaseLease(w) \/ Exit(w)
  BY <1>8 DEF Begin, LoadTask, Prepare, RunCodex, AfterCodex, LockGit, RunChecks,
     AcquireLease, LoadCommit, LoadPush, Push, LoadPushed, LoadFail, Notify, ReleaseLease,
     Exit, Local
<1> QED
  BY <1>4, <1>5, <1>6, <1>7, <1>8 DEF Work

LEMMA WorkRefines ==
  ASSUME IInv, NEW w \in Worker, Work(w)
  PROVE  Ledger!Next \/ UNCHANGED Ledger!vars
<1>1. UNCHANGED <<processed, up>>
  BY DEF Work, workerFrame
<1>2. CASE rows' = rows
  BY <1>1, <1>2 DEF Ledger!vars, LedgerTasks
<1>3. ASSUME NEW t \in Task, NEW r \in RowType, NEW row \in RowType, r = rows[t],
             rows' = [rows EXCEPT ![t] = row], up, Saved(t, r, row)
      PROVE  Ledger!Next
  <2>1. /\ Ledger!SetRow(t, LedgerRow(row)) /\ LedgerTasks[t] = LedgerRow(r)
        /\ LedgerTasks[t].status = r.status /\ LedgerTasks[t].exec = r.exec
        /\ LedgerTasks[t].commit = r.commit
    BY <1>3, LedgerSave, LedgerReads DEF IInv
  <2>2. Ledger!Internal
    BY <1>1 DEF Ledger!Internal
  <2>3. CASE /\ r.status = "running" /\ r.exec = "none"
             /\ row.status = r.status /\ row.commit = r.commit /\ row.exec = "prepared"
    <3>1. LedgerRow(row) = [LedgerTasks[t] EXCEPT !.exec = "prepared"]
      BY <2>1, <2>3 DEF LedgerRow
    <3>2. Ledger!CheckpointPrepared(t)
      BY <1>3, <2>1, <2>2, <2>3, <3>1 DEF Ledger!CheckpointPrepared
    <3> QED
      BY <3>2 DEF Ledger!Next, Ledger!Execute
  <2>4. CASE /\ r.status = "running" /\ r.exec # "none"
             /\ row.status = r.status /\ row.commit = r.commit /\ row.exec = "session"
    <3>1. LedgerRow(row) = [LedgerTasks[t] EXCEPT !.exec = "session"]
      BY <2>1, <2>4 DEF LedgerRow
    <3>2. Ledger!CheckpointSession(t)
      BY <1>3, <2>1, <2>2, <2>4, <3>1 DEF Ledger!CheckpointSession
    <3> QED
      BY <3>2 DEF Ledger!Next, Ledger!Execute
  <2>5. CASE /\ r.status = "running" /\ r.exec # "none"
             /\ row.status = "blocked" /\ row.commit = r.commit /\ row.exec = "session"
    <3>1. LedgerRow(row) = [LedgerTasks[t] EXCEPT !.status = "blocked", !.exec = "session"]
      <4> DEFINE x == [status |-> "blocked", exec |-> r.exec, commit |-> r.commit,
                       rc |-> NoCommit, key |-> NoCommit]
      <4>1. [LedgerTasks[t] EXCEPT !.status = "blocked"] = x
        BY <2>1 DEF LedgerRow
      <4>2. LedgerRow(row) = [x EXCEPT !.exec = "session"]
        BY <2>5 DEF LedgerRow
      <4>3. [LedgerTasks[t] EXCEPT !.status = "blocked", !.exec = "session"] =
              [[LedgerTasks[t] EXCEPT !.status = "blocked"] EXCEPT !.exec = "session"]
        OBVIOUS
      <4> HIDE DEF x
      <4> QED
        BY <4>1, <4>2, <4>3
    <3>2. Ledger!Block(t)
      BY <1>3, <2>1, <2>2, <2>5, <3>1 DEF Ledger!Block
    <3> QED
      BY <3>2 DEF Ledger!Next, Ledger!Execute
  <2>6. CASE /\ r.status = "checking"
             /\ row.status = r.status /\ row.commit \in Commit /\ row.exec = r.exec
    <3>1. LedgerRow(row) = [LedgerTasks[t] EXCEPT !.commit = row.commit]
      BY <2>1, <2>6 DEF LedgerRow
    <3>2. Ledger!CheckpointCommit(t, row.commit)
      BY <1>3, <2>1, <2>2, <2>6, <3>1 DEF Ledger!CheckpointCommit
    <3> QED
      BY <2>6, <3>2 DEF Ledger!Next, Ledger!Execute
  <2>7. ASSUME row.commit = r.commit, row.exec = r.exec,
               \/ r.status = "running" /\ r.exec = "session" /\ row.status = "checking"
               \/ /\ r.status = "checking" /\ r.commit # NoCommit
                  /\ row.status = "pushed"
               \/ r.status = "pushed" /\ row.status = "awaiting_merge_approval"
               \/ /\ r.status \in {"queued", "running", "blocked", "checking", "pushed"}
                  /\ row.status = "failed"
        PROVE  Ledger!Next
    <3>1. LedgerRow(row) = [LedgerTasks[t] EXCEPT !.status = row.status]
      BY <2>1, <2>7 DEF LedgerRow
    <3>2. Ledger!CanTransition(LedgerTasks[t].status, row.status)
      BY <2>1, <2>7 DEF Ledger!CanTransition
    <3>3. Ledger!SetStatus(t, row.status)
      BY <2>1, <3>1, <3>2 DEF Ledger!SetStatus
    <3>4. CASE r.status = "running" /\ r.exec = "session" /\ row.status = "checking"
      <4>1. Ledger!StartChecks(t)
        BY <1>3, <2>1, <2>2, <3>3, <3>4 DEF Ledger!StartChecks
      <4> QED
        BY <4>1 DEF Ledger!Next, Ledger!Execute
    <3>5. CASE r.status = "checking" /\ r.commit # NoCommit /\ row.status = "pushed"
      <4>1. Ledger!RecordPush(t)
        BY <1>3, <2>1, <2>2, <3>3, <3>5, NoApprovals DEF Ledger!RecordPush
      <4> QED
        BY <4>1 DEF Ledger!Next, Ledger!Execute
    <3>6. CASE r.status = "pushed" /\ row.status = "awaiting_merge_approval"
      <4>1. Ledger!AwaitMergeApproval(t)
        BY <1>3, <2>1, <2>2, <3>3, <3>6 DEF Ledger!AwaitMergeApproval
      <4> QED
        BY <4>1 DEF Ledger!Next, Ledger!Execute
    <3>7. CASE /\ r.status \in {"queued", "running", "blocked", "checking", "pushed"}
               /\ row.status = "failed"
      <4>1. Ledger!FailTask(t)
        BY <1>3, <2>1, <2>2, <3>3, <3>7 DEF Ledger!FailTask
      <4> QED
        BY <4>1 DEF Ledger!Next, Ledger!Execute
    <3> QED
      BY <2>7, <3>4, <3>5, <3>6, <3>7
  <2> QED
    BY <1>3, <2>3, <2>4, <2>5, <2>6, <2>7 DEF Saved
<1> QED
  BY <1>2, <1>3, WorkerSaves

LEMMA CreateRefines ==
  ASSUME IInv, NEW t \in Task, Create(t)
  PROVE  Ledger!Next \/ UNCHANGED Ledger!vars
<1>1. up /\ UNCHANGED up
  BY DEF Create
<1>2. PICK r \in RowType : r = rows[t]
  BY Types DEF IInv
<1>3. CASE UNCHANGED rows /\ rows[t].status \notin {"absent", "draft"}
  <2>1. t \notin processed /\ processed' = processed \cup {t}
    BY <1>3 DEF Create
  <2>2. Ledger!RecordCommand(t, t)
    BY <1>1, <1>3, <2>1, LedgerReads
    DEF Ledger!RecordCommand, Ledger!ProcessMessage, LedgerTasks
  <2> QED
    BY <2>2 DEF Ledger!Next, Ledger!Command
<1>4. CASE /\ TableStep(t, t, Moved(t, "draft")) /\ UNCHANGED processed
           /\ rows[t].status \in {"absent", "draft"}
  <2> DEFINE row == Moved(t, "draft")
  <2>1. /\ row \in RowType /\ row.status = "draft" /\ row.exec = r.exec
        /\ row.commit = r.commit /\ rows' = [rows EXCEPT ![t] = row]
    BY <1>2, <1>4, MovedRow DEF TableStep, Status, IInv
  <2>2. row = [r EXCEPT !.status = "draft"]
    BY <1>2 DEF Moved
  <2> HIDE DEF row
  <2>3. CASE r.status = "draft"
    <3>1. row = r
      BY <2>2, <2>3 DEF RowType
    <3>2. rows' = rows
      BY <1>2, <2>1, <3>1, Types DEF IInv
    <3> QED
      BY <1>1, <1>4, <3>2 DEF Ledger!vars, LedgerTasks
  <2>4. CASE r.status = "absent"
    <3>1. Ledger!SetRow(t, LedgerRow(row)) /\ LedgerTasks[t] = LedgerRow(r)
      BY <1>2, <2>1, LedgerSave, LedgerReads DEF IInv
    <3>2. LedgerRow(row) = [LedgerTasks[t] EXCEPT !.status = "draft"]
      BY <2>1, <3>1 DEF LedgerRow
    <3>3. Ledger!SetRow(t, [LedgerTasks[t] EXCEPT !.status = "draft"])
      BY <3>1, <3>2
    <3>4. Ledger!CreateDraft(t)
      BY <1>1, <1>2, <1>4, <2>4, <3>3, LedgerReads DEF Ledger!CreateDraft
    <3> QED
      BY <3>4 DEF Ledger!Next, Ledger!Command
  <2> QED
    BY <1>2, <1>4, <2>3, <2>4
<1> QED
  BY <1>3, <1>4, CreateSaves

(* A row that only changes its status. *)
LEMMA StatusSaved ==
  ASSUME IInv, NEW t \in Task, NEW row \in RowType, NEW s, row.status = s,
         row.exec = rows[t].exec, row.commit = rows[t].commit,
         rows' = [rows EXCEPT ![t] = row], CanTransition(rows[t].status, s)
  PROVE  Ledger!SetStatus(t, s)
<1>1. PICK r \in RowType : r = rows[t]
  BY Types DEF IInv
<1>2. Ledger!SetRow(t, LedgerRow(row)) /\ LedgerTasks[t] = LedgerRow(r)
  BY <1>1, LedgerSave, LedgerReads DEF IInv
<1>3. LedgerRow(row) = [LedgerTasks[t] EXCEPT !.status = s]
  BY <1>1, <1>2 DEF LedgerRow
<1>4. Ledger!SetRow(t, [LedgerTasks[t] EXCEPT !.status = s])
  BY <1>2, <1>3
<1> QED
  BY <1>4, LedgerReads, SameTable DEF Ledger!SetStatus

LEMMA PlanRefines ==
  ASSUME IInv, NEW t \in Task, Plan(t)
  PROVE  Ledger!Next
<1>1. up /\ UNCHANGED up /\ t \notin processed /\ processed' = processed \cup {t}
  BY PlanSaves DEF Plan
<1>2. PICK next \in {"awaiting_confirmation", "failed"} : TableStep(t, t, Moved(t, next))
  BY PlanSaves
<1>3. /\ Moved(t, next) \in RowType /\ Moved(t, next).status = next
      /\ Moved(t, next).exec = rows[t].exec /\ Moved(t, next).commit = rows[t].commit
      /\ rows' = [rows EXCEPT ![t] = Moved(t, next)]
  BY <1>2, MovedRow DEF TableStep, Status, IInv
<1>4. rows[t].status = "draft" /\ CanTransition(rows[t].status, next)
  BY PlanSaves DEF CanTransition
<1>5. Ledger!SetStatus(t, next)
  BY <1>3, <1>4, StatusSaved
<1>6. Ledger!FinishPlanning(t, next)
  BY <1>1, <1>4, <1>5, LedgerReads DEF Ledger!FinishPlanning, Ledger!ProcessMessage
<1> QED
  BY <1>6 DEF Ledger!Next, Ledger!Command

LEMMA CommandRefines ==
  ASSUME IInv, NEW t \in Task, CommitCommand(t)
  PROVE  Ledger!Next
<1> DEFINE m == handlers[t].message
           row == Result(m, t)
<1>1. /\ m \in Message /\ m \notin processed /\ Admits(m, t)
      /\ CanOperate(Sender[m], t)
      /\ row \in RowType /\ rows' = [rows EXCEPT ![t] = row]
      /\ row.status = CASE CommandOf[m] = "cancel" -> "cancelled"
                        [] OTHER -> "queued"
      /\ row.exec = rows[t].exec
      /\ row.commit = IF CommandOf[m] = "supplement" THEN NoCommit ELSE rows[t].commit
  BY CommandSaves DEF TableStep
<1>2. up /\ UNCHANGED up /\ processed' = processed \cup {m}
  BY DEF CommitCommand
<1>3. Ledger!CanOperate(Sender[m], t)
  BY <1>1 DEF Ledger!CanOperate, CanOperate
<1>4. Ledger!ProcessMessage(m)
  BY <1>1, <1>2 DEF Ledger!ProcessMessage
<1> HIDE DEF m, row
<1>5. CASE /\ CommandOf[m] = "confirm"
           /\ rows[t].status = "awaiting_confirmation" /\ Sender[m] = Creator[t]
  <2>1. row.status = "queued" /\ row.commit = rows[t].commit
    BY <1>1, <1>5
  <2>2. CanTransition(rows[t].status, "queued")
    BY <1>5 DEF CanTransition
  <2>3. Ledger!SetStatus(t, "queued")
    BY <1>1, <2>1, <2>2, StatusSaved
  <2>4. Ledger!Confirm(t, m)
    BY <1>2, <1>4, <1>5, <2>3, LedgerReads DEF Ledger!Confirm
  <2> QED
    BY <1>1, <2>4 DEF Ledger!Next, Ledger!Command
<1>6. CASE /\ CommandOf[m] = "supplement"
           /\ rows[t].status \in {"blocked", "awaiting_merge_approval"}
  <2>1. row.status = "queued" /\ row.commit = NoCommit
    BY <1>1, <1>6
  <2>2. PICK r \in RowType : r = rows[t]
    BY Types DEF IInv
  <2>3. LedgerRow(row) = [LedgerTasks[t] EXCEPT !.status = "queued", !.commit = NoCommit,
                                                !.rc = NoCommit]
    <3> DEFINE x == [status |-> "queued", exec |-> r.exec, commit |-> r.commit,
                     rc |-> NoCommit, key |-> NoCommit]
               y == [status |-> "queued", exec |-> r.exec, commit |-> NoCommit,
                     rc |-> NoCommit, key |-> NoCommit]
    <3>1. LedgerTasks[t] = LedgerRow(r)
      BY <2>2, LedgerReads
    <3>2. /\ [LedgerTasks[t] EXCEPT !.status = "queued"] = x
          /\ [x EXCEPT !.commit = NoCommit] = y
      BY <3>1 DEF LedgerRow
    <3>3. LedgerRow(row) = [y EXCEPT !.rc = NoCommit]
      BY <1>1, <2>1, <2>2 DEF LedgerRow
    <3>4. [LedgerTasks[t] EXCEPT !.status = "queued", !.commit = NoCommit,
                                 !.rc = NoCommit] =
            [[[LedgerTasks[t] EXCEPT !.status = "queued"] EXCEPT !.commit = NoCommit]
               EXCEPT !.rc = NoCommit]
      OBVIOUS
    <3> HIDE DEF x, y
    <3> QED
      BY <3>2, <3>3, <3>4
  <2>4. Ledger!SetRow(t, LedgerRow(row))
    BY <1>1, LedgerSave DEF IInv
  <2>5. Ledger!Supplement(t, m)
    BY <1>2, <1>3, <1>4, <1>6, <2>3, <2>4, LedgerReads, NoApprovals DEF Ledger!Supplement
  <2> QED
    BY <1>1, <2>5 DEF Ledger!Next, Ledger!Command
<1>7. CASE CommandOf[m] = "cancel" /\ CanTransition(rows[t].status, "cancelled")
  <2>1. row.status = "cancelled" /\ row.commit = rows[t].commit
    BY <1>1, <1>7
  <2>2. Ledger!SetStatus(t, "cancelled")
    BY <1>1, <1>7, <2>1, StatusSaved
  <2>3. Ledger!Cancel(t, m)
    BY <1>2, <1>3, <1>4, <2>2 DEF Ledger!Cancel
  <2> QED
    BY <1>1, <2>3 DEF Ledger!Next, Ledger!Command
<1> QED
  BY <1>1, <1>5, <1>6, <1>7 DEF Admits

LEMMA ClaimRefines ==
  ASSUME IInv, NEW t \in Task, Claim(t)
  PROVE  Ledger!Next \/ UNCHANGED Ledger!vars
<1>1. up /\ UNCHANGED <<up, processed>>
  BY DEF Claim, scanFrame
<1>2. CASE UNCHANGED rows
  BY <1>1, <1>2 DEF Ledger!vars, LedgerTasks
<1>3. CASE rows[t].status = "queued" /\ TableStep(t, ScanItem(t), Moved(t, "running"))
  <2>1. /\ Moved(t, "running") \in RowType /\ Moved(t, "running").status = "running"
        /\ Moved(t, "running").exec = rows[t].exec
        /\ Moved(t, "running").commit = rows[t].commit
        /\ rows' = [rows EXCEPT ![t] = Moved(t, "running")]
    BY <1>3, MovedRow DEF TableStep, Status, IInv
  <2>2. CanTransition(rows[t].status, "running")
    BY <1>3 DEF CanTransition
  <2>3. Ledger!SetStatus(t, "running")
    BY <2>1, <2>2, StatusSaved
  <2>4. Ledger!ClaimTask(t)
    BY <1>1, <1>3, <2>3, LedgerReads DEF Ledger!ClaimTask, Ledger!Internal
  <2> QED
    BY <2>4 DEF Ledger!Next, Ledger!Execute
<1> QED
  BY <1>2, <1>3, ClaimSaves

LEMMA EndRefines ==
  ASSUME IInv, Crash \/ \E t \in Task : Conflict(t)
  PROVE  Ledger!Next
<1>1. up /\ up' = FALSE /\ UNCHANGED <<rows, processed>>
  BY DEF Crash, Conflict, ProcessEnds, Fault
<1>2. UNCHANGED LedgerTasks
  BY <1>1 DEF LedgerTasks
<1>3. Ledger!Crash
  BY <1>1, <1>2 DEF Ledger!Crash
<1> QED
  BY <1>3 DEF Ledger!Next

LEMMA RecoveryRefines ==
  ASSUME IInv, RecoverInterrupted
  PROVE  Ledger!Next
<1>1. ~up /\ up' = TRUE /\ UNCHANGED processed
  BY DEF RecoverInterrupted
<1>2. ASSUME NEW t \in Task
      PROVE  LedgerRow(rows'[t]) = [LedgerTasks[t] EXCEPT !.status =
               Ledger!Recovered(LedgerTasks[t].status, LedgerTasks[t].commit # NoCommit)]
  <2>1. PICK r \in RowType, row \in RowType : r = rows[t] /\ row = rows'[t]
    BY RecoveryRows, Types DEF IInv
  <2>2. /\ row.exec = r.exec /\ row.commit = r.commit
        /\ row.status = Ledger!Recovered(r.status, r.commit # NoCommit)
    BY <2>1, RecoveryRows, SameTable
  <2>3. LedgerRow(row) = [LedgerRow(r) EXCEPT !.status = row.status]
    BY <2>2 DEF LedgerRow
  <2> QED
    BY <2>1, <2>2, <2>3, LedgerReads
<1>3. LedgerTasks' = [t \in Task |-> [LedgerTasks[t] EXCEPT !.status =
        Ledger!Recovered(LedgerTasks[t].status, LedgerTasks[t].commit # NoCommit)]]
  BY <1>2 DEF LedgerTasks
<1>4. Ledger!RecoverInterrupted
  BY <1>1, <1>3 DEF Ledger!RecoverInterrupted
<1> QED
  BY <1>4 DEF Ledger!Next

LEMMA StepRefines == IInv /\ [Next]_vars => [Ledger!Next]_(Ledger!vars)
<1> SUFFICES ASSUME IInv, [Next]_vars
             PROVE  Ledger!Next \/ UNCHANGED Ledger!vars
  OBVIOUS
<1>1. CASE \E w \in Worker : Work(w)
  BY <1>1, WorkRefines
<1>2. CASE \E t \in Task : Create(t)
  BY <1>2, CreateRefines
<1>3. CASE \E t \in Task : Plan(t)
  BY <1>3, PlanRefines
<1>4. CASE \E t \in Task : CommitCommand(t)
  BY <1>4, CommandRefines
<1>5. CASE \E t \in Task : Claim(t)
  BY <1>5, ClaimRefines
<1>6. CASE Crash \/ \E t \in Task : Conflict(t)
  BY <1>6, EndRefines
<1>7. CASE RecoverInterrupted
  BY <1>7, RecoveryRefines
<1>8. CASE UNCHANGED <<rows, processed, up>>
  BY <1>8 DEF Ledger!vars, LedgerTasks
<1>9. \/ \E w \in Worker : Work(w)
      \/ \E t \in Task : Create(t) \/ Plan(t) \/ CommitCommand(t) \/ Claim(t) \/ Conflict(t)
      \/ Crash \/ RecoverInterrupted
      \/ UNCHANGED <<rows, processed, up>>
  BY DEF Next, vars, Answer, Scan, Interrupt, Read, ExpireLease, LoseLease, ListQueued,
     ListChecking, ListPushed, EndScan, List, StartWorker, Resume, scanFrame, handlerFrame,
     Renew, Stall, ReleaseFails, AcquireFails, leaseFrame
<1> QED
  BY <1>1, <1>2, <1>3, <1>4, <1>5, <1>6, <1>7, <1>8, <1>9

LEMMA InitRefines == Init => Ledger!Init
<1> SUFFICES ASSUME Init
             PROVE  Ledger!Init
  OBVIOUS
<1>1. \A t \in Task : LedgerRow(rows[t]) = Ledger!NoRow
  BY DEF Init, LedgerRow, Ledger!NoRow
<1>2. LedgerTasks = [t \in Task |-> Ledger!NoRow]
  BY <1>1 DEF LedgerTasks
<1> QED
  BY <1>2 DEF Init, Ledger!Init, Ledger!NoApproval, NoApproval

(* The execution is an execution of TaskLedger: each step of its handlers,  *)
(* scan and workers is one of the transactions that TaskLedger takes as     *)
(* atomic, or changes nothing that the database shows.                      *)
THEOREM ExecutionImplementsLedger == Spec => LedgerSpec
BY InitRefines, StepRefines, InductiveInvariant, PTL DEF Spec, LedgerSpec, Ledger!Spec


-----------------------------------------------------------------------------
(* With one slot per project a task has one worker.                         *)

LEMMA OneWorker ==
  ASSUME IInv, OneSlot, NEW v \in Worker, NEW w \in Worker, T(v) = T(w), T(w) \in Task
  PROVE  v = w
<1>1. ASSUME NEW u \in Worker, T(u) \in Task
      PROVE  SlotOf[u] = ProjectOf[T(u)]
  BY <1>1 DEF IInv, WorkerSound, WorkerShape, ExecutionConstants, T
<1> QED
  BY <1>1 DEF OneSlot

(* Exit of a worker, start of a worker, and the steps that only reserve one *)
(* or end its context.                                                      *)
Departs(w) ==
  /\ workers[w].pc = "exit" /\ active' = [active EXCEPT ![T(w)] = NoWorker]
  /\ workers'[w] = Idle /\ \A u \in Worker \ {w} : workers'[u] = workers[u]
Arrives(w, t) ==
  /\ workers[w].pc \in {"idle", "reserved"} /\ SlotOf[w] = ProjectOf[t]
  /\ active' = [active EXCEPT ![t] = w]
  /\ workers'[w].task = t /\ workers'[w].live
  /\ workers'[w].pc \in {"start", "load_push", "load_pushed"}
  /\ \A u \in Worker \ {w} : workers'[u] = workers[u]
Remains(w) ==
  \/ workers'[w] = workers[w]
  \/ workers[w].pc = "idle" /\ workers'[w].pc = "reserved" /\ workers'[w].task = NoTask

LEMMA ActiveSteps ==
  ASSUME IInv, [Next]_vars
  PROVE  \/ \E w \in Worker, n \in WorkerType, row \in RowType, b \in Branch :
              Acts(w) /\ WorkStep(w, n, row, b)
         \/ \E w \in Worker : Exit(w) /\ Departs(w)
         \/ \E w \in Worker, t \in Task : Arrives(w, t)
         \/ /\ workers' = [w \in Worker |-> Idle] /\ ~up'
            /\ active' = [t \in Task |-> NoWorker]
         \/ /\ active' = active
            /\ \/ \E t \in Task : Interrupt(t)
               \/ \E w \in Worker : LoseLease(w) \/ Renew(w)
         \/ active' = active /\ \A w \in Worker : Remains(w)
<1>0. workers \in [Worker -> WorkerType] /\ WorkerSound /\ ScanSound
  BY Types DEF IInv
<1>1. CASE \E w \in Worker : Acts(w) /\ ~Exit(w)
  BY <1>1, WorkerSteps
<1>2. CASE \E w \in Worker : Exit(w)
  <2>1. PICK w \in Worker : Exit(w)
    BY <1>2
  <2>2. Departs(w)
    BY <1>0, <2>1 DEF Exit, At, Departs
  <2> QED
    BY <2>1, <2>2
<1>3. CASE \E t \in Task : Claim(t)
  <2>1. PICK t \in Task : Claim(t)
    BY <1>3
  <2>2. active' = active
    BY <2>1 DEF Claim
  <2>3. CASE workers' = workers
    BY <2>2, <2>3 DEF Remains
  <2>4. CASE \E w \in Worker : /\ workers[w].pc = "idle"
                               /\ workers' = [workers EXCEPT ![w].pc = "reserved"]
    <3>1. PICK w \in Worker : /\ workers[w].pc = "idle"
                              /\ workers' = [workers EXCEPT ![w].pc = "reserved"]
      BY <2>4
    <3>2. \A u \in Worker : Remains(u)
      BY <3>1, Reserves DEF Remains
    <3> QED
      BY <2>2, <3>2
  <2> QED
    BY <2>1, <2>3, <2>4, ClaimSaves DEF IdleWorker
<1>4. ASSUME NEW w \in Worker, NEW t \in Task, NEW pc \in {"start", "load_push", "load_pushed"},
             NEW leased \in BOOLEAN, Start(w, t, pc, leased), SlotOf[w] = ProjectOf[t],
             workers[w].pc \in {"idle", "reserved"}
      PROVE  Arrives(w, t)
  <2>1. active' = [active EXCEPT ![t] = w]
    BY <1>4 DEF Start
  <2> QED
    BY <1>4, <2>1, Starts DEF Arrives
<1>5. CASE StartWorker
  <2>1. /\ scan.worker \in Worker /\ scan.task \in Task
        /\ workers[scan.worker].pc = "reserved"
        /\ SlotOf[scan.worker] = ProjectOf[scan.task]
        /\ Start(scan.worker, scan.task, "start", FALSE)
    BY <1>0, <1>5 DEF StartWorker, ScanSound
  <2> DEFINE leased == FALSE
  <2>2. leased \in BOOLEAN /\ Start(scan.worker, scan.task, "start", leased)
    BY <2>1
  <2> HIDE DEF leased
  <2>3. Arrives(scan.worker, scan.task)
    BY <1>4, <2>1, <2>2
  <2> QED
    BY <2>1, <2>3
<1>6. ASSUME NEW t \in Task, NEW phase, NEW pc \in {"load_push", "load_pushed"},
             Resume(t, phase, pc)
      PROVE  \/ active' = active /\ \A w \in Worker : Remains(w)
             \/ \E w \in Worker : Arrives(w, t)
  <2> DEFINE leased == TRUE
  <2>1. \/ UNCHANGED <<workers, active>>
        \/ \E w \in Worker : /\ workers[w].pc = "idle" /\ SlotOf[w] = ProjectOf[t]
                             /\ Start(w, t, pc, leased)
    BY <1>6 DEF Resume, IdleWorker
  <2>2. leased \in BOOLEAN
    OBVIOUS
  <2> HIDE DEF leased
  <2> QED
    BY <1>4, <2>1, <2>2 DEF Remains
<1>7. CASE \/ \E t \in Task : Interrupt(t)
           \/ \E w \in Worker : LoseLease(w) \/ Renew(w)
  BY <1>7 DEF Interrupt, LoseLease, Renew, handlerFrame, leaseFrame
<1>8. CASE (\E t \in Task : Conflict(t)) \/ Crash
  BY <1>8 DEF Conflict, Crash, ProcessEnds
<1>9. CASE \/ \E t \in Task : \/ Create(t) \/ Plan(t) \/ CommitCommand(t) \/ ExpireLease(t)
                              \/ Stall(t) \/ \E m \in Message : Read(t, m)
           \/ ListQueued \/ ListChecking \/ ListPushed \/ EndScan
           \/ RecoverInterrupted \/ UNCHANGED vars
           \/ (AcquireFails /\ workers' = workers)
  BY <1>9 DEF Remains, Create, Plan, CommitCommand, ExpireLease, Stall, Read, ListQueued,
     ListChecking, ListPushed, EndScan, List, RecoverInterrupted, AcquireFails, vars,
     handlerFrame, leaseFrame
<1>10. CASE AcquireFails
  BY <1>1, <1>9, <1>10, AcquiresFail DEF Acts
<1>11. CASE \E w \in Worker : Work(w)
  BY <1>1, <1>2, <1>11 DEF Acts
<1>12. CASE \E w \in Worker : ReleaseFails(w)
  <2>1. \E w \in Worker : Acts(w) /\ ~Exit(w)
    BY <1>12 DEF Acts, Fails, ReleaseFails, Exit, At
  <2> QED
    BY <1>1, <2>1
<1> QED
  BY <1>3, <1>5, <1>6, <1>7, <1>8, <1>9, <1>10, <1>11, <1>12 DEF Next, Answer, Scan

LEMMA LiveEnds ==
  ASSUME IInv,
         (\E t \in Task : Interrupt(t)) \/ (\E w \in Worker : LoseLease(w) \/ Renew(w)),
         NEW u \in Worker
  PROVE  /\ workers'[u].pc = workers[u].pc /\ workers'[u].task = workers[u].task
         /\ workers'[u].live => workers[u].live
<1>1. \A t \in Task : active[t] \in Worker \cup {NoWorker}
  BY DEF IInv, TypeOK
<1>2. \/ workers' = workers
      \/ \E w \in Worker : workers' = [workers EXCEPT ![w].live = FALSE]
  BY <1>1 DEF Interrupt, LoseLease, Renew
<1> QED
  BY <1>2, LiveChange

LEMMA NextActive ==
  ASSUME IInv, OneSlot, ActiveSound, [Next]_vars
  PROVE  ActiveSound'
<1> SUFFICES /\ \A u \in Worker : workers'[u].task \in Task => active'[workers'[u].task] = u
             /\ \A v \in Task : active'[v] # NoWorker => workers'[active'[v]].task = v
  BY DEF ActiveSound, T
<1>0. /\ active \in [Task -> Worker \cup {NoWorker}] /\ NoTask \notin Task
      /\ NoWorker \notin Worker
      /\ \A u \in Worker : T(u) \in Task => active[T(u)] = u
      /\ \A v \in Task : active[v] # NoWorker => active[v] \in Worker /\ T(active[v]) = v
  BY DEF IInv, TypeOK, ExecutionConstants, ActiveSound
<1>1. CASE \E w \in Worker, n \in WorkerType, row \in RowType, b \in Branch :
             WorkStep(w, n, row, b)
  <2>1. PICK w \in Worker, n \in WorkerType, row \in RowType, b \in Branch :
          WorkStep(w, n, row, b)
    BY <1>1
  <2>2. active' = active /\ \A u \in Worker : workers'[u].task = T(u)
    BY <2>1, WorkRest DEF WorkStep, T
  <2> QED
    BY <1>0, <2>2
<1>2. CASE \E w \in Worker : Departs(w)
  <2>1. PICK w \in Worker : Departs(w)
    BY <1>2
  <2>2. T(w) \in Task /\ workers'[w].task = NoTask
    BY <2>1, AtWork, IdleFacts DEF Departs
  <2>3. \A u \in Worker \ {w} : workers'[u].task = T(u) /\ T(u) # T(w)
    BY <2>1, <2>2, OneWorker DEF Departs, T
  <2>4. /\ active'[T(w)] = NoWorker
        /\ \A v \in Task \ {T(w)} : active'[v] = active[v]
    BY <1>0, <2>1, <2>2 DEF Departs
  <2> QED
    BY <1>0, <2>2, <2>3, <2>4
<1>3. CASE \E w \in Worker, t \in Task : Arrives(w, t)
  <2>1. PICK w \in Worker, t \in Task : Arrives(w, t)
    BY <1>3
  <2>2. /\ active'[t] = w /\ workers'[w].task = t
        /\ \A v \in Task \ {t} : active'[v] = active[v]
    BY <1>0, <2>1 DEF Arrives
  <2>3. \A u \in Worker \ {w} : workers'[u].task = T(u) /\ T(u) # t
    <3>1. ASSUME NEW u \in Worker, T(u) = t
          PROVE  SlotOf[u] = ProjectOf[t]
      BY <1>0, <3>1 DEF IInv, WorkerSound, WorkerShape, T
    <3> QED
      BY <2>1, <3>1 DEF Arrives, OneSlot, T
  <2>4. T(w) \notin Task
    BY <1>0, <2>1 DEF Arrives, IInv, WorkerSound, WorkerShape, T
  <2> QED
    BY <1>0, <2>2, <2>3, <2>4
<1>4. CASE workers' = [w \in Worker |-> Idle] /\ active' = [t \in Task |-> NoWorker]
  BY <1>0, <1>4, IdleFacts
<1>5. CASE /\ active' = active
           /\ \/ \E t \in Task : Interrupt(t)
              \/ \E w \in Worker : LoseLease(w) \/ Renew(w)
  <2>1. \A u \in Worker : workers'[u].task = T(u)
    BY <1>5, LiveEnds DEF T
  <2> QED
    BY <1>0, <1>5, <2>1
<1>6. CASE active' = active /\ \A w \in Worker : Remains(w)
  <2>1. \A u \in Worker : workers'[u].task = T(u) \/ (workers'[u].task = NoTask /\ T(u) = NoTask)
    BY <1>6 DEF Remains, IInv, WorkerSound, WorkerShape, T
  <2> QED
    BY <1>0, <1>6, <2>1
<1> QED
  BY <1>1, <1>2, <1>3, <1>4, <1>5, <1>6, ActiveSteps

(* Only a command cancels a task. *)
LEMMA OnlyCommandsCancel ==
  ASSUME IInv, [Next]_vars, NEW t \in Task, rows[t].status # "cancelled",
         rows'[t].status = "cancelled"
  PROVE  CommitCommand(t)
<1>0. rows \in [Task -> RowType]
  BY Types DEF IInv
<1>1. ASSUME NEW u \in Task, NEW x, NEW s \in Status \ {"cancelled"},
             TableStep(u, x, Moved(u, s))
      PROVE  FALSE
  <2>1. Moved(u, s).status # "cancelled"
    BY <1>1, MovedRow DEF IInv
  <2> QED
    BY <1>1, <2>1, TableRows
<1>2. ASSUME NEW u \in Task, Create(u)
      PROVE  FALSE
  BY <1>1, <1>2, CreateSaves DEF Status
<1>3. ASSUME NEW u \in Task, Plan(u)
      PROVE  FALSE
  BY <1>1, <1>3, PlanSaves DEF Status
<1>4. ASSUME NEW u \in Task, Claim(u)
      PROVE  FALSE
  BY <1>1, <1>4, ClaimSaves DEF Status
<1>5. ASSUME NEW u \in Task, CommitCommand(u)
      PROVE  u = t
  BY <1>5, CommandSaves, TableRows
<1>6. ASSUME NEW w \in Worker, Work(w)
      PROVE  FALSE
  <2>1. PICK r \in RowType, row \in RowType :
          /\ T(w) \in Task /\ r = rows[T(w)] /\ rows' = [rows EXCEPT ![T(w)] = row]
          /\ Saved(T(w), r, row)
    BY <1>6, WorkerSaves
  <2>2. row.status # "cancelled" \/ row.status = r.status
    BY <2>1 DEF Saved
  <2> QED
    BY <1>0, <2>1, <2>2
<1>7. ~RecoverInterrupted
  BY RecoveryRows
<1>8. \/ \E w \in Worker : Work(w)
      \/ \E u \in Task : Create(u) \/ Plan(u) \/ CommitCommand(u) \/ Claim(u)
      \/ RecoverInterrupted \/ rows' = rows
  BY DEF Next, vars, Answer, Scan, Interrupt, Read, ExpireLease, LoseLease, ListQueued,
     ListChecking, ListPushed, EndScan, List, StartWorker, Resume, Conflict, Crash,
     handlerFrame, Renew, Stall, ReleaseFails, AcquireFails, leaseFrame
<1> QED
  BY <1>2, <1>3, <1>4, <1>5, <1>6, <1>7, <1>8

LEMMA NextCancel ==
  ASSUME IInv, OneSlot, ActiveSound, CancelReachesWorker, PushingSound, [Next]_vars
  PROVE  CancelReachesWorker'
<1> DEFINE Running == {"prepare", "codex", "checks", "push"}
<1> SUFFICES ASSUME NEW t \in Task, rows'[t].status = "cancelled",
                    handlers'[t].pc # "interrupt", NEW u \in Worker,
                    workers'[u].task = t, workers'[u].pc \in Running, workers'[u].live
             PROVE  FALSE
  BY DEF CancelReachesWorker, T, Live
<1>0. /\ NoTask \notin Task /\ handlers \in [Task -> HandlerType]
      /\ workers \in [Worker -> WorkerType]
  BY HandlersFit, Types DEF IInv, ExecutionConstants
<1>1. ASSUME workers'[u].pc = workers[u].pc, workers'[u].task = workers[u].task,
             workers'[u].live => workers[u].live
      PROVE  FALSE
  <2>1. T(u) = t /\ workers[u].pc \in Running /\ Live(u)
    BY <1>1 DEF T, Live
  <2>2. CASE rows[t].status # "cancelled"
    <3>1. CommitCommand(t)
      BY <2>2, OnlyCommandsCancel
    <3>2. rows[t].status \in {"running", "checking"}
      <4>1. CASE workers[u].pc = "push"
        BY <2>1, <2>2, <4>1 DEF PushingSound
      <4>2. CASE workers[u].pc # "push"
        <5>1. /\ workers[u].pc \in {"prepare", "codex", "checks"}
              /\ WorkerShape(u, workers[u])
          BY <2>1, <4>2, AtWork
        <5>2. Steady(workers[u])
          BY <5>1 DEF WorkerShape, Steady, Adrift, Bound, Preparing, Executing
        <5>3. Ended(rows[t]) \/ Fits(workers[u], rows[t], remote[t])
          BY <2>1, <5>2, AtWork
        <5>4. rows[t].status # "failed"
          <6>1. Admits(handlers[t].message, t) /\ CommandOf[handlers[t].message] = "cancel"
            BY <3>1, CommandSaves, TableRows
          <6> QED
            BY <6>1 DEF Admits, CanTransition
        <5> QED
          BY <2>2, <5>1, <5>3, <5>4 DEF Ended, Fits
      <4> QED
        BY <4>1, <4>2
    <3>3. CommandOf[handlers[t].message] = "cancel"
      BY <3>1, CommandSaves, TableRows
    <3>4. handlers'[t].pc = "interrupt"
      BY <1>0, <3>1, <3>2, <3>3 DEF CommitCommand, Handle
    <3> QED
      BY <3>4
  <2>3. CASE rows[t].status = "cancelled"
    <3>1. handlers[t].pc = "interrupt"
      BY <2>1, <2>3 DEF CancelReachesWorker
    <3>2. Interrupt(t) \/ workers' = [w \in Worker |-> Idle]
      <4>1. ASSUME NEW v \in Task, \/ Create(v) \/ Plan(v) \/ CommitCommand(v)
                                   \/ Interrupt(v) \/ \E m \in Message : Read(v, m)
            PROVE  v = t /\ Interrupt(v)
        <5>1. v = t => Interrupt(v)
          BY <3>1, <4>1 DEF Create, Plan, CommitCommand, Read
        <5>2. \E h : handlers' = [handlers EXCEPT ![v] = h] \/ handlers' = handlers
          BY <4>1 DEF Create, Plan, CommitCommand, Interrupt, Read, Handle
        <5> QED
          BY <1>0, <3>1, <5>1, <5>2
      <4>2. \/ \E v \in Task : \/ Create(v) \/ Plan(v) \/ CommitCommand(v)
                               \/ Interrupt(v) \/ \E m \in Message : Read(v, m)
            \/ \E v \in Task : Conflict(v)
            \/ Crash \/ handlers' = handlers
        BY DEF Next, vars, Answer, Scan, ExpireLease, LoseLease, ListQueued, Claim,
           ListChecking, ListPushed, EndScan, List, StartWorker, Resume, scanFrame,
           Work, workerFrame, RecoverInterrupted, Renew, Stall, ReleaseFails, AcquireFails,
           leaseFrame
      <4> QED
        BY <3>1, <4>1, <4>2 DEF Conflict, Crash, ProcessEnds
    <3>3. CASE Interrupt(t)
      <4>1. active[t] = u /\ u # NoWorker
        BY <2>1 DEF ActiveSound, ExecutionConstants
      <4>2. workers' = [workers EXCEPT ![u].live = FALSE]
        BY <3>3, <4>1 DEF Interrupt
      <4> QED
        BY <4>2, LiveChange
    <3>4. CASE workers' = [w \in Worker |-> Idle]
      BY <1>0, <3>4, IdleFacts
    <3> QED
      BY <3>2, <3>3, <3>4
  <2> QED
    BY <2>2, <2>3
<1>2. CASE \E w \in Worker, n \in WorkerType, row \in RowType, b \in Branch :
             WorkStep(w, n, row, b)
  <2>1. PICK w \in Worker, n \in WorkerType, row \in RowType, b \in Branch :
          WorkStep(w, n, row, b)
    BY <1>2
  <2>2. CASE u = w
    <3>1. /\ workers'[u] = n /\ n.task = T(w) /\ T(w) = t /\ rows'[t] = row
          /\ n.pc \in Running
      BY <2>1, <2>2, WorkRest, WorkRows
    <3>2. w \in current' /\ (Fits(n, row, b) \/ FitsAdrift(n, row, b))
      BY <2>1, <3>1 DEF WorkStep, Binds, Steady, Bound, Preparing, Executing, Pushing
    <3>3. CASE Fits(n, row, b)
      BY <3>1, <3>3 DEF Fits
    <3>4. CASE FitsAdrift(n, row, b) /\ ~Fits(n, row, b)
      <4>1. Adrift(n) /\ WorkerShape(w, n)
        BY <2>1, <3>1, <3>2, <3>4 DEF WorkStep, Moves, Binds, Steady, Bound, Preparing,
           Executing, Pushing
      <4>2. n.pc = "push"
        BY <3>1, <4>1 DEF Adrift, WorkerShape, Preparing, Executing
      <4> QED
        BY <3>1, <3>4, <4>2 DEF FitsAdrift
    <3> QED
      BY <3>2, <3>3, <3>4
  <2>3. CASE u # w
    BY <1>1, <2>1, <2>3, WorkRest
  <2> QED
    BY <2>2, <2>3
<1>3. CASE \E w \in Worker : Departs(w)
  BY <1>0, <1>1, <1>3, IdleFacts DEF Departs
<1>4. CASE \E w \in Worker, v \in Task : Arrives(w, v)
  BY <1>1, <1>4 DEF Arrives
<1>5. CASE workers' = [w \in Worker |-> Idle]
  BY <1>0, <1>5, IdleFacts
<1>6. CASE (\E v \in Task : Interrupt(v)) \/ (\E w \in Worker : LoseLease(w) \/ Renew(w))
  BY <1>1, <1>6, LiveEnds
<1>7. CASE Remains(u)
  BY <1>1, <1>7 DEF Remains
<1> QED
  BY <1>2, <1>3, <1>4, <1>5, <1>6, <1>7, ActiveSteps

(* With one slot a task that is being pushed is left to its worker.         *)
LEMMA NextPushing ==
  ASSUME IInv, OneSlot, PushingSound, [Next]_vars
  PROVE  PushingSound'
<1> SUFFICES ASSUME NEW u \in Worker, workers'[u].pc = "push"
             PROVE  rows'[workers'[u].task].status \in {"checking", "cancelled"}
  BY DEF PushingSound, T
<1>1. ASSUME NEW w \in Worker, NEW n \in WorkerType, NEW row \in RowType, NEW b \in Branch,
             WorkStep(w, n, row, b)
      PROVE  rows'[workers'[u].task].status \in {"checking", "cancelled"}
  <2>1. /\ workers'[w] = n /\ n.task = T(w) /\ T(w) \in Task /\ rows'[T(w)] = row
        /\ \A x \in Worker \ {w} : workers'[x] = workers[x]
        /\ \A t \in Task \ {T(w)} : rows'[t] = rows[t]
    BY <1>1, WorkRest, WorkRows
  <2>2. CASE u = w
    <3>1. n.pc = "push" /\ Binds(w, n, row, b) /\ w \in current'
      BY <1>1, <2>1, <2>2 DEF WorkStep
    <3>2. row.status = "checking"
      BY <3>1 DEF Binds, Steady, Bound, Pushing, Fits, FitsAdrift
    <3> QED
      BY <2>1, <2>2, <3>2
  <2>3. CASE u # w
    <3>1. workers[u].pc = "push" /\ workers'[u].task = T(u)
      BY <2>1, <2>3 DEF T
    <3>2. T(u) \in Task
      BY <3>1, AtWork
    <3>3. T(u) # T(w)
      BY <2>1, <2>3, OneWorker
    <3> QED
      BY <2>1, <3>1, <3>2, <3>3 DEF PushingSound
  <2> QED
    BY <2>2, <2>3
<1>2. CASE ~ \E w \in Worker, n \in WorkerType, row \in RowType, b \in Branch :
               WorkStep(w, n, row, b)
  <2>1. workers[u].pc = "push" /\ workers'[u].task = T(u) /\ T(u) \in Task
    BY <1>2, PushesStay
  <2>2. rows[T(u)].status \in {"checking", "cancelled"}
    BY <2>1 DEF PushingSound
  <2>3. ASSUME NEW t \in Task, NEW x, NEW row, TableStep(t, x, row)
        PROVE  rows'[T(u)].status \in {"checking", "cancelled"}
    <3>1. T(u) = t => row.status = "cancelled"
      BY <2>2, <2>3 DEF TableStep
    <3> QED
      BY <2>1, <2>2, <2>3, <3>1, TableRows
  <2>4. ~RecoverInterrupted
    BY <2>1, IdleFacts DEF RecoverInterrupted, IInv, DownSound
  <2> QED
    BY <1>2, <2>1, <2>2, <2>3, <2>4, NextTables
<1> QED
  BY <1>1, <1>2

-----------------------------------------------------------------------------
(* Without faults, with one slot per project, a checking task is served.    *)

Serving == {"checks", "lease", "load_commit", "save_commit", "fail", "save_fail"}

LEMMA ServeStep ==
  ASSUME IInv, OneSlot, NEW w \in Worker, Work(w), T(w) \in Task, lease[T(w)] # "orphan",
         lease[T(w)] = "held" => Leased(T(w)) # {},
         T(w) \in lapsed => \E v \in Leased(T(w)) : ~Live(v),
         ~Live(w) => rows[T(w)].status = "cancelled",
         rows[T(w)].status = "checking" =>
           rows[T(w)].commit # NoCommit \/ workers[w].pc \in Serving,
         rows'[T(w)].status = "checking", rows'[T(w)].commit = NoCommit
  PROVE  workers'[w].pc \in Serving
<1>0. /\ rows \in [Task -> RowType] /\ workers \in [Worker -> WorkerType]
      /\ NoCommit \notin Commit
  BY Types DEF IInv, ExecutionConstants
<1> DEFINE Unchecked == rows[T(w)].status = "checking" /\ rows[T(w)].commit = NoCommit
<1>1. ASSUME NEW pc, Go(w, pc)
      PROVE  workers'[w].pc = pc
  <2>1. PICK v \in WorkerType : v = workers[w]
    BY <1>0
  <2>2. workers'[w] = [v EXCEPT !.pc = pc]
    BY <1>0, <1>1, <2>1 DEF Go
  <2> QED
    BY <2>2 DEF WorkerType
<1>2. ASSUME NEW row, Save(w, T(w), row)
      PROVE  row.status = "checking" /\ row.commit = NoCommit
  BY <1>0, <1>2 DEF Save
<1>3. ASSUME NEW s \in Status
      PROVE  /\ Moved(T(w), s).status = s
             /\ [Moved(T(w), s) EXCEPT !.exec = "session"].status = s
  <2>1. Moved(T(w), s) \in RowType /\ Moved(T(w), s).status = s
    BY <1>3, MovedRow DEF IInv
  <2> QED
    BY <2>1 DEF RowType
<1>4. ASSUME rows' = rows
      PROVE  Unchecked /\ workers[w].pc \in Serving
  BY <1>4
<1>5. CASE \/ Begin(w) \/ LoadTask(w) \/ Prepare(w) \/ RunCodex(w) \/ AfterCodex(w)
           \/ LockGit(w, "git", "running", "prepare")
           \/ LockGit(w, "push_wait", "checking", "push")
           \/ LoadPush(w) \/ Push(w) \/ LoadPushed(w) \/ Notify(w) \/ ReleaseLease(w)
           \/ Exit(w)
  <2>1. rows' = rows
    BY <1>5 DEF Begin, LoadTask, Prepare, RunCodex, AfterCodex, LockGit, LoadPush, Push,
       LoadPushed, Notify, ReleaseLease, Exit, Local
  <2>2. workers[w].pc \notin Serving
    BY <1>5 DEF Begin, LoadTask, Prepare, RunCodex, AfterCodex, LockGit, LoadPush, Push,
       LoadPushed, Notify, ReleaseLease, Exit, At, Serving
  <2> QED
    BY <1>4, <2>1, <2>2
<1>6. CASE SaveBlocked(w) \/ ToPushed(w) \/ ToAwaiting(w)
  <2>1. workers[w].pc \notin Serving
    BY <1>6 DEF SaveBlocked, ToPushed, ToAwaiting, At, Serving
  <2>2. PICK row : /\ rows' = rows \/ Save(w, T(w), row)
                   /\ row.status \in {"blocked", "pushed", "awaiting_merge_approval"}
    <3>1. ASSUME SaveBlocked(w)
          PROVE  rows' = rows \/ Save(w, T(w), [Moved(T(w), "blocked") EXCEPT !.exec = "session"])
      BY <3>1 DEF SaveBlocked, Transition
    <3>2. ASSUME ToPushed(w)
          PROVE  rows' = rows \/ Save(w, T(w), Moved(T(w), "pushed"))
      BY <3>2 DEF ToPushed, Transition
    <3>3. ASSUME ToAwaiting(w)
          PROVE  rows' = rows \/ Save(w, T(w), Moved(T(w), "awaiting_merge_approval"))
      BY <3>3 DEF ToAwaiting, Transition
    <3>4. /\ [Moved(T(w), "blocked") EXCEPT !.exec = "session"].status = "blocked"
          /\ Moved(T(w), "pushed").status = "pushed"
          /\ Moved(T(w), "awaiting_merge_approval").status = "awaiting_merge_approval"
      BY <1>3 DEF Status
    <3> QED
      BY <1>6, <3>1, <3>2, <3>3, <3>4
  <2> QED
    BY <1>2, <1>4, <2>1, <2>2
<1>7. CASE SavePrepared(w) \/ SaveSession(w)
  <2>1. workers[w].pc \notin Serving
    BY <1>7 DEF SavePrepared, SaveSession, At, Serving
  <2>2. PICK e \in {"prepared", "session"} :
          rows' = rows \/ Save(w, T(w), [rows[T(w)] EXCEPT !.exec = e])
    BY <1>7 DEF SavePrepared, SaveSession, Checkpoint
  <2>3. PICK r \in RowType : r = rows[T(w)]
    BY <1>0
  <2>4. [r EXCEPT !.exec = e].status = r.status /\ [r EXCEPT !.exec = e].commit = r.commit
    BY DEF RowType
  <2> QED
    BY <1>2, <1>4, <2>1, <2>2, <2>3, <2>4
<1>8. CASE ToChecking(w)
  <2>1. workers[w].pc \notin Serving
    BY <1>8 DEF ToChecking, At, Serving
  <2>2. Go(w, "checks") \/ rows' = rows
    BY <1>8 DEF ToChecking, Transition
  <2> QED
    BY <1>1, <1>4, <2>1, <2>2 DEF Serving
<1>9. CASE RunChecks(w)
  <2>1. rows' = rows
    BY <1>9 DEF RunChecks, Local
  <2>2. Live(w) /\ StatusOf(w) = "checking"
    BY <1>4, <2>1 DEF StatusOf
  <2>3. CASE Go(w, "fail")
    BY <1>1, <2>3 DEF Serving
  <2>4. CASE \E c \in Commit : workers' = [workers EXCEPT ![w].pc = "lease", ![w].commit = c]
    <3>1. PICK c \in Commit, v \in WorkerType :
            /\ workers' = [workers EXCEPT ![w].pc = "lease", ![w].commit = c]
            /\ v = workers[w]
      BY <1>0, <2>4
    <3>2. workers'[w] = [v EXCEPT !.pc = "lease", !.commit = c]
      BY <1>0, <3>1
    <3>3. workers'[w].pc = "lease"
      BY <3>2 DEF WorkerType
    <3> QED
      BY <3>3 DEF Serving
  <2> QED
    BY <1>9, <2>2, <2>3, <2>4 DEF RunChecks
<1>10. CASE AcquireLease(w)
  <2>1. rows' = rows /\ workers[w].pc = "lease"
    BY <1>10 DEF AcquireLease, At
  <2>2. Live(w)
    BY <1>4, <2>1
  <2>3. ~workers[w].leased
    BY <2>1 DEF IInv, WorkerSound, WorkerShape
  <2>4. Available(T(w))
    <3>1. lease[T(w)] # "held"
      BY <2>3, OneWorker DEF Leased, T
    <3> QED
      BY <3>1 DEF Available, IInv, TypeOK
  <2>5. workers' = [workers EXCEPT ![w].pc = "load_commit", ![w].leased = TRUE]
    BY <1>10, <2>2, <2>4 DEF AcquireLease
  <2>6. PICK v \in WorkerType : v = workers[w]
    BY <1>0
  <2>7. workers'[w] = [v EXCEPT !.pc = "load_commit", !.leased = TRUE]
    BY <1>0, <2>5, <2>6
  <2>8. workers'[w].pc = "load_commit"
    BY <2>7 DEF WorkerType
  <2> QED
    BY <2>8 DEF Serving
<1>11. CASE LoadCommit(w)
  <2>1. rows' = rows
    BY <1>11 DEF LoadCommit, Local
  <2>2. Live(w) /\ StatusOf(w) = "checking"
    BY <1>4, <2>1 DEF StatusOf
  <2>3. Go(w, "save_commit")
    BY <1>11, <2>2 DEF LoadCommit, ActiveTask
  <2> QED
    BY <1>1, <2>3 DEF Serving
<1>12. CASE SaveCommit(w)
  <2>1. PICK r \in RowType, c \in Commit : r = rows[T(w)] /\ c = workers[w].commit
    BY <1>0, <1>12 DEF SaveCommit, At, IInv, WorkerSound, WorkerShape
  <2>2. [r EXCEPT !.commit = c].commit = c
    BY DEF RowType
  <2>3. ~Save(w, T(w), [rows[T(w)] EXCEPT !.commit = workers[w].commit])
    BY <1>0, <1>2, <2>1, <2>2
  <2>4. /\ rows' = rows
        /\ Live(w) /\ StatusOf(w) # "cancelled" => Go(w, "fail")
    BY <1>12, <2>3 DEF SaveCommit, Checkpoint
  <2>5. Live(w) /\ StatusOf(w) # "cancelled"
    BY <1>4, <2>4 DEF StatusOf
  <2> QED
    BY <1>1, <2>4, <2>5 DEF Serving
<1>13. CASE LoadFail(w)
  <2>1. rows' = rows
    BY <1>13 DEF LoadFail, Local
  <2>2. Live(w) /\ CanTransition(StatusOf(w), "failed")
    BY <1>4, <2>1 DEF StatusOf, CanTransition
  <2>3. Go(w, "save_fail")
    BY <1>13, <2>2 DEF LoadFail
  <2> QED
    BY <1>1, <2>3 DEF Serving
<1>14. CASE SaveFail(w)
  <2>1. ~Save(w, T(w), Moved(T(w), "failed"))
    BY <1>2, <1>3 DEF Status
  <2>2. rows' = rows /\ ~(Live(w) /\ w \in current)
    BY <1>14, <2>1 DEF SaveFail, Transition
  <2>3. workers[w].pc = "save_fail" /\ Live(w) /\ rows[T(w)].status = "checking"
    BY <1>4, <1>14, <2>2 DEF SaveFail, At
  <2>4. ~Adrift(workers[w])
    <3>1. \A v \in Leased(T(w)) : v = w
      BY OneWorker DEF Leased, T
    <3> QED
      BY <2>3, <3>1 DEF Adrift, T
  <2>5. Steady(workers[w]) /\ workers[w].pc \in Saves
    BY <2>3, <2>4 DEF Steady, Bound, Saves
  <2>6. w \in current
    BY <2>3, <2>5, AtWork DEF Ended
  <2> QED
    BY <2>2, <2>3, <2>6
<1> QED
  BY <1>5, <1>6, <1>7, <1>8, <1>9, <1>10, <1>11, <1>12, <1>13, <1>14 DEF Work

(* Only a worker starts the checks, and only it clears the way for them.    *)
LEMMA OnlyWorkersCheck ==
  ASSUME IInv, [Next]_vars, NEW t \in Task, up', rows'[t].status = "checking",
         rows'[t].commit = NoCommit
  PROVE  \/ \E w \in Worker : Work(w) /\ T(w) = t
         \/ up /\ rows'[t] = rows[t]
<1>0. rows \in [Task -> RowType]
  BY Types DEF IInv
<1>1. ~RecoverInterrupted
  BY RecoveryRows
<1>2. up
  BY <1>1 DEF Next, vars, Answer, Scan, Create, Plan, CommitCommand, Interrupt, Conflict, Read,
     ExpireLease, LoseLease, Fault, ListQueued, ListChecking, ListPushed, EndScan, List, Claim,
     StartWorker, Resume, Crash, scanFrame, Work, workerFrame, Renew, Stall, ReleaseFails,
     AcquireFails, leaseFrame
<1>3. ASSUME NEW u \in Task, NEW x, NEW s \in Status \ {"checking"},
             TableStep(u, x, Moved(u, s))
      PROVE  rows'[t] = rows[t]
  <2>1. Moved(u, s).status # "checking"
    BY <1>3, MovedRow DEF IInv
  <2> QED
    BY <1>3, <2>1, TableRows
<1>4. ASSUME NEW u \in Task, Create(u)
      PROVE  rows'[t] = rows[t]
  BY <1>3, <1>4, CreateSaves DEF Status
<1>5. ASSUME NEW u \in Task, Plan(u)
      PROVE  rows'[t] = rows[t]
  BY <1>3, <1>5, PlanSaves DEF Status
<1>6. ASSUME NEW u \in Task, Claim(u)
      PROVE  rows'[t] = rows[t]
  BY <1>3, <1>6, ClaimSaves DEF Status
<1>7. ASSUME NEW u \in Task, CommitCommand(u)
      PROVE  rows'[t] = rows[t]
  BY <1>7, CommandSaves, TableRows
<1>8. ASSUME NEW w \in Worker, Work(w), T(w) # t
      PROVE  rows'[t] = rows[t]
  <2>1. rows' = rows \/ \E row : T(w) \in Task /\ rows' = [rows EXCEPT ![T(w)] = row]
    BY <1>8, WorkerSaves
  <2> QED
    BY <1>0, <1>8, <2>1
<1>9. \/ \E w \in Worker : Work(w)
      \/ \E u \in Task : Create(u) \/ Plan(u) \/ CommitCommand(u) \/ Claim(u)
      \/ rows' = rows
  BY <1>1 DEF Next, vars, Answer, Scan, Interrupt, Read, ExpireLease, LoseLease, ListQueued,
     ListChecking, ListPushed, EndScan, List, StartWorker, Resume, Conflict, Crash,
     handlerFrame, Renew, Stall, ReleaseFails, AcquireFails, leaseFrame
<1> QED
  BY <1>2, <1>4, <1>5, <1>6, <1>7, <1>8, <1>9

LEMMA NextServed ==
  ASSUME IInv, OneSlot, CalmSound, faults = 0, ~Fault, [Next]_vars
  PROVE  CheckingIsServed'
<1> SUFFICES ASSUME NEW t \in Task, up', rows'[t].status = "checking",
                    rows'[t].commit = NoCommit
             PROVE  \E w \in Worker : workers'[w].task = t /\ workers'[w].pc \in Serving
  BY DEF CheckingIsServed, T, Serving
<1>0. /\ workers \in [Worker -> WorkerType] /\ NoTask \notin Task
      /\ lease[t] # "orphan" /\ (lease[t] = "held" => Leased(t) # {})
      /\ t \in lapsed => \E v \in Leased(t) : ~Live(v)
      /\ \A w \in Worker : T(w) \in Task /\ ~Live(w) => rows[T(w)].status = "cancelled"
      /\ up /\ rows[t].status = "checking" /\ rows[t].commit = NoCommit =>
           \E w \in Worker : T(w) = t /\ workers[w].pc \in Serving
  BY Types DEF CalmSound, CheckingIsServed, IInv, ExecutionConstants, Serving
<1>1. CASE \E w \in Worker : Work(w) /\ T(w) = t
  <2>1. PICK w \in Worker : Work(w) /\ T(w) = t
    BY <1>1
  <2>2. up
    BY <1>0, <2>1 DEF Work, workerFrame
  <2>3. rows[t].status = "checking" =>
          rows[t].commit # NoCommit \/ workers[w].pc \in Serving
    BY <1>0, <2>1, <2>2, OneWorker
  <2>4. workers'[w].pc \in Serving
    BY <1>0, <2>1, <2>3, ServeStep
  <2>5. CASE Exit(w)
    BY <1>0, <2>4, <2>5, IdleFacts DEF Exit, Serving
  <2>6. CASE ~Exit(w)
    <3>1. PICK n \in WorkerType, row \in RowType, b \in Branch : WorkStep(w, n, row, b)
      BY <2>1, <2>6, WorkerSteps DEF Acts
    <3>2. workers'[w].task = t
      BY <2>1, <3>1, WorkRest
    <3> QED
      BY <2>4, <3>2
  <2> QED
    BY <2>5, <2>6
<1>2. CASE ~(\E w \in Worker : Work(w) /\ T(w) = t)
  <2>1. up /\ rows'[t] = rows[t]
    BY <1>2, OnlyWorkersCheck
  <2>2. PICK v \in Worker : T(v) = t /\ workers[v].pc \in Serving
    BY <1>0, <2>1
  <2>3. CASE \E w \in Worker, n \in WorkerType, row \in RowType, b \in Branch :
               Acts(w) /\ WorkStep(w, n, row, b)
    <3>1. PICK w \in Worker, n \in WorkerType, row \in RowType, b \in Branch :
            Work(w) /\ WorkStep(w, n, row, b)
      BY <2>3 DEF Acts, Fails, ReleaseFails, AcquireFails
    <3>2. workers'[v] = workers[v]
      BY <1>2, <2>2, <3>1, WorkRest
    <3> QED
      BY <2>2, <3>2 DEF T
  <2>4. CASE \E w \in Worker : Departs(w)
    BY <2>2, <2>4 DEF Departs, Serving, T
  <2>5. CASE \E w \in Worker, u \in Task : Arrives(w, u)
    BY <2>2, <2>5 DEF Arrives, Serving, T
  <2>6. CASE (\E u \in Task : Interrupt(u)) \/ (\E w \in Worker : LoseLease(w) \/ Renew(w))
    BY <2>2, <2>6, LiveEnds DEF T
  <2>7. CASE Remains(v)
    BY <2>2, <2>7 DEF Remains, Serving, T
  <2> QED
    BY <2>3, <2>4, <2>5, <2>6, <2>7, ActiveSteps
<1> QED
  BY <1>1, <1>2

LEMMA CalmStep ==
  ASSUME IInv, [Next]_vars, faults' = 0
  PROVE  faults = 0 /\ ~Fault
<1>0. faults \in Nat
  BY DEF IInv, TypeOK
<1>1. ~Fault
  BY <1>0 DEF Fault
<1>2. faults' = faults
  BY <1>1 DEF Next, vars, Answer, Scan, Create, Plan, CommitCommand, Interrupt, Conflict, Read,
     ExpireLease, LoseLease, ListQueued, ListChecking, ListPushed, EndScan, List, Claim,
     StartWorker, Resume, Crash, scanFrame, handlerFrame, Work, workerFrame,
     RecoverInterrupted, Renew, Stall, ReleaseFails, AcquireFails, leaseFrame
<1> QED
  BY <1>1, <1>2

LeasesCalm(t) ==
  /\ lease[t] # "orphan"
  /\ lease[t] = "held" => Leased(t) # {}
  /\ t \in lapsed => \E w \in Leased(t) : ~Live(w)

(* Without faults a lease runs out only under a worker that was cancelled.  *)
LEMMA NextLeasesCalm ==
  ASSUME IInv, OneSlot, [Next]_vars, ~Fault, NEW t \in Task, LeasesCalm(t)
  PROVE  LeasesCalm(t)'
<1>0. lease \in [Task -> Lease] /\ NoTask \notin Task /\ workers \in [Worker -> WorkerType]
  BY Types DEF IInv, TypeOK, Lease, ExecutionConstants
<1>1. ASSUME \A u \in Worker : SameWorker(u)
      PROVE  /\ Leased(t)' = Leased(t)
             /\ (\E w \in Leased(t) : ~Live(w)) => (\E w \in Leased(t) : ~Live(w))'
  BY <1>1 DEF SameWorker, Leased, Live
<1>2. CASE Stays
  <2>1. /\ Leased(t)' = Leased(t)
        /\ (\E w \in Leased(t) : ~Live(w)) => (\E w \in Leased(t) : ~Live(w))'
    BY <1>1, <1>2 DEF Stays
  <2>2. CASE UNCHANGED <<lease, lapsed>>
    BY <2>1, <2>2 DEF LeasesCalm
  <2>3. CASE \E v \in Task : /\ Leased(v) # {}
                             /\ v \in lapsed \/ \A w \in Leased(v) : ~Live(w)
                             /\ \E left \in {"held", "expired"} :
                                  lease' = [lease EXCEPT ![v] = left]
                             /\ lapsed' = lapsed \cup {v}
    <3>1. PICK v \in Task, left \in {"held", "expired"} :
            /\ Leased(v) # {} /\ (v \in lapsed \/ \A w \in Leased(v) : ~Live(w))
            /\ lease' = [lease EXCEPT ![v] = left] /\ lapsed' = lapsed \cup {v}
      BY <2>3
    <3>2. CASE v = t
      <4>1. \E w \in Leased(t) : ~Live(w)
        BY <3>1, <3>2 DEF LeasesCalm
      <4>2. lease'[t] # "orphan"
        BY <1>0, <3>1, <3>2
      <4> QED
        BY <2>1, <4>1, <4>2 DEF LeasesCalm
    <3>3. CASE v # t
      <4>1. lease'[t] = lease[t] /\ (t \in lapsed' <=> t \in lapsed)
        BY <1>0, <3>1, <3>3
      <4> QED
        BY <2>1, <4>1 DEF LeasesCalm
    <3> QED
      BY <3>2, <3>3
  <2>4. CASE \E v \in Task : /\ Leased(v) = {} /\ lapsed' = lapsed \ {v}
                             /\ lease' = [lease EXCEPT ![v] = "free"]
    <3>1. /\ lease'[t] \in {lease[t], "free"}
          /\ t \in lapsed' => t \in lapsed
      BY <1>0, <2>4
    <3> QED
      BY <2>1, <3>1 DEF LeasesCalm
  <2> QED
    BY <1>2, <2>2, <2>3, <2>4 DEF Stays
<1>3. CASE Ends
  <2>1. lease'[t] # "orphan" /\ lease'[t] # "held" /\ t \notin lapsed'
    BY <1>3 DEF Ends, LeasesCalm
  <2> QED
    BY <2>1 DEF LeasesCalm
<1>4. ASSUME NEW w \in Worker, NEW n \in WorkerType, NEW row \in RowType, NEW b \in Branch,
             WorkStep(w, n, row, b)
      PROVE  LeasesCalm(t)'
  <2>1. /\ workers'[w] = n /\ n.task = T(w) /\ T(w) \in Task /\ n.live = Live(w)
        /\ \A u \in Worker \ {w} : workers'[u] = workers[u]
    BY <1>4, WorkRest, WorkRows DEF WorkStep, Moves
  <2>2. CASE T(w) # t
    <3>1. Leased(t)' = Leased(t) /\ \A u \in Leased(t) : workers'[u] = workers[u]
      BY <2>1, <2>2 DEF Leased, T
    <3>2. lease'[t] = lease[t] /\ (t \in lapsed' <=> t \in lapsed)
      BY <1>0, <1>4, <2>1, <2>2 DEF WorkStep, Leases
    <3> QED
      BY <3>1, <3>2 DEF LeasesCalm, Live
  <2>3. CASE T(w) = t
    <3>1. /\ \A u \in Leased(t) : u = w
          /\ \A u \in Leased(t)' : u = w
          /\ w \in Leased(t) <=> workers[w].leased
          /\ w \in Leased(t)' <=> n.leased
      BY <2>1, <2>3, OneWorker DEF Leased, T
    <3>2. CASE UNCHANGED <<lease, lapsed>> /\ n.leased = workers[w].leased
      BY <2>1, <3>1, <3>2 DEF LeasesCalm, Live
    <3>3. CASE lease' = [lease EXCEPT ![t] = "held"] /\ lapsed' = lapsed /\ n.leased
               /\ ~workers[w].leased
      <4>1. t \notin lapsed /\ lease'[t] = "held"
        BY <1>0, <3>1, <3>3 DEF LeasesCalm
      <4> QED
        BY <3>1, <3>3, <4>1 DEF LeasesCalm
    <3>4. CASE /\ lease' = [lease EXCEPT ![t] = "free"]
               /\ lapsed' = IF Leased(t) = {w} THEN lapsed \ {t} ELSE lapsed
               /\ workers[w].leased
      <4>1. Leased(t) = {w}
        BY <3>1, <3>4
      <4>2. t \notin lapsed' /\ lease'[t] = "free"
        BY <1>0, <3>4, <4>1
      <4> QED
        BY <4>2 DEF LeasesCalm
    <3> QED
      BY <1>4, <2>3, <3>2, <3>3, <3>4 DEF WorkStep, Leases
  <2> QED
    BY <2>2, <2>3
<1>5. CASE \E w \in Worker : Leaves(w)
  <2>1. PICK w \in Worker : Leaves(w)
    BY <1>5
  <2>2. Leased(t)' = Leased(t) /\ \A u \in Leased(t) : workers'[u] = workers[u]
    BY <2>1 DEF Leaves, Leased
  <2> QED
    BY <2>1, <2>2 DEF Leaves, LeasesCalm, Live
<1>6. CASE \E w \in Worker, v \in Task : Enters(w, v)
  <2>1. PICK w \in Worker, v \in Task : Enters(w, v)
    BY <1>6
  <2>2. /\ Leased(t) \subseteq Leased(t)' /\ \A u \in Leased(t) : workers'[u] = workers[u]
        /\ lapsed' = lapsed
    BY <2>1 DEF Enters, Leased
  <2>3. lease'[t] = lease[t] \/ (lease'[t] = "held" /\ w \in Leased(t)')
    BY <1>0, <2>1 DEF Enters, Leased
  <2> QED
    BY <2>2, <2>3 DEF LeasesCalm, Live
<1> QED
  BY <1>2, <1>3, <1>4, <1>5, <1>6, NextWorkers

LEMMA NextCalm ==
  ASSUME IInv, OneSlot, ActiveSound, CalmSound, [Next]_vars
  PROVE  CalmSound'
<1> SUFFICES ASSUME faults' = 0
             PROVE  /\ \A t \in Task : LeasesCalm(t)'
                    /\ \A w \in Worker : workers'[w].task \in Task /\ ~workers'[w].live =>
                         rows'[workers'[w].task].status = "cancelled"
                    /\ CheckingIsServed'
  BY DEF CalmSound, LeasesCalm, T, Live
<1>0. NoTask \notin Task /\ workers \in [Worker -> WorkerType]
  BY Types DEF IInv, ExecutionConstants
<1>1. faults = 0 /\ ~Fault
  BY CalmStep
<1>2. /\ \A t \in Task : LeasesCalm(t)
      /\ \A w \in Worker : T(w) \in Task /\ ~Live(w) => rows[T(w)].status = "cancelled"
  BY <1>1 DEF CalmSound, LeasesCalm
<1>3. ASSUME NEW t \in Task
      PROVE  LeasesCalm(t)'
  BY <1>1, <1>2, NextLeasesCalm
<1>4. ASSUME NEW u \in Worker, workers'[u].task \in Task, ~workers'[u].live
      PROVE  rows'[workers'[u].task].status = "cancelled"
  <2>1. CASE workers'[u].task = T(u) /\ ~Live(u)
    BY <1>2, <1>4, <2>1, CancelledStays
  <2>2. CASE \E w \in Worker, n \in WorkerType, row \in RowType, b \in Branch :
               WorkStep(w, n, row, b)
    <3>1. PICK w \in Worker, n \in WorkerType, row \in RowType, b \in Branch :
            WorkStep(w, n, row, b)
      BY <2>2
    <3>2. workers'[u].task = T(u) /\ workers'[u].live = Live(u)
      BY <3>1, WorkRest DEF WorkStep, Moves, T, Live
    <3> QED
      BY <1>4, <2>1, <3>2
  <2>3. CASE \E w \in Worker : Departs(w)
    BY <1>0, <1>4, <2>1, <2>3, IdleFacts DEF Departs, T, Live
  <2>4. CASE \E w \in Worker, t \in Task : Arrives(w, t)
    BY <1>4, <2>1, <2>4 DEF Arrives, T, Live
  <2>5. CASE workers' = [w \in Worker |-> Idle]
    BY <1>0, <1>4, <2>5, IdleFacts
  <2>6. CASE \/ \E t \in Task : Interrupt(t)
             \/ \E w \in Worker : (LoseLease(w) \/ Renew(w)) /\ workers' # workers
    <3>0. ASSUME NEW w \in Worker, LoseLease(w) \/ Renew(w), workers' # workers
          PROVE  FALSE
      <4>1. workers[w].leased /\ Live(w) /\ lease[T(w)] = "free"
        BY <1>1, <3>0 DEF LoseLease, Renew
      <4>2. T(w) \in Task /\ T(w) \in lapsed
        BY <4>1 DEF IInv, LeaseSound, WorkerSound, WorkerShape, T
      <4>3. PICK v \in Leased(T(w)) : ~Live(v)
        BY <1>2, <4>2 DEF LeasesCalm
      <4>4. v = w
        BY <4>2, <4>3, OneWorker DEF Leased, T
      <4> QED
        BY <4>1, <4>3, <4>4
    <3>1. PICK t \in Task : Interrupt(t)
      BY <2>6, <3>0
    <3>2. rows[t].status = "cancelled" /\ rows' = rows
      BY <3>1 DEF Interrupt, IInv, HandlerSound
    <3>3. CASE workers'[u].live = workers[u].live
      BY <1>4, <2>1, <2>6, <3>3, LiveEnds DEF T, Live
    <3>4. CASE workers'[u].live # workers[u].live
      <4>1. active[t] # NoWorker /\ workers' = [workers EXCEPT ![active[t]].live = FALSE]
        BY <3>1, <3>4 DEF Interrupt
      <4>2. active[t] = u /\ T(u) = t
        BY <1>0, <3>4, <4>1 DEF ActiveSound
      <4> QED
        BY <3>2, <4>2, <2>6, LiveEnds DEF T
    <3> QED
      BY <3>3, <3>4
  <2>7. CASE Remains(u)
    BY <1>0, <1>4, <2>1, <2>7 DEF Remains, T, Live
  <2>8. CASE workers' = workers
    BY <1>4, <2>1, <2>8 DEF T, Live
  <2> QED
    BY <2>2, <2>3, <2>4, <2>5, <2>6, <2>7, <2>8, ActiveSteps
<1> QED
  BY <1>1, <1>3, <1>4, NextServed

LEMMA InitSerial == Init => SerialSound
<1> SUFFICES ASSUME Init
             PROVE  SerialSound
  OBVIOUS
<1>1. /\ \A w \in Worker : T(w) = NoTask
      /\ \A t \in Task : /\ active[t] = NoWorker /\ lease[t] = "free"
                         /\ rows[t].status = "absent"
      /\ NoTask \notin Task
  BY DEF Init, T, Idle, ExecutionConstants
<1>2. lapsed = {} /\ \A w \in Worker : workers[w].pc = "idle"
  BY IdleFacts DEF Init
<1> QED
  BY <1>1, <1>2 DEF SerialSound, ActiveSound, CancelReachesWorker, CalmSound,
     CheckingIsServed, PushingSound

LEMMA NextSerial ==
  ASSUME IInv, OneSlot, SerialSound, [Next]_vars
  PROVE  SerialSound'
BY NextActive, NextCancel, NextCalm, NextPushing DEF SerialSound

(* OneSlot is about constants only, so it holds in every state or in none.  *)
LEMMA SerialInvariant == OneSlot => (Spec => []SerialSound)
<1> SUFFICES ASSUME OneSlot
             PROVE  Spec => []SerialSound
  OBVIOUS
<1>1. IInv /\ SerialSound /\ [Next]_vars => SerialSound'
  BY NextSerial
<1> QED
  BY <1>1, InitSerial, InductiveInvariant, PTL DEF Spec

(* With one slot per project, once a cancellation has been answered, no     *)
(* worker of the task runs Codex, checks or git with a live context, under  *)
(* whatever crashes, lost leases and restarts.                              *)
THEOREM CancellationReachesWorkers == OneSlot => (Spec => []CancelReachesWorker)
<1>1. SerialSound => CancelReachesWorker
  BY DEF SerialSound
<1> QED
  BY <1>1, SerialInvariant, PTL

(* With one slot per project and as long as nothing fails, a task that is   *)
(* checking is served by a worker or has the commit that resumes it.        *)
THEOREM CheckingTasksAreServed == OneSlot => (Spec => [](faults = 0 => CheckingIsServed))
<1>1. SerialSound => (faults = 0 => CheckingIsServed)
  BY DEF SerialSound, CalmSound
<1> QED
  BY <1>1, SerialInvariant, PTL

(* One slot per project is enough for both. *)
THEOREM OneSlotIsEnough == OneSlot => (Spec => []OneSlotSuffices)
  BY CancellationReachesWorkers, CheckingTasksAreServed, PTL DEF OneSlotSuffices

=============================================================================
