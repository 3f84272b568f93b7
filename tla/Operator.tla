------------------------------ MODULE Operator ------------------------------
(***************************************************************************)
(* One call of the privileged helper, from the client that bundles a       *)
(* commit and reads the answer to the git commands that import, check,     *)
(* merge and push it in a repository of the helper's own.  The helper is   *)
(* killed when the worker's context is cancelled; a git or deploy command  *)
(* that it had started has a process group of its own and may still end.   *)
(* A commit is the set of the changes in its history.                      *)
(***************************************************************************)
EXTENDS TaskLog

CONSTANTS
  Base,        \* base branch when the helper's clone was last synchronised
  Upstream,    \* changes that others make to the base branch
  Foreign      \* changes that others push to the task and RC branches

VARIABLES
  remote,      \* heads of the remote branches; {} for a branch that is not there
  tracked,     \* the helper's tracking ref of the base branch
  ops,         \* the call
  landing      \* a push or deployment runs

opsVars == <<remote, tracked, ops, landing>>

NoCall == [pc |-> "idle", action |-> "push", commit |-> {}, seen |-> {},
           target |-> {}, temps |-> {}, sound |-> TRUE, answer |-> "none"]
Temp == {"spool", "imported", "fetched", "worktree"}
Branch == [push |-> "task", merge |-> "rc", deploy |-> "rc"]

OperatorTypeOK ==
  /\ DOMAIN remote = {"base", "task", "rc"} /\ landing \in BOOLEAN
  /\ ops.pc \in {"idle", "bundle", "import", "fetch", "merge", "clean", "unwind",
                 "send", "wait", "answer", "log", "done"}
  /\ ops.action \in DOMAIN Branch /\ ops.temps \subseteq Temp
  /\ ops.sound \in BOOLEAN /\ ops.answer \in {"none", "ok", "error"}

OperatorInit ==
  /\ remote = [base |-> Base, task |-> {}, rc |-> Base]
  /\ tracked = Base /\ ops = NoCall /\ landing = FALSE

logFrame == <<file, limited, confirmed, live>>
At(pc) == ops.pc = pc
To(pc) == ops' = [ops EXCEPT !.pc = pc]

(* The helper meets an error: what it has made is cleaned on the way out.   *)
Unwinds == ops' = [ops EXCEPT !.pc = "unwind", !.sound = FALSE]

-----------------------------------------------------------------------------
(* Sync, a call of its own. *)
Sync(ok) ==
  /\ IF ok THEN live /\ tracked' = remote.base /\ UNCHANGED faults
           ELSE UNCHANGED tracked /\ Fails(IF live THEN 1 ELSE 0)
  /\ UNCHANGED <<remote, ops, landing>>

Call(action, commit) ==
  /\ At("idle")
  /\ ops' = [NoCall EXCEPT !.pc = IF action = "push" THEN "bundle" ELSE "fetch",
                           !.action = action, !.commit = commit]
  /\ UNCHANGED <<remote, tracked, landing>>

(* createTaskBundle: nothing is called unless the branch is still at the    *)
(* commit, whose bundle has no other ref.                                   *)
Bundle(head) ==
  /\ At("bundle") /\ UNCHANGED <<remote, tracked, landing>> /\ UNCHANGED logFrame
  /\ \/ live /\ head = ops.commit /\ To("import") /\ UNCHANGED faults
     \/ /\ ops' = [ops EXCEPT !.pc = "done", !.sound = FALSE, !.answer = "error"]
        /\ Fails(IF live /\ head = ops.commit THEN 1 ELSE 0)

-----------------------------------------------------------------------------
(* The helper. *)
Helping == {"import", "fetch", "merge", "clean", "unwind", "send", "wait",
            "answer"}
helperFrame == <<remote, tracked, landing>>

(* spoolTaskBundle, import, and the check against the trusted base.         *)
Import ==
  /\ At("import") /\ UNCHANGED helperFrame
  /\ \/ /\ tracked \subseteq ops.commit /\ UNCHANGED faults
        /\ ops' = [ops EXCEPT !.pc = "fetch", !.temps = {"spool", "imported"}]
     \/ /\ \/ ~(tracked \subseteq ops.commit) /\ UNCHANGED faults
           \/ Fails(1)
        /\ \E temps \in {{}, {"spool"}, {"spool", "imported"}} :
             ops' = [ops EXCEPT !.pc = "unwind", !.sound = FALSE, !.temps = temps]

(* What the helper finds on the remote permits the action.                  *)
Permits(action) ==
  CASE action = "push"   -> remote.task \subseteq ops.commit
    [] action = "merge"  -> remote.task = ops.commit
    [] action = "deploy" -> remote.rc = ops.commit

(* fetchRemoteBranch or fetchMergeBranches, under temporary refs. *)
Fetch ==
  /\ At("fetch") /\ UNCHANGED helperFrame
  /\ \/ /\ Permits(ops.action) /\ UNCHANGED faults
        /\ ops' = [ops EXCEPT !.pc = IF ops.action = "merge" THEN "merge" ELSE "clean",
                     !.seen = remote[Branch[ops.action]],
                     !.target = ops.commit,
                     !.temps = IF ops.action = "push" /\ remote.task = {}
                                 THEN @ ELSE @ \cup {"fetched"}]
     \/ /\ IF Permits(ops.action) THEN Fails(1) ELSE UNCHANGED faults
        /\ ops' = [ops EXCEPT !.pc = "unwind", !.sound = FALSE,
                              !.temps = @ \cup {"fetched"}]

(* The merge of the commit into the fetched RC head, and its checks.        *)
Merge ==
  /\ At("merge") /\ UNCHANGED helperFrame /\ UNCHANGED faults
  /\ \/ ops' = [ops EXCEPT !.pc = "clean", !.target = ops.seen \cup ops.commit,
                           !.temps = @ \cup {"worktree"}]
     \/ ops' = [ops EXCEPT !.pc = "unwind", !.sound = FALSE,   \* conflict, checks
                           !.temps = @ \cup {"worktree"}]

BugCleanErrorIgnored ==
  /\ At("clean") /\ UNCHANGED helperFrame
  /\ \E temps \in SUBSET ops.temps :
       /\ ops' = [ops EXCEPT !.temps = temps, !.pc = "send"]
       /\ IF temps = {} THEN UNCHANGED faults ELSE Fails(1)

(* Every temporary is removed, with a time limit of its own, before the     *)
(* remote is changed; one that cannot be removed stops the action.          *)
Clean ==
  /\ At("clean") /\ UNCHANGED helperFrame
  /\ \/ /\ ops' = [ops EXCEPT !.temps = {}, !.pc = "send"] /\ UNCHANGED faults
     \/ /\ Fails(1)
        /\ \E t \in ops.temps :
             ops' = [ops EXCEPT !.temps = {t}, !.pc = "answer", !.sound = FALSE]

(* The deferred clean-ups after an error. *)
Unwind ==
  /\ At("unwind") /\ UNCHANGED helperFrame
  /\ \/ ops' = [ops EXCEPT !.temps = {}, !.pc = "answer"] /\ UNCHANGED faults
     \/ /\ Fails(1)
        /\ \E t \in ops.temps : ops' = [ops EXCEPT !.temps = {t}, !.pc = "answer"]

(* guardRepository, and the start of git push or of the deploy action.      *)
Send ==
  /\ At("send") /\ UNCHANGED <<remote, tracked>>
  /\ \/ To("wait") /\ landing' = TRUE /\ UNCHANGED faults
     \/ Unwinds /\ UNCHANGED landing /\ Fails(1)

(* A push without force moves a branch to a descendant of its head.         *)
FastForward(b) == remote[b] \subseteq ops.target

(* The command ends, whether or not the helper still waits for it.          *)
Land(moved) ==
  /\ landing /\ landing' = FALSE /\ UNCHANGED tracked
  /\ IF moved /\ ops.action # "deploy"
       THEN /\ FastForward(Branch[ops.action])
            /\ remote' = [remote EXCEPT ![Branch[ops.action]] = ops.target]
       ELSE UNCHANGED remote
  /\ IF At("wait")
       THEN \/ /\ ops' = [ops EXCEPT !.pc = "answer", !.sound = moved]
               /\ IF moved \/ (ops.action # "deploy"
                               /\ ~FastForward(Branch[ops.action]))
                    THEN UNCHANGED faults ELSE Fails(1)
            \/ /\ moved /\ Fails(1)     \* it acted, and reports an error
               /\ ops' = [ops EXCEPT !.pc = "answer", !.sound = FALSE]
       ELSE UNCHANGED <<ops, faults>>

(* The helper exits; its response may be lost. *)
Answer ==
  /\ At("answer") /\ UNCHANGED helperFrame
  /\ \/ ops' = [ops EXCEPT !.pc = "log"] /\ UNCHANGED faults
     \/ ops' = [ops EXCEPT !.pc = "log", !.sound = FALSE] /\ Fails(1)

Help ==
  /\ UNCHANGED logFrame
  /\ \/ Import \/ Fetch \/ Merge \/ Clean \/ Unwind \/ Send \/ Answer
     \/ \E moved \in BOOLEAN : Land(moved)

(* The client kills the helper with its group, which supposes that it may   *)
(* signal a wrapper of another user: the helper's clean-up does not run.    *)
KillHelper ==
  /\ ~live /\ ops.pc \in Helping
  /\ ops' = [ops EXCEPT !.pc = "log", !.sound = FALSE]
  /\ UNCHANGED <<remote, tracked, landing, faults>> /\ UNCHANGED logFrame

(* call: what the helper wrote to stderr is logged; that this fails does    *)
(* not turn an action that the helper has confirmed into an error.          *)
Respond(n) ==
  /\ At("log") /\ UNCHANGED <<remote, tracked, landing, live>>
  /\ ops' = [ops EXCEPT !.pc = "done",
                        !.answer = IF ops.sound THEN "ok" ELSE "error"]
  /\ \/ UNCHANGED <<file, limited, confirmed, faults>>
     \/ \E ok \in BOOLEAN : AppendRecord(n, ok)

(* Others push to the branches without force. *)
ForeignPush(b) ==
  /\ \E c \in (IF b = "base" THEN Upstream ELSE Foreign) \ remote[b] :
       remote' = [remote EXCEPT ![b] = @ \cup {c}]
  /\ UNCHANGED <<tracked, ops, landing, faults>> /\ UNCHANGED logFrame

-----------------------------------------------------------------------------
(* Nothing is ever removed from a remote branch; this program moves one     *)
(* only when all temporaries of the call are gone, and then to a commit     *)
(* that contains the one that was called for; the client reports success    *)
(* exactly when the helper has confirmed it, and then it is true.           *)
RemoteMove ==
  /\ \A b \in DOMAIN remote :
       /\ remote[b] \subseteq remote'[b]
       /\ (remote'[b] \ remote[b]) \ (Upstream \cup Foreign) # {} =>
            ops.temps = {} /\ ops.commit \subseteq remote'[b]
  /\ ops.pc = "log" /\ ops'.pc = "done" =>
       /\ ops'.answer = "ok" <=> ops.sound
       /\ ops.sound /\ ops.action # "deploy" =>
            ops.commit \subseteq remote[Branch[ops.action]]
RemoteMoves == [][RemoteMove]_opsVars

=============================================================================
