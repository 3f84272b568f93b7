------------------------------ MODULE Worktree ------------------------------
(***************************************************************************)
(* The worktree of a task, made by several git commands of which each may  *)
(* fail half-way, be killed with the worker's context, or fail again while *)
(* an earlier failure is rolled back.  A commit is the set of the changes  *)
(* in its history, so an ancestor is a subset.                             *)
(***************************************************************************)
EXTENDS TaskContext

CONSTANTS
  Change,      \* changes that a task can commit
  SourceBase   \* refs/remotes/<remote>/<base> of the worker's own clone

VARIABLES
  tree,       \* what exists of the worktree: directory, registration, branch
  before,     \* history: what of it existed when the preparation began
  prepared,   \* none, ok, error or unclean (an error with a failed roll back)
  work        \* head of the task branch, and whether the worktree is fit
              \* (clean, on its branch and with its own Git directory)

treeVars == <<tree, before, prepared, work>>

Part == {"path", "registered", "branch"}

TreeTypeOK ==
  /\ tree \subseteq Part /\ before \subseteq Part
  /\ prepared \in {"none", "ok", "error", "unclean"}
  /\ work \in [head : {SourceBase \cup c : c \in SUBSET Change}, fit : BOOLEAN]

(* A name may be taken by something that is not this task's. *)
TreeInit ==
  /\ tree \in {{}, {"path"}, {"branch"}} /\ before = tree /\ prepared = "none"
  /\ work = [head |-> SourceBase, fit |-> TRUE]

-----------------------------------------------------------------------------
(* Preparing. *)

(* worktree remove --force: it may fail before, between and after its steps. *)
Removals(t) ==
  {[tree |-> t \ {"path", "registered"}, failures |-> 0],
   [tree |-> t, failures |-> 1],
   [tree |-> t \ {"path"}, failures |-> 1],
   [tree |-> t \ {"path", "registered"}, failures |-> 1]}

(* deleteTaskBranchIfUnattached; an attached branch is kept and reported.   *)
(* Definitions named Bug... are mistakes to test the properties with (see   *)
(* TaskStatus); they are not part of the specification.                     *)
BugBranchForgotten(t) == {[tree |-> t, failures |-> 0, kept |-> FALSE]}

BranchDeletions(t) ==
  IF "branch" \notin t THEN {[tree |-> t, failures |-> 0, kept |-> FALSE]}
  ELSE {[tree |-> t, failures |-> 1, kept |-> TRUE]}
         \cup IF "registered" \in t
                THEN {[tree |-> t, failures |-> 0, kept |-> TRUE]}
                ELSE {[tree |-> t \ {"branch"}, failures |-> 0, kept |-> FALSE]}

(* The roll back of t after `failures` failures, under a time limit of its  *)
(* own, so that a cancelled worker rolls back too.  Whatever fails, the     *)
(* deletion of the branch is still tried.                                   *)
RollBack(t, failures) ==
  \E r \in (IF t \cap {"path", "registered"} = {}
              THEN {[tree |-> t, failures |-> 0]} ELSE Removals(t)) :
    \E d \in BranchDeletions(r.tree) :
      /\ tree' = d.tree /\ Fails(failures + r.failures + d.failures)
      /\ prepared' = IF r.failures > 0 \/ d.kept THEN "unclean" ELSE "error"

(* What a failed or killed "worktree add -b" leaves behind. *)
HalfAdded == {{}, {"branch"}, {"branch", "registered"}, Part}

(* A command that the worker waits for fails by itself, or because the      *)
(* context is cancelled.                                                    *)
Failures == IF live THEN 1 ELSE 0

Prepare ==
  /\ prepared = "none" /\ UNCHANGED <<before, work>>
  /\ \/ /\ tree \cap {"path", "branch"} # {} \/ ~live    \* taken, or git killed
        /\ prepared' = "error" /\ UNCHANGED <<tree, faults>>
     \/ prepared' = "error" /\ Fails(1) /\ UNCHANGED tree
     \/ /\ tree = {} /\ live
        /\ prepared' = "ok" /\ tree' = Part /\ UNCHANGED faults
     \/ /\ tree = {}
        /\ \E left \in HalfAdded :
             \/ RollBack(left, Failures)
             \/ /\ prepared' = "unclean" /\ tree' = left   \* state not known
                /\ Fails(Failures + 1)
     \/ tree = {} /\ RollBack(Part, Failures)    \* no common directory

-----------------------------------------------------------------------------
(* Using and removing it. *)

(* Codex, what it leaves running, and the checks work in the tree freely.   *)
EditTree ==
  /\ "path" \in tree
  /\ work' \in {[head |-> work.head \cup {c}, fit |-> TRUE] : c \in Change}
                 \cup {[work EXCEPT !.fit = FALSE]}
  /\ UNCHANGED <<tree, before, prepared>>

ValidCommit == work.fit /\ work.head # SourceBase

(* Remove: only a directory or a registration that is there is removed.     *)
RemoveTree(ok) ==
  /\ UNCHANGED <<before, prepared, work>>
  /\ \/ /\ tree \cap {"path", "registered"} = {} /\ ok
        /\ UNCHANGED <<tree, faults>>
     \/ ~ok /\ Fails(1) /\ UNCHANGED tree
     \/ /\ tree \cap {"path", "registered"} # {}
        /\ \E r \in Removals(tree) :
             /\ tree' = r.tree /\ ok = (r.failures = 0)
             /\ IF ok THEN UNCHANGED faults ELSE Fails(1)

(* The application dies while git adds or removes the worktree.             *)
DieInPrepare ==
  /\ prepared = "none" /\ tree = {}
  /\ tree' \in HalfAdded \cup {Part \ {"path"}}
  /\ UNCHANGED <<before, prepared, work>>

(* A failed preparation leaves what was there before it and nothing else,   *)
(* unless it says that its roll back failed; the branch of one that         *)
(* succeeded outlives the worktree, and a registered worktree has a branch. *)
PreparedOrGone ==
  /\ prepared = "error" => tree = before
  /\ prepared = "ok" => "branch" \in tree
  /\ "registered" \in tree => "branch" \in tree

=============================================================================
