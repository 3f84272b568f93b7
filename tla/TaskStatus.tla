----------------------------- MODULE TaskStatus -----------------------------
(***************************************************************************)
(* The status machine of one task: the table that every service command    *)
(* and every scheduler step consults before it saves a task, and the       *)
(* mapping that the start-up recovery applies in SQL, which does not       *)
(* consult the table.                                                      *)
(***************************************************************************)

Status == {"draft", "awaiting_confirmation", "queued", "running", "blocked",
           "checking", "pushed", "awaiting_merge_approval", "merging",
           "merged", "merge_conflict", "awaiting_deploy_approval",
           "deploying", "deployed", "deploy_failed", "failed", "cancelled"}

CanTransition(from, to) ==
  \/ from = "draft"
       /\ to \in {"awaiting_confirmation", "failed", "cancelled"}
  \/ from = "awaiting_confirmation" /\ to \in {"queued", "failed", "cancelled"}
  \/ from = "queued" /\ to \in {"running", "failed", "cancelled"}
  \/ from = "running" /\ to \in {"blocked", "checking", "failed", "cancelled"}
  \/ from = "blocked" /\ to \in {"queued", "failed", "cancelled"}
  \/ from = "checking" /\ to \in {"pushed", "failed", "cancelled"}
  \/ from = "pushed"
       /\ to \in {"awaiting_merge_approval", "failed", "cancelled"}
  \/ from = "awaiting_merge_approval"
       /\ to \in {"queued", "merging", "cancelled"}
  \/ from = "merging" /\ to \in {"merged", "merge_conflict", "failed"}
  \/ from = "merged" /\ to = "awaiting_deploy_approval"
  \/ from = "awaiting_deploy_approval" /\ to = "deploying"
  \/ from = "deploying"
       /\ to \in {"awaiting_deploy_approval", "deployed", "deploy_failed"}
  \/ from = "deploy_failed" /\ to = "deploying"

(* A task that is checking is interrupted only when its validated commit    *)
(* was not stored; with a stored commit it stays, to be pushed again.       *)
Interrupted(status, commitStored) ==
  \/ status \in {"running", "pushed", "merging", "merged", "deploying"}
  \/ status = "checking" /\ ~commitStored

(* Mistakes that the recovery could make.  They and the other definitions   *)
(* named Bug... are not part of the specification: each replaces the        *)
(* definition after it when the sensitivity of a property is tested.        *)
BugRecoveredUnknown(status, commitStored) ==
  IF ~Interrupted(status, commitStored) THEN status
  ELSE CASE status = "checking" -> "failed"
         [] status \in {"running", "merging"} -> "interrupted"
         [] status = "pushed"    -> "awaiting_merge_approval"
         [] status = "merged"    -> "awaiting_deploy_approval"
         [] status = "deploying" -> "deploy_failed"

BugRecoveredRequeues(status, commitStored) ==
  IF ~Interrupted(status, commitStored) THEN status
  ELSE CASE status = "running" -> "queued"
         [] status \in {"checking", "merging"} -> "failed"
         [] status = "pushed"    -> "awaiting_merge_approval"
         [] status = "merged"    -> "awaiting_deploy_approval"
         [] status = "deploying" -> "deploy_failed"

BugRecoveredFailsDeploy(status, commitStored) ==
  IF ~Interrupted(status, commitStored) THEN status
  ELSE CASE status \in {"running", "checking", "merging", "deploying"} -> "failed"
         [] status = "pushed"    -> "awaiting_merge_approval"
         [] status = "merged"    -> "awaiting_deploy_approval"

Recovered(status, commitStored) ==
  IF ~Interrupted(status, commitStored) THEN status
  ELSE CASE status \in {"running", "checking", "merging"} -> "failed"
         [] status = "pushed"    -> "awaiting_merge_approval"
         [] status = "merged"    -> "awaiting_deploy_approval"
         [] status = "deploying" -> "deploy_failed"

=============================================================================
