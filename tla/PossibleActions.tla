-------------------------- MODULE PossibleActions --------------------------
(***************************************************************************)
(* The deterministic engine of legal moves: what a snapshot of a run lets  *)
(* its planner choose, and the state it reports when it offers nothing.    *)
(* A snapshot is a record of the run's status, the status of its latest    *)
(* patch intake ("none" before the first), whether some intake is pending, *)
(* whether an approval and a founder escalation are, and whether a task is *)
(* created or running.                                                     *)
(***************************************************************************)

Statuses == {"waiting_approval", "suspended", "ready", "running",
             "completed", "failed", "rejected"}
PatchStatuses == {"none", "pending", "applied", "rejected"}
ActionNames == {"resolve_pending_approval", "execute_bounded_task",
                "replan_from_failed_execution", "replan_with_rejection_feedback"}
Snapshots == [status : Statuses, patch : PatchStatuses, review : BOOLEAN,
              approval : BOOLEAN, escalation : BOOLEAN, task : BOOLEAN]

\* Fault: a run whose patch was rejected falls through to its status.
ActionsByStatus(s) ==
  CASE s.approval                              -> {"resolve_pending_approval"}
    [] ~s.approval /\ (s.review \/ s.escalation) -> {}
    [] OTHER -> CASE s.status = "rejected" -> {"replan_with_rejection_feedback"}
                  [] s.status = "failed"   -> {"replan_from_failed_execution"}
                  [] OTHER                 -> {}

\* At most one move is legal: the first blocker that applies decides.
LegalActions(s) ==
  IF s.approval THEN {"resolve_pending_approval"}
  ELSE IF s.review \/ s.escalation THEN {}
  ELSE IF s.patch = "rejected" THEN {"replan_from_failed_execution"}
  ELSE IF s.status = "ready" /\ ~s.task THEN {"execute_bounded_task"}
  ELSE IF s.status = "rejected" THEN {"replan_with_rejection_feedback"}
  ELSE IF s.status = "failed" THEN {"replan_from_failed_execution"}
  ELSE {}

ActionState(s) ==
  CASE LegalActions(s) # {}                    -> "available"
    [] LegalActions(s) = {} /\ (s.review \/ s.escalation
         \/ s.status \in {"running", "suspended"}) -> "blocked"
    [] OTHER -> IF s.status = "completed" THEN "terminal" ELSE "stuck"

=============================================================================
