----------------------------- MODULE Contracts -----------------------------
(***************************************************************************)
(* The vocabulary of the harness (src/harness/contracts.py): the statuses  *)
(* of a task, the table of permitted status changes, and the enumerations  *)
(* of a failure report.  Free text, UUIDs, budgets of money and time stamps *)
(* are not represented.                                                     *)
(***************************************************************************)

TaskStatus ==
  {"ready", "claimed", "in_progress", "review", "awaiting_approval",
   "blocked", "failed", "done", "cancelled", "recovery_required",
   "retry_wait", "awaiting_decision"}

\* The table every status change is checked against.
TRANSITIONS ==
  [s \in TaskStatus |->
     CASE s = "ready"       -> {"claimed", "cancelled"}
       [] s = "claimed"     -> {"in_progress", "blocked", "failed",
                                "recovery_required", "retry_wait",
                                "awaiting_decision"}
       [] s = "in_progress" -> {"review", "done", "blocked", "failed",
                                "recovery_required", "retry_wait",
                                "awaiting_decision"}
       [] s = "review"            -> {"awaiting_approval", "blocked", "done"}
       [] s = "awaiting_approval" -> {"done", "blocked"}
       [] s = "blocked"           -> {"ready", "cancelled"}
       [] s = "failed"            -> {"ready", "cancelled"}
       [] s = "recovery_required" -> {"ready", "blocked", "done", "cancelled"}
       [] s = "retry_wait"        -> {"ready", "recovery_required",
                                      "cancelled"}
       [] s = "awaiting_decision" -> {"ready", "blocked", "cancelled"}
       [] s \in {"done", "cancelled"} -> {}]

\* store.py, _EXECUTION_STATES: some worker holds the task.
ExecutionStates == {"claimed", "in_progress"}

FailureClass ==
  {"transient", "rate_limited", "quality_failure", "quota_exhausted",
   "policy_violation", "permanent", "uncertain_side_effect"}

SideEffectState == {"none", "confirmed_none", "unknown"}

\* The failure reports that pass validation, for the given values of
\* retry_after_seconds (0 stands for "not given"): an uncertain side effect
\* must be reported as unknown.
FailureReports(retryAfters) ==
  {r \in [class : FailureClass, side : SideEffectState,
          retryAfter : retryAfters] :
     r.class = "uncertain_side_effect" => r.side = "unknown"}

Outcomes == {"completed", "failed", "blocked"}

Decisions == {"approved", "rejected"}

\* The phase of TaskAuthority that a status stands for.
PhaseOf(s) ==
  CASE s = "absent"                       -> "absent"
    [] s = "ready"                        -> "open"
    [] s \in ExecutionStates              -> "held"
    [] s = "retry_wait"                   -> "waiting"
    [] s \in {"review", "awaiting_approval"} -> "judged"
    [] s = "recovery_required"            -> "uncertain"
    [] s = "done"                         -> "done"
    [] s \in {"blocked", "failed", "cancelled", "awaiting_decision"} -> "stopped"

=============================================================================
