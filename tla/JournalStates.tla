--------------------------- MODULE JournalStates ---------------------------
(***************************************************************************)
(* The vocabulary of the application journal: lifecycle states, effect     *)
(* kinds and event kinds, and the lifecycle relation a journal cursor may  *)
(* follow.  Everything here is a pure definition.                          *)
(***************************************************************************)

JournalState ==
  {"preparing", "prepared", "mutating", "effects_visible", "result_observed",
   "application_completed", "external_resolution_pending", "recovery_pending",
   "recovering", "recovered", "finalized", "abandoned", "indeterminate"}

EffectKind ==
  {"capture_old_object", "stage_incoming_payload", "publish_rejected_object",
   "publish_active_object", "recover_active_object", "observe_result",
   "synchronize_incoming_staging", "synchronize_recovery_staging",
   "synchronize_active_namespace", "synchronize_recovered_namespace",
   "synchronize_rejected_store", "publish_completed_evidence",
   "synchronize_completed_evidence", "seal_receipt"}

TerminalKind == {"completed", "failed", "indeterminate"}
EventKind == {"intent"} \cup TerminalKind

\* The proper successors of a lifecycle state (state_may_follow without the
\* reflexive case).
Successors(s) ==
  CASE s = "preparing" -> {"prepared", "abandoned"}
    [] s = "prepared" -> {"mutating"}
    [] s = "mutating" ->
         {"effects_visible", "recovery_pending", "indeterminate", "abandoned"}
    [] s = "effects_visible" ->
         {"result_observed", "recovery_pending", "indeterminate", "abandoned"}
    [] s = "result_observed" ->
         {"application_completed", "effects_visible", "recovery_pending",
          "indeterminate"}
    [] s = "recovery_pending" ->
         {"recovering", "recovered", "effects_visible", "indeterminate",
          "abandoned"}
    [] s = "indeterminate" -> {"recovering", "effects_visible", "abandoned"}
    [] s = "recovering" ->
         {"recovered", "effects_visible", "indeterminate", "abandoned"}
    [] OTHER -> {}

StateMayFollow(previous, next) ==
  previous = next \/ next \in Successors(previous)

\* The states that assert a successfully completed application.
SuccessfulState(s) ==
  s \in {"application_completed", "external_resolution_pending", "finalized"}

\* Effects that must have completed before a successful state is recorded.
SuccessEffectRequired(kind) ==
  kind \notin {"recover_active_object", "synchronize_recovered_namespace"}

=============================================================================
