--------------------------- MODULE MCJournalStore ---------------------------
(***************************************************************************)
(* A journal with one active effect, its recovery effect and the receipt   *)
(* seal, used by two sessions.  The step contents follow the ways such a   *)
(* journal can resolve: the effect completes and the receipt is sealed, it *)
(* ends with an unknown outcome and is recovered, or is left as it is.     *)
(* Contents the validator must refuse are included.                        *)
(***************************************************************************)
EXTENDS JournalStore, TLC

MCKindOf == [active |-> "publish_active_object",
             recover |-> "recover_active_object",
             seal |-> "seal_receipt"]

Content(state, effect, kind, receipt, evidence) ==
  [state |-> state, effect |-> effect, kind |-> kind,
   fact |-> kind \in TerminalKind, receipt |-> receipt, evidence |-> evidence]

MCBodies ==
  {Content("mutating", "active", "intent", None, None),
   Content("mutating", "active", "completed", None, None),
   Content("result_observed", "seal", "intent", None, None),
   Content("application_completed", "seal", "completed", "r1", "ev"),
   Content("application_completed", "seal", "completed", "r2", "ev"),
   Content("indeterminate", "active", "indeterminate", None, None),
   Content("indeterminate", None, "none", "r1", None),
   Content("indeterminate", None, "none", "r2", None),
   Content("recovering", "recover", "intent", None, None),
   Content("recovering", "recover", "completed", None, None),
   Content("recovered", None, "none", "r1", None)}
  \cup {Content(st, None, "none", None, None) :
          st \in {"prepared", "effects_visible"}}

=============================================================================
