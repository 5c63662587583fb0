------------------------- MODULE ApplicationAttempt -------------------------
(***************************************************************************)
(* One physical application attempt: its frozen effect graph, its durable  *)
(* journal, the target it mutates and the in-process engine that drives    *)
(* it.  The steps of a fresh run are in FreshApplication, those of a       *)
(* restart in RestartedApplication.                                        *)
(*                                                                         *)
(* The journal is the committed log of JournalStore: one append is one     *)
(* step here, because that protocol implements an append-only log whatever *)
(* crashes.  A terminal event is kept together with its replay fact.       *)
(***************************************************************************)
EXTENDS Naturals, Sequences, FiniteSets, JournalStates

CONSTANTS PlanOrder,      \* the plan's paths, in plan order
          CaptureOrder,   \* paths whose old object is captured
          PayloadOrder,   \* paths of staged regular payload entries
          RejectedOrder,  \* paths published to the rejected store
          ActiveOrder,    \* paths mutated, in schedule order
          Conditional,    \* remove_directory_if_empty paths
          AbsentBefore,   \* active paths where nothing was admitted
          Durability,     \* application_durability_requirement
          Recoveries,     \* application_recovery_requirement of the attempts
          NoPath,         \* the path of an effect that has none
          MaxCrashes,     \* bound on crashes of the process
          MaxProjections  \* bound on state projections across restarts

Elements(order) == {order[i] : i \in DOMAIN order}
PlanPaths == Elements(PlanOrder)
Captures == Elements(CaptureOrder)
Payloads == Elements(PayloadOrder)
Rejecteds == Elements(RejectedOrder)
Actives == Elements(ActiveOrder)

\* A schedule names a path at most once per kind of step.  With recovery
\* selected, every active path that was present is captured.
ASSUME ScheduleAssumption ==
  /\ \A order \in {PlanOrder, CaptureOrder, PayloadOrder, RejectedOrder,
                   ActiveOrder} :
       /\ order \in Seq(PlanPaths)
       /\ \A i, j \in DOMAIN order : order[i] = order[j] => i = j
  /\ NoPath \notin PlanPaths
  /\ Conditional \subseteq Actives \ AbsentBefore
  /\ AbsentBefore \subseteq Actives \ Captures
  /\ Recoveries # {"none"} => Actives \subseteq Captures \cup AbsentBefore

ASSUME ControlAssumption ==
  /\ Durability \in {"visibility_only", "journal_and_recovery",
                     "all_application_domains"}
  /\ Recoveries \in (SUBSET {"none", "best_effort", "exact_prior_state"}) \ {{}}

ASSUME BoundsAssumption == MaxCrashes \in Nat /\ MaxProjections \in Nat \ {0}

AllDomains == Durability = "all_application_domains"

----------------------------------------------------------------------------
(***************************************************************************)
(* The effect graph the declaration freezes (journal_effects).             *)
(***************************************************************************)
Global(kind) == <<kind, NoPath>>
On(kind, paths) == {<<kind, p>> : p \in paths}

DeclaredKinds ==
  {"publish_completed_evidence", "synchronize_completed_evidence",
   "seal_receipt"}
  \cup {k \in {"synchronize_incoming_staging"} : Payloads # {}}
  \cup {k \in {"synchronize_recovery_staging"} : Captures # {}}
  \cup {k \in {"synchronize_active_namespace",
               "synchronize_recovered_namespace"} : Actives # {} /\ AllDomains}
  \cup {k \in {"synchronize_rejected_store"} : Rejecteds # {} /\ AllDomains}

Effects ==
  On("capture_old_object", Captures)
  \cup On("stage_incoming_payload", Payloads)
  \cup On("publish_rejected_object", Rejecteds)
  \cup On("publish_active_object", Actives)
  \cup On("observe_result", PlanPaths)
  \cup On("recover_active_object", Actives)
  \cup {Global(k) : k \in DeclaredKinds}

\* Effects that leave the process and must never be issued twice.
OneShot ==
  On("publish_rejected_object", Rejecteds)
  \cup On("publish_active_object", Actives)
  \cup On("recover_active_object", Actives)

(***************************************************************************)
(* Replay facts.  "inexact" is a completed capture that cannot restore the *)
(* exact prior state; "completed_anew" a payload stage sealed with other   *)
(* backend evidence than "completed".                                      *)
(***************************************************************************)
OperationFact ==
  {"completed", "completed_anew", "inexact", "conditional_retained",
   "failed", "indeterminate"}
DurabilityFact == {"confirmed", "visible", "unconfirmed", "indeterminate"}
Fact == OperationFact \cup DurabilityFact
Progress == {"none", "intent"} \cup Fact

Outcome ==
  {"failed_before_target_mutation", "effects_visible_durability_unconfirmed",
   "failed_with_partial_effects", "failed_fully_recovered", "indeterminate",
   "completed"}

Interruption ==
  {"effect_failed", "effect_indeterminate", "durability_unconfirmed",
   "durability_indeterminate", "result_observation_mismatch",
   "result_observation_indeterminate"}

IndeterminateInterruption ==
  {"effect_indeterminate", "durability_indeterminate",
   "result_observation_indeterminate"}
ObservationInterruption ==
  {"result_observation_mismatch", "result_observation_indeterminate"}

----------------------------------------------------------------------------
VARIABLES
  journal,  \* durable: the recovery the execution control selects, lifecycle
            \* state, progress of every effect, receipt outcome, sealed
            \* completed-evidence identity and projection of the completed
            \* evidence retained as a replay fact (0 is none)
  target,   \* the managed namespace, path by path
  shelf,    \* rejected objects visible in the rejected store
  records,  \* completed-evidence records: published and durable ones
  issued,   \* how often each one-shot effect was issued to the backend
  engine,   \* the live session, lost in a crash or an exception
  thrown,   \* why the last session ended in an exception, or "none"
  crashes   \* crashes so far

vars == <<journal, target, shelf, records, issued, engine, thrown, crashes>>
world == <<target, shelf, records, issued>>

PC == {"admit", "captures", "payloads", "sync_incoming", "sync_recovery",
       "rejected", "sync_rejected", "active", "sync_active", "observe",
       "publish_evidence", "sync_evidence", "seal", "recover",
       "sync_recovered", "conclude", "stopped"}
Match == {"completed", "failed", "indeterminate"}

NoObservation == [p \in PlanPaths |-> "none"]
NoVerdict == [outcome |-> "none", state |-> "preparing", evidence |-> 0]

\* projection: identity of the lease-bound state projection of the session.
Session(mode, pc, projection) ==
  [mode |-> mode, pc |-> pc, call |-> "idle", obs |-> NoObservation,
   cause |-> "none", verdict |-> NoVerdict, projection |-> projection]

Init ==
  /\ journal \in [recovery : Recoveries, declared : {FALSE},
                  state : {"preparing"}, progress : [Effects -> {"none"}],
                  receipt : {"none"}, evidence : {0}, projection : {0}]
  /\ target = [p \in PlanPaths |-> "before"]
  /\ shelf = {}
  /\ records = [published |-> {}, durable |-> {}]
  /\ issued = [e \in OneShot |-> 0]
  /\ engine = Session("fresh", "admit", 1)
  /\ thrown = "none"
  /\ crashes = 0

----------------------------------------------------------------------------
(***************************************************************************)
(* What the journal says.                                                  *)
(***************************************************************************)
Recovery == journal.recovery
ForRecovery(p) == Recovery # "none" /\ p \in Actives

\* terminal_event, active_terminal_event and restart_capture_terminal.
TerminalEvent(e, fact) ==
  CASE fact \in {"completed", "completed_anew", "conditional_retained",
                 "confirmed"} -> "completed"
    [] fact = "inexact" ->
         IF Recovery = "exact_prior_state" /\ ForRecovery(e[2])
         THEN "failed" ELSE "completed"
    [] fact \in {"failed", "visible", "unconfirmed"} -> "failed"
    [] OTHER -> "indeterminate"

Intended(e) == journal.progress[e] # "none"
Terminal(e) ==
  IF journal.progress[e] \in {"none", "intent"} THEN journal.progress[e]
  ELSE TerminalEvent(e, journal.progress[e])
Done(e) == Terminal(e) = "completed"

\* The first effect of a scheduled phase that is not completed.
Unfinished(kind, order) == {i \in DOMAIN order : ~Done(<<kind, order[i]>>)}
FirstUnfinished(kind, order) ==
  <<kind, order[CHOOSE i \in Unfinished(kind, order) :
                  \A j \in Unfinished(kind, order) : i <= j]>>

\* active_effect_application_result::changed_target.
Changed(p) == journal.progress[<<"publish_active_object", p>>] = "completed"

\* Slip: only effects known to have changed the target are recovered.
CandidatesKnownChanged ==
  {i \in DOMAIN ActiveOrder : Changed(ActiveOrder[i])}

\* recovery_candidates, with the indices in schedule order.  An intent without
\* a terminal event counts as indeterminate; a fresh run never has one here.
Candidates ==
  {i \in DOMAIN ActiveOrder :
     journal.progress[<<"publish_active_object", ActiveOrder[i]>>]
       \in {"completed", "indeterminate", "intent"}}

RecoverEffect(i) == <<"recover_active_object", ActiveOrder[i]>>
\* Slip: only a failed recovery counts as not recovered.
UnrecoveredFailed == {i \in Candidates : Terminal(RecoverEffect(i)) = "failed"}
Unrecovered == {i \in Candidates : ~Done(RecoverEffect(i))}
\* Slip: recovery in schedule order.
FirstRecovery ==
  RecoverEffect(CHOOSE i \in Unrecovered : \A j \in Unrecovered : i <= j)
\* Recovery walks the schedule backwards.
NextRecovery ==
  RecoverEffect(CHOOSE i \in Unrecovered : \A j \in Unrecovered : j <= i)

\* exact_recovery_possible.
ExactRecoveryPossible(p) ==
  \/ p \in AbsentBefore
  \/ p \in Captures /\ journal.progress[<<"capture_old_object", p>>] = "completed"
AllExact == \A i \in Candidates : ExactRecoveryPossible(ActiveOrder[i])
RecoverySelected == Recovery # "none"

RejectedVisible ==
  \E p \in Rejecteds :
    journal.progress[<<"publish_rejected_object", p>>] = "completed"

\* assess_application_restart.
ActiveEffectRequiresRecovery ==
  \E p \in Actives : Terminal(<<"publish_active_object", p>>)
                       \in {"intent", "failed", "indeterminate"}

\* Slip: a journal is classified by its state alone.
DispositionByState ==
  CASE journal.state \in {"recovery_pending", "recovering"} -> "resume_recovery"
    [] journal.state = "indeterminate" -> "external_resolution_required"
    [] journal.state \in {"abandoned", "recovered", "application_completed"} ->
         "terminal"
    [] OTHER -> "resume_forward"

Disposition ==
  LET s == journal.state
  IN  CASE journal.receipt # "none" ->
             IF s \in {"indeterminate", "external_resolution_pending"}
             THEN "external_resolution_required" ELSE "terminal"
        [] OTHER ->
             CASE s \in {"preparing", "prepared", "effects_visible",
                         "result_observed"} -> "resume_forward"
               [] s = "mutating" ->
                    IF ActiveEffectRequiresRecovery
                    THEN "resume_recovery" ELSE "resume_forward"
               [] s \in {"recovery_pending", "recovering"} -> "resume_recovery"
               [] s \in {"external_resolution_pending", "indeterminate"} ->
                    "external_resolution_required"
               [] OTHER -> "terminal"
Resumable == Disposition \in {"resume_forward", "resume_recovery"}

----------------------------------------------------------------------------
(***************************************************************************)
(* Journal appends, and the end of a session.                              *)
(***************************************************************************)
AppendState(s) == journal' = [journal EXCEPT !.state = s]
AppendEvent(e, s, event) ==
  journal' = [journal EXCEPT !.state = s, !.progress[e] = event]

Stop == engine' = Session("off", "stopped", engine.projection)

Raise(why) == Stop /\ thrown' = why
Goto(pc) == engine' = [engine EXCEPT !.pc = pc, !.call = "idle"]

\* A receipt and the state it resolves to, in one step without an event.
PublishReceipt(outcome, s) ==
  /\ journal' = [journal EXCEPT !.state = s, !.receipt = outcome]
  /\ Stop

(***************************************************************************)
(* One journaled effect: intent, backend call, terminal event.  A restart  *)
(* that finds an intent of an idempotent effect calls again under it.      *)
(***************************************************************************)
\* Slip: an intent that is already durable is issued once more.
PublishIntentAgain(e, s) ==
  /\ engine.call = "idle"
  /\ journal.progress[e] \in {"none", "intent"}
  /\ AppendEvent(e, s, "intent")
  /\ engine' = [engine EXCEPT !.call = "issued"]
  /\ UNCHANGED <<world, thrown, crashes>>

PublishIntent(e, s) ==
  /\ engine.call = "idle"
  /\ ~Intended(e)
  /\ AppendEvent(e, s, "intent")
  /\ engine' = [engine EXCEPT !.call = "issued"]
  /\ UNCHANGED <<world, thrown, crashes>>

\* Slip: a restart waits for idempotent effects it finds intended.
NeverRetried(e) == FALSE /\ UNCHANGED vars

RetryIntended(e) ==
  /\ engine.mode = "resumed" /\ engine.call = "idle"
  /\ journal.progress[e] = "intent"
  /\ engine' = [engine EXCEPT !.call = "issued"]
  /\ UNCHANGED <<journal, world, thrown, crashes>>

PublishTerminal(e, s) ==
  /\ engine.call \in Fact
  /\ AppendEvent(e, s, engine.call)
  /\ engine' = [engine EXCEPT !.call = "idle"]
  /\ UNCHANGED <<world, thrown, crashes>>

Return(fact) ==
  /\ engine.call = "issued"
  /\ engine' = [engine EXCEPT !.call = fact]
  /\ UNCHANGED <<journal, thrown, crashes>>

----------------------------------------------------------------------------
(***************************************************************************)
(* The backend, as its interface contract describes it: failed leaves the  *)
(* target unchanged, indeterminate may leave anything.  What completed     *)
(* established is still compared with the plan by the final observation.   *)
(***************************************************************************)
CaptureOld ==
  /\ \E fact \in {"completed", "inexact", "failed", "indeterminate"} :
       Return(fact)
  /\ UNCHANGED world

SealPayloads ==
  /\ \E fact \in {"completed", "completed_anew", "failed", "indeterminate"} :
       Return(fact)
  /\ UNCHANGED world

Issue(e) == issued' = [issued EXCEPT ![e] = @ + 1]

ExecuteRejected(e) ==
  /\ \E fact \in {"completed", "failed", "indeterminate"} :
       /\ Return(fact)
       /\ fact = "completed" => shelf' = shelf \cup {e[2]}
       /\ fact = "failed" => UNCHANGED shelf
       /\ fact = "indeterminate" => shelf' \in {shelf, shelf \cup {e[2]}}
  /\ Issue(e)
  /\ UNCHANGED <<target, records>>

ExecuteActive(e) ==
  /\ \E fact \in {"completed", "failed", "indeterminate"}
                   \cup {c \in {"conditional_retained"} : e[2] \in Conditional},
        now \in {"before", "after", "other"} :
       /\ Return(fact)
       /\ fact = "completed" => now # "before"
       /\ fact \in {"failed", "conditional_retained"} => now = "before"
       /\ target' = [target EXCEPT ![e[2]] = now]
  /\ Issue(e)
  /\ UNCHANGED <<shelf, records>>

Recover(e) ==
  /\ \E fact \in {"completed", "failed", "indeterminate"},
        now \in {"before", "after", "other"} :
       /\ Return(fact)
       /\ fact = "completed" =>
            now = "before" \/ (now = "other" /\ ~ExactRecoveryPossible(e[2]))
       /\ fact = "failed" => now = target[e[2]]
       /\ target' = [target EXCEPT ![e[2]] = now]
  /\ Issue(e)
  /\ UNCHANGED <<shelf, records>>

Synchronize ==
  /\ \E fact \in DurabilityFact : Return(fact)
  /\ UNCHANGED world

PublishEvidenceRecord ==
  /\ \E fact \in {"completed", "failed", "indeterminate"} :
       /\ Return(fact)
       /\ records' \in
            {r \in {records,
                    [records EXCEPT !.published = @ \cup {engine.projection}]} :
               /\ fact = "completed" => engine.projection \in r.published
               /\ fact = "failed" => r = records}
  /\ UNCHANGED <<target, shelf, issued>>

SynchronizeEvidence ==
  /\ \E fact \in DurabilityFact :
       /\ Return(fact)
       /\ records' \in
            {r \in {records, [records EXCEPT !.durable = records.published]} :
               fact = "confirmed" => r.durable = r.published}
  /\ UNCHANGED <<target, shelf, issued>>

\* What observe() says of a path: the truth, or that it cannot be known.
Expected(p) ==
  IF p \in Actives /\ Changed(p) THEN "after" ELSE "before"
Observations ==
  {obs \in [PlanPaths -> Match] :
     \A p \in PlanPaths :
       /\ obs[p] = "completed" => target[p] = Expected(p)
       /\ obs[p] = "failed" => target[p] # Expected(p)}

=============================================================================
