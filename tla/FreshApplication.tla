-------------------------- MODULE FreshApplication --------------------------
(***************************************************************************)
(* The steps of apply(): admission, preparation, rejected publication,     *)
(* active execution, completion and recovery.  Loops that a restart runs   *)
(* over the same schedule in the same way are shared with it; what a       *)
(* restart does otherwise is in RestartedApplication.                      *)
(***************************************************************************)
EXTENDS ApplicationAttempt

At(pc) == engine.mode # "off" /\ engine.pc = pc
Idle == engine.call = "idle"

\* Move on without touching the journal.
Proceed(pc) == Goto(pc) /\ UNCHANGED <<journal, world, thrown, crashes>>
\* Publish a state and move on.
ProceedIn(s, pc) ==
  AppendState(s) /\ Goto(pc) /\ UNCHANGED <<world, thrown, crashes>>
Resolve(outcome, s) ==
  PublishReceipt(outcome, s) /\ UNCHANGED <<world, thrown, crashes>>

\* admit_application_engine and journal_application_engine: contradicted
\* preconditions are refused without a journal; otherwise the declaration and
\* initial cursor become durable before anything is prepared.
Admit ==
  /\ At("admit")
  /\ \/ /\ journal' = [journal EXCEPT !.declared = TRUE]
        /\ Goto("captures")
     \/ /\ Stop
        /\ UNCHANGED journal
  /\ UNCHANGED <<world, thrown, crashes>>

----------------------------------------------------------------------------
\* fail_preparation: an abandoned journal with a pre-mutation receipt.
FailPreparation == Resolve("failed_before_target_mutation", "abandoned")

\* capture_old_objects.
CaptureOldObjects ==
  /\ At("captures")
  /\ LET kind == "capture_old_object"
         e == FirstUnfinished(kind, CaptureOrder)
     IN  \/ /\ Unfinished(kind, CaptureOrder) = {}
            /\ Proceed("payloads")
         \/ /\ Unfinished(kind, CaptureOrder) # {}
            /\ \/ PublishIntent(e, "preparing")
               \/ RetryIntended(e)
               \/ CaptureOld
               \/ PublishTerminal(e, "preparing")
               \/ /\ Idle /\ Terminal(e) \in {"failed", "indeterminate"}
                  /\ FailPreparation

\* stage_incoming_payloads: every intent, one stage, every terminal event.
PayloadEffect(p) == <<"stage_incoming_payload", p>>
StageIncomingPayloads ==
  LET lacking(events) ==
        {i \in DOMAIN PayloadOrder :
           Terminal(PayloadEffect(PayloadOrder[i])) \in events}
      first(indices) == PayloadEffect(PayloadOrder[
        CHOOSE i \in indices : \A j \in indices : i <= j])
      unsealed == lacking({"none", "intent"})
      refused == lacking({"failed", "indeterminate"})
  IN  /\ At("payloads")
      /\ \/ /\ Idle /\ refused = {} /\ lacking({"none"}) # {}
            /\ AppendEvent(first(lacking({"none"})), "preparing", "intent")
            /\ UNCHANGED <<engine, world, thrown, crashes>>
         \/ /\ Idle /\ refused = {} /\ lacking({"none"}) = {} /\ unsealed # {}
            /\ engine' = [engine EXCEPT !.call = "issued"]
            /\ UNCHANGED <<journal, world, thrown, crashes>>
         \/ SealPayloads
         \/ /\ engine.call \in Fact /\ unsealed # {}
            /\ AppendEvent(first(unsealed), "preparing", engine.call)
            /\ UNCHANGED <<engine, world, thrown, crashes>>
         \/ /\ Idle \/ unsealed = {}
            /\ refused # {}
            /\ FailPreparation
         \/ /\ refused = {} /\ unsealed = {}
            /\ Proceed("sync_incoming")

\* synchronize_preparation_domain, for one of the two staging domains.
SynchronizePreparation(e, skip, next) ==
  \/ /\ skip
     /\ next
  \/ /\ ~skip
     /\ \/ PublishIntent(e, "preparing")
        \/ RetryIntended(e)
        \/ Synchronize
        \/ PublishTerminal(e, "preparing")
        \/ /\ Idle /\ Terminal(e) \in {"failed", "indeterminate"}
           /\ FailPreparation
        \/ /\ Idle /\ Done(e)
           /\ next

\* Slip: a staging domain that is never synchronized.
SkipIncoming == At("sync_incoming") /\ Proceed("sync_recovery")

SynchronizeIncoming ==
  /\ At("sync_incoming")
  /\ SynchronizePreparation(Global("synchronize_incoming_staging"),
                            Payloads = {}, Proceed("sync_recovery"))

\* ... and finish_preparation.
SynchronizeRecovery ==
  /\ At("sync_recovery")
  /\ SynchronizePreparation(Global("synchronize_recovery_staging"),
                            Captures = {}, ProceedIn("prepared", "rejected"))

----------------------------------------------------------------------------
\* fail_rejected_publication.
FailRejected(outcome) ==
  Resolve(outcome,
    IF outcome = "indeterminate" THEN "indeterminate"
    ELSE IF outcome = "effects_visible_durability_unconfirmed" \/ RejectedVisible
    THEN "effects_visible"
    ELSE "abandoned")

\* publish_rejected: mutating is durable before the first rejected object.
BeginMutation ==
  /\ At("rejected") /\ journal.state = "prepared"
  /\ ProceedIn("mutating", "rejected")

PublishRejected ==
  /\ At("rejected") /\ journal.state # "prepared"
  /\ LET kind == "publish_rejected_object"
         e == FirstUnfinished(kind, RejectedOrder)
     IN  \/ /\ Unfinished(kind, RejectedOrder) = {}
            /\ Proceed("sync_rejected")
         \/ /\ Unfinished(kind, RejectedOrder) # {}
            /\ \/ PublishIntent(e, "mutating")
               \/ ExecuteRejected(e)
               \/ PublishTerminal(e, "mutating")
               \/ /\ Idle /\ Terminal(e) \in {"intent", "indeterminate"}
                  /\ FailRejected("indeterminate")
               \/ /\ Idle /\ Terminal(e) = "failed"
                  /\ FailRejected("failed_before_target_mutation")

\* The rejected phase is over: a fresh run goes on to the active phase.
RejectedPublished == engine.mode = "fresh" /\ Proceed("active")

SynchronizeRejected(published) ==
  LET e == Global("synchronize_rejected_store")
      skip == RejectedOrder = << >> \/ ~AllDomains
  IN  /\ At("sync_rejected")
      /\ \/ /\ skip
            /\ published
         \/ /\ ~skip
            /\ \/ PublishIntent(e, "mutating")
               \/ RetryIntended(e)
               \/ Synchronize
               \/ PublishTerminal(e, "mutating")
               \/ /\ Idle /\ Terminal(e) = "indeterminate"
                  /\ FailRejected("indeterminate")
               \/ /\ Idle /\ Terminal(e) = "failed"
                  /\ FailRejected("effects_visible_durability_unconfirmed")
               \/ /\ Idle /\ Done(e)
                  /\ published

----------------------------------------------------------------------------
\* Slip: an interruption enters recovery at once.
InterruptIntoRecovering(cause) ==
  /\ AppendState("recovering")
  /\ engine' = [engine EXCEPT !.pc = "recover", !.call = "idle",
                              !.cause = cause, !.obs = NoObservation]
  /\ UNCHANGED <<world, thrown, crashes>>

\* interrupt_active_execution, and the same step of complete_application.
Interrupt(cause) ==
  /\ AppendState(IF cause \in IndeterminateInterruption
                 THEN "indeterminate" ELSE "recovery_pending")
  /\ engine' = [engine EXCEPT !.pc = "recover", !.call = "idle",
                              !.cause = cause, !.obs = NoObservation]
  /\ UNCHANGED <<world, thrown, crashes>>

\* The write-ahead intent of one active effect.
AnnounceActive(e) == PublishIntent(e, "mutating")

\* The loop of execute_active.  A conditional directory that stays is a
\* completed effect that changed nothing.
ExecuteActiveEffects ==
  /\ At("active")
  /\ LET kind == "publish_active_object"
         e == FirstUnfinished(kind, ActiveOrder)
     IN  \/ /\ Unfinished(kind, ActiveOrder) = {}
            /\ Proceed("sync_active")
         \/ /\ Unfinished(kind, ActiveOrder) # {}
            /\ \/ AnnounceActive(e)
               \/ ExecuteActive(e)
               \/ PublishTerminal(e, "mutating")
               \/ /\ Idle /\ Terminal(e) = "failed"
                  /\ Interrupt("effect_failed")
               \/ /\ Idle /\ Terminal(e) \in {"intent", "indeterminate"}
                  /\ Interrupt("effect_indeterminate")

\* The end of execute_active: synchronization of a changed namespace under
\* all_application_domains, then effects_visible.
ActiveSynchronization == Global("synchronize_active_namespace")
SkipActiveSynchronization == ~AllDomains \/ ~\E p \in Actives : Changed(p)

EffectsVisible ==
  IF journal.state = "result_observed" THEN Proceed("observe")
  ELSE ProceedIn("effects_visible", "observe")

SynchronizeActive ==
  /\ At("sync_active")
  /\ LET e == ActiveSynchronization
     IN  \/ /\ SkipActiveSynchronization
            /\ EffectsVisible
         \/ /\ ~SkipActiveSynchronization
            /\ \/ PublishIntent(e, "mutating")
               \/ RetryIntended(e)
               \/ Synchronize
               \/ PublishTerminal(e, "mutating")
               \/ /\ Idle /\ Done(e)
                  /\ EffectsVisible

InterruptSynchronization ==
  /\ At("sync_active") /\ engine.mode = "fresh"
  /\ ~SkipActiveSynchronization /\ Idle
  /\ \/ /\ Terminal(ActiveSynchronization) = "failed"
        /\ Interrupt("durability_unconfirmed")
     \/ /\ Terminal(ActiveSynchronization) = "indeterminate"
        /\ Interrupt("durability_indeterminate")

----------------------------------------------------------------------------
\* complete_application, first part: every observation intent, one read-only
\* observation of all plan paths, every terminal event.
ObserveEffect(p) == <<"observe_result", p>>
FirstPath(paths) ==
  PlanOrder[CHOOSE i \in DOMAIN PlanOrder :
    PlanOrder[i] \in paths
    /\ \A j \in DOMAIN PlanOrder : PlanOrder[j] \in paths => i <= j]
Observed == engine.obs # NoObservation

ObserveIntent ==
  LET fresh == {p \in PlanPaths : ~Intended(ObserveEffect(p))}
  IN  /\ At("observe") /\ engine.mode = "fresh" /\ ~Observed /\ fresh # {}
      /\ AppendEvent(ObserveEffect(FirstPath(fresh)), "effects_visible", "intent")
      /\ UNCHANGED <<engine, world, thrown, crashes>>

Observe ==
  /\ At("observe") /\ ~Observed
  /\ engine.mode = "fresh" => \A p \in PlanPaths : Intended(ObserveEffect(p))
  /\ \E obs \in Observations : engine' = [engine EXCEPT !.obs = obs]
  /\ UNCHANGED <<journal, world, thrown, crashes>>

Unjudged ==
  {p \in PlanPaths : Terminal(ObserveEffect(p)) \in {"none", "intent"}}

\* A restart may find paths without an intent and adds it first.
RecordObservation ==
  LET p == FirstPath(Unjudged)
      e == ObserveEffect(p)
  IN  /\ At("observe") /\ Observed /\ Unjudged # {}
      /\ AppendEvent(e, "effects_visible",
                     IF Intended(e) THEN engine.obs[p] ELSE "intent")
      /\ UNCHANGED <<engine, world, thrown, crashes>>

\* A terminal event a restart cannot confirm is neither matched nor overwritten.
JudgeObservation ==
  LET contradicted == \E p \in PlanPaths :
                        Terminal(ObserveEffect(p)) # engine.obs[p]
      indeterminate == contradicted
                       \/ \E p \in PlanPaths : engine.obs[p] = "indeterminate"
      mismatch == \E p \in PlanPaths : engine.obs[p] = "failed"
  IN  /\ At("observe") /\ Observed /\ Unjudged = {}
      /\ \/ /\ indeterminate
            /\ Interrupt("result_observation_indeterminate")
         \/ /\ ~indeterminate /\ mismatch
            /\ Interrupt("result_observation_mismatch")
         \/ /\ ~indeterminate /\ ~mismatch
            /\ IF journal.state = "result_observed"
               THEN Proceed("publish_evidence")
               ELSE ProceedIn("result_observed", "publish_evidence")

----------------------------------------------------------------------------
\* complete_application, second part: publish, synchronize and seal.  The
\* terminal receipt of a publication or synchronization that did not succeed.
EvidenceVerdict(event) ==
  IF event = "indeterminate"
  THEN [outcome |-> "indeterminate", state |-> "indeterminate", evidence |-> 0]
  ELSE [outcome |-> "effects_visible_durability_unconfirmed",
        state |-> "effects_visible", evidence |-> 0]

CompletedVerdict ==
  [outcome |-> "completed", state |-> "application_completed",
   evidence |-> engine.projection]

SealWith(verdict) ==
  engine' = [engine EXCEPT !.pc = "seal", !.call = "idle", !.verdict = verdict]

PublishEvidence == Global("publish_completed_evidence")
SyncEvidence == Global("synchronize_completed_evidence")

\* Slip: retained evidence is sealed under whatever projection is current.
RepublishNever == FALSE
\* Completed evidence retained by the journal names another projection than
\* the session's: it is published and synchronized again, off the journal.
Republish == journal.projection \notin {0, engine.projection}

RecordEvidence ==
  /\ engine.call \in Fact /\ ~Republish
  /\ journal' = [journal EXCEPT
                   !.state = "result_observed",
                   !.progress[PublishEvidence] = engine.call,
                   !.projection = IF engine.call = "completed"
                                  THEN engine.projection ELSE 0]
  /\ IF engine.call = "completed" THEN Goto("sync_evidence")
     ELSE SealWith(EvidenceVerdict(engine.call))
  /\ UNCHANGED <<world, thrown, crashes>>

PublishCompletedEvidence ==
  /\ At("publish_evidence")
  /\ \/ PublishIntent(PublishEvidence, "result_observed")
     \/ RetryIntended(PublishEvidence)
     \/ PublishEvidenceRecord
     \/ RecordEvidence

\* A completed application needs confirmed evidence durability.
EvidenceSynchronized(event) ==
  SealWith(IF event = "completed" THEN CompletedVerdict
           ELSE EvidenceVerdict(event))

SynchronizeCompletedEvidence ==
  /\ At("sync_evidence")
  /\ \/ PublishIntent(SyncEvidence, "result_observed")
     \/ RetryIntended(SyncEvidence)
     \/ SynchronizeEvidence
     \/ /\ engine.call \in Fact
        /\ journal.progress[SyncEvidence] = "intent"
        /\ AppendEvent(SyncEvidence, "result_observed", engine.call)
        /\ EvidenceSynchronized(TerminalEvent(SyncEvidence, engine.call))
        /\ UNCHANGED <<world, thrown, crashes>>

\* seal_terminal_receipt: intent in the current state, then one terminal step
\* with receipt and evidence.  The journal refuses a successful state while a
\* required effect is not completed, and append_journal_step throws.
Seal == Global("seal_receipt")
RequiredDone ==
  \A e \in Effects \ {Seal} : SuccessEffectRequired(e[1]) => Done(e)

SealTerminalReceipt ==
  /\ At("seal")
  /\ \/ /\ ~Intended(Seal)
        /\ AppendEvent(Seal, journal.state, "intent")
        /\ UNCHANGED <<engine, world, thrown, crashes>>
     \/ /\ Intended(Seal)
        /\ engine.verdict.outcome = "completed" => RequiredDone
        /\ journal' = [journal EXCEPT
                         !.state = engine.verdict.state,
                         !.progress[Seal] = "completed",
                         !.receipt = engine.verdict.outcome,
                         !.evidence = engine.verdict.evidence]
        /\ Stop
        /\ UNCHANGED <<world, thrown, crashes>>
     \/ /\ Intended(Seal)
        /\ engine.verdict.outcome = "completed" /\ ~RequiredDone
        /\ Raise("unfinished_effects")
        /\ UNCHANGED <<journal, world, crashes>>

----------------------------------------------------------------------------
(***************************************************************************)
(* recover_interrupted.  engine.cause says what interrupted the attempt.   *)
(***************************************************************************)
\* Slip: the attempt outcome is written where the journal state belongs.
FailureStateUnmapped(outcome) == outcome

\* terminal_failure_journal_state.
FailureState(outcome) ==
  CASE outcome = "failed_fully_recovered" -> "recovered"
    [] outcome = "indeterminate" -> "indeterminate"
    [] outcome = "failed_before_target_mutation" ->
         IF RejectedVisible THEN "effects_visible" ELSE "abandoned"
    [] OTHER -> "effects_visible"

SealRecoveryReceipt(outcome) == Resolve(outcome, FailureState(outcome))

\* Nothing to recover.  A pre-mutation receipt that lists a conditionally
\* retained directory is refused by validate_failed_paths.
Retained ==
  \E p \in Actives :
    journal.progress[<<"publish_active_object", p>>] = "conditional_retained"

RecoverNothing ==
  /\ At("recover") /\ Candidates = {}
  /\ \/ /\ engine.cause \in ObservationInterruption
        /\ SealRecoveryReceipt("indeterminate")
     \/ /\ engine.cause \notin ObservationInterruption /\ ~Retained
        /\ SealRecoveryReceipt("failed_before_target_mutation")
     \/ /\ engine.cause \notin ObservationInterruption /\ Retained
        /\ Raise("possibly_applied_effect")
        /\ UNCHANGED <<journal, world, crashes>>

\* Recovery was not selected by the execution control.
RecoverUnselected ==
  /\ At("recover") /\ Candidates # {} /\ ~RecoverySelected
  /\ SealRecoveryReceipt(
       CASE engine.cause \in IndeterminateInterruption -> "indeterminate"
         [] engine.cause = "durability_unconfirmed" ->
              "effects_visible_durability_unconfirmed"
         [] OTHER -> "failed_with_partial_effects")

BeginRecovery ==
  /\ At("recover") /\ Candidates # {} /\ RecoverySelected
  /\ journal.state # "recovering"
  /\ ProceedIn("recovering", "recover")

\* One candidate at a time, in reverse order, up to the first that did not
\* complete.
RecoverCandidates ==
  /\ At("recover") /\ Candidates # {} /\ RecoverySelected
  /\ journal.state = "recovering"
  /\ \/ /\ Unrecovered = {}
        /\ Proceed(IF AllDomains THEN "sync_recovered" ELSE "conclude")
     \/ /\ Unrecovered # {}
        /\ LET e == NextRecovery
           IN  \/ PublishIntent(e, "recovering")
               \/ Recover(e)
               \/ PublishTerminal(e, "recovering")
               \/ /\ Idle
                  /\ Terminal(e) \in {"intent", "failed", "indeterminate"}
                  /\ Proceed("conclude")

\* A recovered-namespace intent a restart finds is not issued again.
RecoveredSynchronization == Global("synchronize_recovered_namespace")
SynchronizeRecovered ==
  /\ At("sync_recovered")
  /\ \/ PublishIntent(RecoveredSynchronization, "recovering")
     \/ Synchronize
     \/ PublishTerminal(RecoveredSynchronization, "recovering")
     \/ /\ Idle /\ Intended(RecoveredSynchronization)
        /\ Proceed("conclude")

RecoveryIndeterminate ==
  \E i \in Candidates :
    Terminal(RecoverEffect(i)) \in {"intent", "indeterminate"}

\* The fresh run classifies recovery by its effects alone.
ConcludeRecovery ==
  /\ At("conclude") /\ engine.mode = "fresh"
  /\ SealRecoveryReceipt(
       IF Unrecovered = {} /\ AllExact THEN "failed_fully_recovered"
       ELSE IF \/ engine.cause \in IndeterminateInterruption
               \/ RecoveryIndeterminate
               \/ Unrecovered = {}
       THEN "indeterminate"
       ELSE "failed_with_partial_effects")

FreshStep ==
  \/ Admit \/ CaptureOldObjects \/ StageIncomingPayloads
  \/ SynchronizeIncoming \/ SynchronizeRecovery
  \/ BeginMutation \/ PublishRejected \/ SynchronizeRejected(RejectedPublished)
  \/ ExecuteActiveEffects \/ SynchronizeActive \/ InterruptSynchronization
  \/ ObserveIntent \/ Observe \/ RecordObservation \/ JudgeObservation
  \/ PublishCompletedEvidence \/ SynchronizeCompletedEvidence
  \/ SealTerminalReceipt
  \/ RecoverNothing \/ RecoverUnselected \/ BeginRecovery \/ RecoverCandidates
  \/ SynchronizeRecovered \/ ConcludeRecovery

=============================================================================
