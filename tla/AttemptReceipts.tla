--------------------------- MODULE AttemptReceipts ---------------------------
(***************************************************************************)
(* A fresh attempt from admission to its receipt, as a sequence of effects *)
(* that each update the durability profile, and every receipt on the way.  *)
(***************************************************************************)
EXTENDS ApplicationReceipt

FreshInit ==
  /\ attempt \in Attempts
  /\ pc = "admit"
  /\ profile = [d \in Domain |-> "not_attempted"]
  /\ facts = << >>
  /\ cause = "none"
  /\ receipt = {}
  /\ refused = "none"

----------------------------------------------------------------------------
Record(kind, p, fact, exact) ==
  facts' = Append(facts, [kind |-> kind, path |-> p, fact |-> fact, exact |-> exact])
Establish(d, status) == profile' = [profile EXCEPT ![d] = status]

Reject(what) == pc' = "over" /\ refused' = what /\ UNCHANGED receipt
Continue(next) == pc' = next /\ UNCHANGED <<cause, receipt, refused>>

\* A phase hands its object to the next one, whose constructor checks it.
HandOver(next, accepted, what) ==
  /\ IF accepted THEN pc' = next /\ UNCHANGED <<receipt, refused>> ELSE Reject(what)
  /\ UNCHANGED <<attempt, profile, facts, cause>>

\* application_receipt::failed with the durability reached by this step.
Fail(outcome, recovery, paths, journal) ==
  LET r == [outcome |-> outcome, recovery |-> recovery, paths |-> paths,
            durability |-> profile', journal |-> journal]
  IN  /\ IF FailedAccepted(r)
         THEN pc' = "over" /\ receipt' = {r} /\ UNCHANGED refused
         ELSE Reject("receipt")
      /\ UNCHANGED cause

----------------------------------------------------------------------------
\* admit_application_engine: contradicted preconditions end without a journal.
RefusePreconditions ==
  /\ pc = "admit"
  /\ UNCHANGED <<attempt, profile, facts>>
  /\ Fail("precondition_refused", "unchanged", << >>, FALSE)

Admit ==
  /\ pc = "admit"
  /\ Establish("journal", "confirmed")
  /\ Continue("captures")
  /\ UNCHANGED <<attempt, facts>>

FailPreparation == Fail("failed_before_target_mutation", "unchanged", << >>, TRUE)

\* capture_old_objects.  Under exact_prior_state an inexact capture for
\* recovery ends preparation although the backend completed it.
CaptureOldObject ==
  LET kind == "capture_old_object"
      p == Lowest(Left(kind, Captures))
  IN  /\ pc = "captures" /\ Left(kind, Captures) # {}
      /\ \E fact \in Operated, exact \in BOOLEAN :
           /\ exact => fact = "completed"
           /\ Record(kind, p, fact, exact)
           /\ Establish("recovery_staging",
                        IF fact = "completed" THEN "visible" ELSE "indeterminate")
           /\ IF /\ fact = "completed"
                 /\ attempt.recovery = "exact_prior_state" => (ForRecovery(p) => exact)
              THEN Continue("captures") ELSE FailPreparation
      /\ UNCHANGED attempt

CapturesDone ==
  /\ pc = "captures" /\ Left("capture_old_object", Captures) = {}
  /\ HandOver("payloads", TRUE, "none")

\* stage_incoming_payloads: one seal stands for all payloads.
StageIncomingPayloads ==
  /\ pc = "payloads" /\ attempt.payload
  /\ \E fact \in Operated :
       /\ Record("stage_incoming_payload", NoPath, fact, FALSE)
       /\ Establish("incoming_staging",
                    IF fact = "completed" THEN "visible" ELSE "indeterminate")
       /\ IF fact = "completed" THEN Continue("sync_incoming") ELSE FailPreparation
  /\ UNCHANGED attempt

NoPayloads ==
  /\ pc = "payloads" /\ ~attempt.payload
  /\ HandOver("sync_recovery", TRUE, "none")

\* synchronize_preparation_domain.
SynchronizePreparation(kind, next) ==
  /\ \E status \in Synchronized :
       /\ Record(kind, NoPath, status, FALSE)
       /\ Establish(DomainOf(kind), status)
       /\ IF status = "confirmed" THEN Continue(next) ELSE FailPreparation
  /\ UNCHANGED attempt

SynchronizeIncoming ==
  /\ pc = "sync_incoming"
  /\ SynchronizePreparation("synchronize_incoming_staging", "sync_recovery")

SynchronizeRecovery ==
  /\ pc = "sync_recovery" /\ Captures # {}
  /\ SynchronizePreparation("synchronize_recovery_staging", "prepared")

Prepared ==
  /\ \/ pc = "prepared"
     \/ pc = "sync_recovery" /\ Captures = {}
  /\ HandOver("rejected", PreparedBoundary(profile), "prepared_application")

----------------------------------------------------------------------------
FailRejected(outcome, recovery) ==
  Fail(outcome, recovery, RejectedConsequences', TRUE)

\* publish_rejected.
PublishRejected ==
  LET kind == "publish_rejected_object"
      p == Lowest(Left(kind, Rejecteds))
  IN  /\ pc = "rejected" /\ Left(kind, Rejecteds) # {}
      /\ UNCHANGED attempt
      /\ \E fact \in Operated :
           /\ Record(kind, p, fact, FALSE)
           /\ \/ /\ fact = "completed"
                 /\ Establish("rejected_object_store", "visible")
                 /\ Continue("rejected")
              \/ /\ fact = "failed"
                 /\ UNCHANGED profile
                 /\ FailRejected("failed_before_target_mutation", "unchanged")
              \/ /\ fact = "indeterminate"
                 /\ Establish("rejected_object_store", "indeterminate")
                 /\ FailRejected("indeterminate", "requires_authoritative_observation")

SynchronizeRejected ==
  /\ pc = "rejected" /\ Left("publish_rejected_object", Rejecteds) = {}
  /\ Rejecteds # {} /\ AllDomains
  /\ UNCHANGED attempt
  /\ \E status \in Synchronized :
       /\ Record("synchronize_rejected_store", NoPath, status, FALSE)
       /\ Establish("rejected_object_store", status)
       /\ \/ /\ status = "confirmed"
             /\ Continue("rejected_published")
          \/ /\ status \in {"visible", "unconfirmed"}
             /\ FailRejected("effects_visible_durability_unconfirmed",
                             "recovery_assets_retained")
          \/ /\ status = "indeterminate"
             /\ FailRejected("indeterminate", "requires_authoritative_observation")

RejectedPublished ==
  /\ \/ pc = "rejected_published"
     \/ /\ pc = "rejected" /\ Left("publish_rejected_object", Rejecteds) = {}
        /\ ~(Rejecteds # {} /\ AllDomains)
  /\ HandOver("active", RejectedBoundary(profile), "rejected_published_application")

----------------------------------------------------------------------------
\* interrupt_active_execution, and the constructor of what it returns.
Interrupt(why) ==
  /\ cause' = why
  /\ IF InterruptedBoundary(why, profile')
     THEN pc' = "recover" /\ UNCHANGED <<receipt, refused>>
     ELSE Reject("active_interrupted_application")

\* execute_active.
ExecuteActive ==
  LET kind == "publish_active_object"
      p == Lowest(Left(kind, Actives))
  IN  /\ pc = "active" /\ Left(kind, Actives) # {}
      /\ UNCHANGED attempt
      /\ \/ /\ Record(kind, p, "completed", FALSE)
            /\ Establish("active_namespace", "visible")
            /\ Continue("active")
         \/ /\ Plan(p).active = "remove_directory_if_empty"
            /\ Record(kind, p, "conditional_retained", FALSE)
            /\ UNCHANGED profile
            /\ Continue("active")
         \/ /\ Record(kind, p, "failed", FALSE)
            /\ UNCHANGED profile
            /\ Interrupt("effect_failed")
         \/ /\ Record(kind, p, "indeterminate", FALSE)
            /\ Establish("active_namespace", "indeterminate")
            /\ Interrupt("effect_indeterminate")

\* Slip: the interruption keeps the status the backend reported.
StatusAsReported(status) == status
\* A namespace that is only visible after its synchronization is unconfirmed.
InterruptedStatus(status) ==
  IF status = "visible" THEN "unconfirmed" ELSE status

SynchronizeActive ==
  /\ pc = "active" /\ Left("publish_active_object", Actives) = {}
  /\ SomeChanged /\ AllDomains
  /\ UNCHANGED attempt
  /\ \E status \in Synchronized :
       /\ Record("synchronize_active_namespace", NoPath, status, FALSE)
       /\ Establish("active_namespace", InterruptedStatus(status))
       /\ CASE status = "confirmed" -> Continue("active_mutated")
            [] status = "indeterminate" -> Interrupt("durability_indeterminate")
            [] OTHER -> Interrupt("durability_unconfirmed")

ActiveMutated ==
  /\ \/ pc = "active_mutated"
     \/ /\ pc = "active" /\ Left("publish_active_object", Actives) = {}
        /\ ~(SomeChanged /\ AllDomains)
  /\ HandOver("observe", MutatedBoundary(profile), "active_mutated_application")

----------------------------------------------------------------------------
\* complete_application.  Observations leave no replay fact.
EvidenceDurability(status) == [profile EXCEPT !["completed_evidence"] = status]

ObserveMatched ==
  /\ pc = "observe"
  /\ HandOver("publish_evidence",
              EvidenceAccepted(CompletedConsequences("eligible"),
                               EvidenceDurability("confirmed")),
              "completed_application_evidence")

ObserveUnmatched ==
  /\ pc = "observe"
  /\ UNCHANGED <<attempt, profile, facts>>
  /\ \/ Interrupt("result_observation_mismatch")
     \/ Interrupt("result_observation_indeterminate")

\* completion_failure_receipt, for a publication or a synchronization.
FailEvidence(uncertain) ==
  /\ Establish("completed_evidence",
               IF uncertain THEN "indeterminate" ELSE "unconfirmed")
  /\ IF uncertain
     THEN Fail("indeterminate", "requires_authoritative_observation",
               CompletedConsequences("ineligible"), TRUE)
     ELSE Fail("effects_visible_durability_unconfirmed", "recovery_assets_retained",
               CompletedConsequences("ineligible"), TRUE)

PublishCompletedEvidence ==
  /\ pc = "publish_evidence"
  /\ UNCHANGED attempt
  /\ \E fact \in Operated :
       /\ Record("publish_completed_evidence", NoPath, fact, FALSE)
       /\ IF fact = "completed" THEN Continue("sync_evidence") /\ UNCHANGED profile
          ELSE FailEvidence(fact = "indeterminate")

\* application_receipt::completed takes durability and paths of the evidence.
Complete ==
  /\ Establish("completed_evidence", "confirmed")
  /\ receipt' = {[outcome |-> "completed",
                  recovery |-> IF Captures = {} THEN "unchanged"
                               ELSE "recovery_assets_retained",
                  paths |-> CompletedConsequences("eligible"),
                  durability |-> profile', journal |-> TRUE]}
  /\ pc' = "over"
  /\ UNCHANGED <<cause, refused>>

SynchronizeCompletedEvidence ==
  /\ pc = "sync_evidence"
  /\ UNCHANGED attempt
  /\ \E status \in Synchronized :
       /\ Record("synchronize_completed_evidence", NoPath, status, FALSE)
       /\ IF status = "confirmed" THEN Complete
          ELSE FailEvidence(status = "indeterminate")

----------------------------------------------------------------------------
\* recover_interrupted.
IndeterminateCause ==
  cause \in {"effect_indeterminate", "durability_indeterminate",
             "result_observation_indeterminate"}
ObservationCause ==
  cause \in {"result_observation_mismatch", "result_observation_indeterminate"}

SealRecoveryReceipt(outcome, recovery) ==
  Fail(outcome, recovery, RecoveryConsequences, TRUE)

RecoverNothing ==
  /\ pc = "recover" /\ Candidates = {}
  /\ UNCHANGED <<attempt, profile, facts>>
  /\ IF ObservationCause
     THEN SealRecoveryReceipt("indeterminate", "requires_authoritative_observation")
     ELSE SealRecoveryReceipt("failed_before_target_mutation", "unchanged")

RecoverUnselected ==
  /\ pc = "recover" /\ Candidates # {} /\ ~RecoverySelected
  /\ UNCHANGED <<attempt, profile, facts>>
  /\ CASE IndeterminateCause ->
            SealRecoveryReceipt("indeterminate", "requires_authoritative_observation")
       [] cause = "durability_unconfirmed" ->
            SealRecoveryReceipt("effects_visible_durability_unconfirmed",
                                "recovery_not_representable")
       [] OTHER ->
            SealRecoveryReceipt("failed_with_partial_effects", "known_residual_effects")

\* One candidate in reverse order.  Only a completed recovery changes the
\* profile; the first that does not complete ends recovery.
Recover ==
  LET kind == "recover_active_object"
      p == Highest(Left(kind, Candidates))
  IN  /\ pc = "recover" /\ Left(kind, Candidates) # {} /\ RecoverySelected
      /\ UNCHANGED attempt
      /\ \E fact \in Operated :
           /\ Record(kind, p, fact, FALSE)
           /\ IF fact = "completed"
              THEN Establish("active_namespace", "visible") /\ Continue("recover")
              ELSE UNCHANGED profile /\ Continue("conclude")

AllCandidatesRecovered == Candidates # {} /\ AllRecovered

SynchronizeRecovered ==
  /\ pc = "recover" /\ AllCandidatesRecovered /\ AllDomains
  /\ UNCHANGED attempt
  /\ \E status \in Synchronized :
       /\ Record("synchronize_recovered_namespace", NoPath, status, FALSE)
       /\ Establish("active_namespace", status)
       /\ Continue("conclude")

ConcludeRecovery ==
  /\ \/ pc = "conclude"
     \/ pc = "recover" /\ AllCandidatesRecovered /\ ~AllDomains
  /\ UNCHANGED <<attempt, profile, facts>>
  /\ LET exact == \A p \in Candidates :
                    Recorded("recover_active_object", p) => ExactRecoveryPossible(p)
         unknown == \E p \in Candidates :
                      "indeterminate" \in FactsOf("recover_active_object", p)
     IN  CASE AllRecovered /\ exact ->
                SealRecoveryReceipt("failed_fully_recovered",
                                    "exact_prior_state_restored")
           [] IndeterminateCause \/ unknown \/ AllRecovered ->
                SealRecoveryReceipt("indeterminate",
                                    "requires_authoritative_observation")
           [] OTHER ->
                SealRecoveryReceipt("failed_with_partial_effects",
                                    "known_residual_effects")

----------------------------------------------------------------------------
Preparation ==
  \/ RefusePreconditions \/ Admit
  \/ CaptureOldObject \/ CapturesDone
  \/ StageIncomingPayloads \/ NoPayloads
  \/ SynchronizeIncoming \/ SynchronizeRecovery \/ Prepared

RejectedPhase == PublishRejected \/ SynchronizeRejected \/ RejectedPublished
ActivePhase == ExecuteActive \/ SynchronizeActive \/ ActiveMutated

Completion ==
  \/ ObserveMatched \/ ObserveUnmatched
  \/ PublishCompletedEvidence \/ SynchronizeCompletedEvidence

Recovery ==
  \/ RecoverNothing \/ RecoverUnselected
  \/ Recover \/ SynchronizeRecovered \/ ConcludeRecovery

FreshNext == Preparation \/ RejectedPhase \/ ActivePhase \/ Completion \/ Recovery

=============================================================================
