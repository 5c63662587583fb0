-------------------------- MODULE RestartedReceipts --------------------------
(***************************************************************************)
(* Receipts of attempts that are interrupted and reopened: the fresh run   *)
(* of AttemptReceipts, a crash at any point of it, and the resume phases   *)
(* of replay_application_engine, which rebuild the durability profile from *)
(* the journal and go on from there.                                       *)
(*                                                                         *)
(* A receipt counts as sealed unless a crash takes it away again.  The     *)
(* lifecycle of the journal is kept as far as restart classifies it.       *)
(***************************************************************************)
EXTENDS AttemptReceipts

CONSTANT Budget   \* bounds a plan's captures, rejected and active effects
                  \* together with crashes, each of which counts for two

ASSUME BudgetAssumption == Budget \in Nat

VARIABLES
  session,   \* "fresh" or "resumed"
  stage,     \* lifecycle of the journal: "preparing", "mutating", "visible"
             \* (effects_visible, result_observed), "recovery" (pending or
             \* begun) or "external" (indeterminate)
  intended,  \* effects whose intent has no terminal event
  seen,      \* terminal events of observe_result
  crashes

restartVars == <<session, stage, intended, seen, crashes>>
allVars == <<vars, restartVars>>

Verdict == {"matched", "mismatch", "indeterminate"}
Unseen == [p \in Paths |-> "none"]

Effects == Cardinality(Captures) + Cardinality(Rejecteds) + Cardinality(Actives)

Init ==
  /\ FreshInit
  /\ Effects < Budget
  /\ session = "fresh"
  /\ stage = "preparing"
  /\ intended = {}
  /\ seen = Unseen
  /\ crashes = 0

----------------------------------------------------------------------------
(***************************************************************************)
(* The journal behind a step.                                              *)
(***************************************************************************)
InPreparation ==
  {"captures", "payloads", "sync_incoming", "sync_recovery", "prepared"}
InMutation == {"rejected", "rejected_published", "active", "active_mutated"}
Completing == {"observe", "publish_evidence", "sync_evidence", "resync_evidence"}

Track ==
  stage' = CASE pc' \in InPreparation -> "preparing"
             [] pc' \in InMutation /\ stage = "preparing" -> "mutating"
             [] pc' \in Completing -> "visible"
             [] refused' = "active_interrupted_application" -> "recovery"
             [] pc = "recover" /\ (pc' # "over" \/ stage = "recovery") -> "recovery"
             [] pc = "recover" /\ pc' = "over" /\ stage # "recovery" ->
                  IF IndeterminateCause THEN "external" ELSE "recovery"
             [] OTHER -> stage

\* What the observed paths come to.  A verdict that contradicts the one the
\* journal has leaves the result indeterminate.
Judged(v) ==
  CASE \/ \E p \in Paths : v[p] = "indeterminate"
       \/ \E p \in Paths : seen[p] \notin {"none", v[p]} ->
         "result_observation_indeterminate"
    [] \E p \in Paths : v[p] = "mismatch" -> "result_observation_mismatch"
    [] OTHER -> "none"

Observing ==
  IF pc # "observe" THEN UNCHANGED seen
  ELSE \E v \in [Paths -> Verdict] :
         /\ Judged(v) = cause'
         /\ seen' = [p \in Paths |-> IF seen[p] = "none" THEN v[p] ELSE seen[p]]

Journaling == Track /\ Observing /\ UNCHANGED <<session, intended, crashes>>

FreshStep == session = "fresh" /\ FreshNext /\ Journaling

----------------------------------------------------------------------------
(***************************************************************************)
(* A crash, or an exception, and the restart view of what is left.         *)
(***************************************************************************)
LostRecovery ==
  {p \in Candidates : <<"recover_active_object", p>> \in intended}
Unsuccessful ==
  {p \in Candidates :
     EffectStatus("recover_active_object", p) \in {"failed", "indeterminate"}}
NextRecovery == Left("recover_active_object", Candidates)

\* One-shot effects and the last synchronization, whose intent alone decides
\* what a restart does.  A recovery that ended is not gone on with.
NextIntents ==
  CASE pc = "rejected" /\ Left("publish_rejected_object", Rejecteds) # {} ->
         {<<"publish_rejected_object",
            Lowest(Left("publish_rejected_object", Rejecteds))>>}
    [] pc = "active" /\ Left("publish_active_object", Actives) # {} ->
         {<<"publish_active_object", Lowest(Left("publish_active_object", Actives))>>}
    [] /\ pc = "recover" /\ RecoverySelected /\ NextRecovery # {}
       /\ Unsuccessful \cup LostRecovery = {} ->
         {<<"recover_active_object", Highest(NextRecovery)>>}
    [] /\ pc = "recover" /\ AllCandidatesRecovered /\ AllDomains
       /\ ~Recorded("synchronize_recovered_namespace", NoPath) ->
         {<<"synchronize_recovered_namespace", NoPath>>}
    [] OTHER -> {}

\* Interrupted execution publishes its state, and then begins recovery.
CrashStages ==
  {stage} \cup IF /\ pc = "recover"
                  /\ ~IndeterminateCause \/ (RecoverySelected /\ Candidates # {})
               THEN {"recovery"} ELSE {}

\* Observed paths are recorded one after the other.
CrashVerdicts ==
  IF pc # "observe" THEN {seen}
  ELSE {[p \in Paths |-> IF seen[p] = "none" /\ p <= n THEN v[p] ELSE seen[p]] :
          v \in [Paths -> Verdict], n \in 0 .. PathCount}

\* What a session only assumed of an intended effect is not in the journal.
\* An assumed publication comes first, and an assumed recovery last.
Assumed(i) == <<facts[i].kind, facts[i].path>> \in intended
Durable ==
  SubSeq(facts, IF facts # << >> /\ Assumed(1) THEN 2 ELSE 1,
                IF facts # << >> /\ Assumed(Len(facts)) THEN Len(facts) - 1
                ELSE Len(facts))

Crash ==
  /\ Effects + 2 * crashes < Budget
  /\ profile["journal"] = "confirmed" /\ pc # "crashed" /\ stage # "external"
  /\ \E s \in CrashStages, i \in {{}} \cup {{e} : e \in NextIntents} :
       /\ stage' = IF \E e \in i : e[1] \in {"recover_active_object",
                                             "synchronize_recovered_namespace"}
                   THEN "recovery" ELSE s
       /\ intended' = intended \cup i
  /\ seen' \in CrashVerdicts
  /\ facts' = Durable
  /\ profile' = [NothingAttempted EXCEPT !["journal"] = "confirmed"]
  /\ cause' = "none" /\ receipt' = {} /\ refused' = "none"
  /\ pc' = "crashed"
  /\ crashes' = crashes + 1
  /\ UNCHANGED <<attempt, session>>

\* An intended effect without a terminal event counts as indeterminate, at
\* the place of its intent: an interrupted publication before all recoveries.
Assume(kind, p) ==
  LET lost == [kind |-> kind, path |-> p, fact |-> "indeterminate", exact |-> FALSE]
  IN  facts' = IF kind = "recover_active_object"
               THEN Append(facts, lost) ELSE <<lost>> \o facts

Restarted(next) ==
  /\ pc = "crashed"
  /\ session' = "resumed"
  /\ stage' = next
  /\ UNCHANGED <<attempt, intended, seen, crashes>>

----------------------------------------------------------------------------
(***************************************************************************)
(* resume_preparation.                                                     *)
(***************************************************************************)
SynchronizationStatus(kind) ==
  IF Recorded(kind, NoPath) THEN CHOOSE f \in FactsOf(kind, NoPath) : TRUE
  ELSE "not_attempted"

\* The preconditions are observed again, and contradicted now.
RefuseResumed ==
  /\ Restarted(stage) /\ stage = "preparing"
  /\ UNCHANGED facts
  /\ profile' = [NothingAttempted EXCEPT
       !["incoming_staging"] = SynchronizationStatus("synchronize_incoming_staging"),
       !["recovery_staging"] = SynchronizationStatus("synchronize_recovery_staging")]
  /\ FailPreparation

ResumePreparing ==
  /\ Restarted(stage) /\ stage = "preparing"
  /\ profile' = [NothingAttempted EXCEPT
       !["recovery_staging"] = IF Captures = {} THEN "not_attempted" ELSE "visible"]
  /\ pc' = "captures"
  /\ UNCHANGED <<facts, cause, receipt, refused>>

\* What the domain of a failed preparation effect says, by its terminal event.
PreparationFailure(indeterminate) ==
  IF indeterminate THEN "indeterminate" ELSE "unconfirmed"

\* restart_capture_terminal
CaptureSucceeds(p, fact, exact) ==
  /\ fact = "completed"
  /\ attempt.recovery = "exact_prior_state" => (ForRecovery(p) => exact)

RetainedCaptures == {i \in DOMAIN facts : facts[i].kind = "capture_old_object"}
FailedCaptures ==
  {i \in RetainedCaptures :
     ~CaptureSucceeds(facts[i].path, facts[i].fact, facts[i].exact)}

ReplayFailedCapture ==
  /\ session = "resumed" /\ pc = "captures"
  /\ \E i \in FailedCaptures :
       Establish("recovery_staging",
                 PreparationFailure(facts[i].fact = "indeterminate"))
  /\ FailPreparation
  /\ UNCHANGED <<attempt, facts>>

ResumeCapture ==
  LET kind == "capture_old_object"
      p == Lowest(Left(kind, Captures))
  IN  /\ session = "resumed" /\ pc = "captures"
      /\ FailedCaptures = {} /\ Left(kind, Captures) # {}
      /\ \E fact \in Operated, exact \in BOOLEAN :
           /\ exact => fact = "completed"
           /\ Record(kind, p, fact, exact)
           /\ IF CaptureSucceeds(p, fact, exact)
              THEN UNCHANGED profile /\ Continue("captures")
              ELSE /\ Establish("recovery_staging",
                                PreparationFailure(fact = "indeterminate"))
                   /\ FailPreparation
      /\ UNCHANGED attempt

\* The stage of a completed journal is not sealed again.
ResumePayloads ==
  LET kind == "stage_incoming_payload"
  IN  /\ session = "resumed" /\ pc = "payloads" /\ attempt.payload
      /\ \E fact \in Operated :
           /\ IF Recorded(kind, NoPath)
              THEN fact \in FactsOf(kind, NoPath) /\ UNCHANGED facts
              ELSE Record(kind, NoPath, fact, FALSE)
           /\ Establish("incoming_staging",
                        IF fact = "completed" THEN "visible"
                        ELSE PreparationFailure(fact = "indeterminate"))
           /\ IF fact = "completed" THEN Continue("sync_incoming") ELSE FailPreparation
      /\ UNCHANGED attempt

ReplayedStatus(status) == IF status = "visible" THEN "unconfirmed" ELSE status

ResumeSynchronization(kind, next) ==
  /\ \E status \in Synchronized :
       /\ IF Recorded(kind, NoPath)
          THEN \E f \in FactsOf(kind, NoPath) :
                 status = ReplayedStatus(f) /\ UNCHANGED facts
          ELSE Record(kind, NoPath, status, FALSE)
       /\ Establish(DomainOf(kind), status)
       /\ IF status = "confirmed" THEN Continue(next) ELSE FailPreparation
  /\ UNCHANGED attempt

ResumeIncomingSynchronization ==
  /\ session = "resumed" /\ pc = "sync_incoming"
  /\ ResumeSynchronization("synchronize_incoming_staging", "sync_recovery")

ResumeRecoverySynchronization ==
  /\ session = "resumed" /\ pc = "sync_recovery" /\ Captures # {}
  /\ ResumeSynchronization("synchronize_recovery_staging", "prepared")

----------------------------------------------------------------------------
(***************************************************************************)
(* resume_rejected_publication of what the journal retains.                *)
(***************************************************************************)
\* The profile of a journal that is prepared, before its retained effects.
PreparedProfile ==
  [Rebuilt EXCEPT !["rejected_object_store"] = "not_attempted",
                  !["active_namespace"] = "not_attempted"]
PastPreparation == pc = "crashed" /\ stage # "preparing"

LostRejected ==
  {p \in Rejecteds : <<"publish_rejected_object", p>> \in intended}
FailedRejected ==
  {p \in Rejecteds : RejectedStatus(p) \in {"failed", "indeterminate"}}
RejectedUnsynchronized ==
  /\ Recorded("synchronize_rejected_store", NoPath)
  /\ SynchronizationStatus("synchronize_rejected_store") # "confirmed"
RejectedFails ==
  LostRejected # {} \/ FailedRejected # {} \/ RejectedUnsynchronized

ReplayFailedRejected ==
  /\ Restarted(stage) /\ PastPreparation
  /\ \/ \E p \in LostRejected :
          /\ Assume("publish_rejected_object", p)
          /\ profile' = [PreparedProfile EXCEPT !["rejected_object_store"] = "indeterminate"]
          /\ FailRejected("indeterminate", "requires_authoritative_observation")
     \/ \E p \in FailedRejected :
          /\ UNCHANGED facts
          /\ IF RejectedStatus(p) = "indeterminate"
             THEN /\ profile' = [PreparedProfile EXCEPT
                                   !["rejected_object_store"] = "indeterminate"]
                  /\ FailRejected("indeterminate", "requires_authoritative_observation")
             ELSE /\ profile' = [PreparedProfile EXCEPT !["rejected_object_store"] =
                       IF \E q \in Rejecteds : RejectedStatus(q) = "completed"
                       THEN "visible" ELSE "not_attempted"]
                  /\ FailRejected("failed_before_target_mutation", "unchanged")
     \/ LET status == SynchronizationStatus("synchronize_rejected_store")
        IN  /\ RejectedUnsynchronized
            /\ UNCHANGED facts
            /\ profile' = [PreparedProfile EXCEPT !["rejected_object_store"] = status]
            /\ IF status = "indeterminate"
               THEN FailRejected("indeterminate", "requires_authoritative_observation")
               ELSE FailRejected("effects_visible_durability_unconfirmed",
                                 "recovery_assets_retained")

----------------------------------------------------------------------------
(***************************************************************************)
(* finish_replay: forward, or by way of restart_interruption.              *)
(***************************************************************************)
\* Slip: an effect of which only the intent is left is done like a new one.
NothingLost == {}
LostActive == {p \in Actives : <<"publish_active_object", p>> \in intended}
FailedActive == {p \in Actives : ActiveStatus(p) \in {"failed", "indeterminate"}}
RequiresRecovery ==
  \/ stage = "recovery"
  \/ stage = "mutating" /\ LostActive \cup FailedActive # {}

ActiveUnsynchronized ==
  /\ Recorded("synchronize_active_namespace", NoPath)
  /\ SynchronizationStatus("synchronize_active_namespace") # "confirmed"

\* resume_rejected_publication and resume_active_execution find the retained
\* effects done and go on with what is left.
ResumeForward ==
  /\ Restarted(stage) /\ PastPreparation /\ ~RejectedFails
  /\ ~RequiresRecovery /\ ~ActiveUnsynchronized
  /\ UNCHANGED <<facts, cause, receipt, refused>>
  /\ profile' = Rebuilt
  /\ pc' = IF Recorded("synchronize_active_namespace", NoPath) THEN "active_mutated"
           ELSE IF \E p \in Actives : Recorded("publish_active_object", p) THEN "active"
           ELSE IF Recorded("synchronize_rejected_store", NoPath)
                THEN "rejected_published" ELSE "rejected"

\* resume_active_execution hands the status on as the journal has it.
ReplayActiveSynchronization ==
  LET status == SynchronizationStatus("synchronize_active_namespace")
  IN  /\ Restarted(IF status = "visible" THEN "recovery" ELSE stage)
      /\ PastPreparation /\ ~RejectedFails
      /\ ~RequiresRecovery /\ ActiveUnsynchronized
      /\ UNCHANGED facts
      /\ profile' = Rebuilt
      /\ Interrupt(IF status = "indeterminate" THEN "durability_indeterminate"
                   ELSE "durability_unconfirmed")

ResumeActiveSynchronization ==
  /\ session = "resumed" /\ pc = "active"
  /\ Left("publish_active_object", Actives) = {} /\ SomeChanged /\ AllDomains
  /\ UNCHANGED attempt
  /\ \E status \in Synchronized :
       /\ Record("synchronize_active_namespace", NoPath, status, FALSE)
       /\ Establish("active_namespace", status)
       /\ CASE status = "confirmed" -> Continue("active_mutated")
            [] status = "indeterminate" -> Interrupt("durability_indeterminate")
            [] OTHER -> Interrupt("durability_unconfirmed")

\* The first cause found in the journal, in the order of restart_interruption.
InferredCause ==
  CASE LostActive # {} -> "effect_indeterminate"
    [] LostActive = {} /\ FailedActive # {} ->
         IF \E p \in FailedActive : ActiveStatus(p) = "failed"
         THEN "effect_failed" ELSE "effect_indeterminate"
    [] LostActive \cup FailedActive = {} /\ ActiveUnsynchronized ->
         IF SynchronizationStatus("synchronize_active_namespace") = "indeterminate"
         THEN "durability_indeterminate" ELSE "durability_unconfirmed"
    [] OTHER ->
         LET unmatched == {p \in Paths : seen[p] \in {"mismatch", "indeterminate"}}
         IN  IF unmatched = {} THEN "none"
             ELSE IF seen[Lowest(unmatched)] = "mismatch"
                  THEN "result_observation_mismatch"
                  ELSE "result_observation_indeterminate"

InferredStatus(why) ==
  CASE why = "durability_unconfirmed" -> "unconfirmed"
    [] why \in {"effect_indeterminate", "durability_indeterminate",
                "result_observation_indeterminate"} -> "indeterminate"
    [] OTHER -> View["active_namespace"]

ResumeInterrupted ==
  /\ Restarted(IF InferredCause \in {"effect_indeterminate",
                                     "durability_indeterminate",
                                     "result_observation_indeterminate"}
               THEN stage ELSE "recovery")
  /\ PastPreparation /\ ~RejectedFails /\ RequiresRecovery
  /\ IF LostActive = {} THEN UNCHANGED facts
     ELSE \E p \in LostActive : Assume("publish_active_object", p)
  /\ profile' = [Rebuilt EXCEPT !["active_namespace"] = InferredStatus(InferredCause)]
  /\ IF InferredCause = "none" THEN UNCHANGED cause /\ Reject("interrupted_effect")
     ELSE Interrupt(InferredCause)

----------------------------------------------------------------------------
(***************************************************************************)
(* resume_recovery.                                                        *)
(***************************************************************************)
InRecovery == session = "resumed" /\ pc = "recover" /\ RecoverySelected

\* Any attempted recovery, retained or new, leaves the namespace visible.
\* A retained recovery that did not complete ends recovery, like a new one.
ReplayUnsuccessful ==
  /\ InRecovery
  /\ \/ /\ Unsuccessful = {}
        /\ \E p \in LostRecovery : Assume("recover_active_object", p)
     \/ Unsuccessful # {} /\ UNCHANGED facts
  /\ Establish("active_namespace", "visible")
  /\ Continue("conclude")
  /\ UNCHANGED attempt

ResumeRecover ==
  LET kind == "recover_active_object"
  IN  /\ InRecovery /\ Unsuccessful \cup LostRecovery = {} /\ NextRecovery # {}
      /\ \E fact \in Operated :
           /\ Record(kind, Highest(NextRecovery), fact, FALSE)
           /\ Establish("active_namespace", "visible")
           /\ Continue(IF fact = "completed" THEN "recover" ELSE "conclude")
      /\ UNCHANGED attempt

RecoveredLost == <<"synchronize_recovered_namespace", NoPath>> \in intended
ResumeRecoveredSynchronization ==
  LET kind == "synchronize_recovered_namespace"
  IN  /\ InRecovery /\ AllCandidatesRecovered /\ AllDomains
      /\ \E status \in Synchronized :
           /\ CASE Recorded(kind, NoPath) ->
                     status = View["active_namespace"] /\ UNCHANGED facts
                [] ~Recorded(kind, NoPath) /\ RecoveredLost ->
                     status = "indeterminate" /\ UNCHANGED facts
                [] OTHER -> Record(kind, NoPath, status, FALSE)
           /\ Establish("active_namespace", status)
           /\ Continue("conclude")
      /\ UNCHANGED attempt

\* Slip: visible recoveries are enough, as they are in a fresh run.
RecoveredVisibly == AllRecovered
\* Unlike a fresh run, a resumed one that could not confirm the recovered
\* namespace does not call it recovered.
RecoveredDurably ==
  AllRecovered /\ (AllDomains => profile["active_namespace"] = "confirmed")

ResumeConclude ==
  /\ session = "resumed"
  /\ \/ pc = "conclude" /\ UNCHANGED profile
     \/ /\ InRecovery /\ AllCandidatesRecovered /\ ~AllDomains
        /\ Establish("active_namespace", "visible")
  /\ UNCHANGED <<attempt, facts>>
  /\ LET exact == \A p \in Candidates :
                    Recorded("recover_active_object", p) => ExactRecoveryPossible(p)
         unknown == \/ "indeterminate" \in {EffectStatus("recover_active_object", p) :
                                              p \in Candidates}
                    \/ /\ AllRecovered /\ AllDomains
                       /\ profile["active_namespace"] = "indeterminate"
     IN  CASE RecoveredDurably /\ exact ->
                SealRecoveryReceipt("failed_fully_recovered",
                                    "exact_prior_state_restored")
           [] IndeterminateCause \/ unknown \/ RecoveredDurably ->
                SealRecoveryReceipt("indeterminate",
                                    "requires_authoritative_observation")
           [] OTHER ->
                SealRecoveryReceipt("failed_with_partial_effects",
                                    "known_residual_effects")

----------------------------------------------------------------------------
(***************************************************************************)
(* resume_completion.                                                      *)
(***************************************************************************)
ResumingEvidence(kind) ==
  session = "resumed" /\ Recorded(kind, NoPath) /\ UNCHANGED <<attempt, facts>>

\* Only a completed publication is a replay fact.
ReplayUnpublished ==
  /\ pc = "publish_evidence" /\ ResumingEvidence("publish_completed_evidence")
  /\ "completed" \notin FactsOf("publish_completed_evidence", NoPath)
  /\ Reject("completed_evidence") /\ UNCHANGED <<profile, cause>>

\* Evidence sealed under this projection is taken over; under another one it
\* is published and synchronized anew.
ReplayPublished ==
  /\ pc = "publish_evidence" /\ ResumingEvidence("publish_completed_evidence")
  /\ "completed" \in FactsOf("publish_completed_evidence", NoPath)
  /\ \/ Continue("sync_evidence") /\ UNCHANGED profile
     \/ Continue("resync_evidence") /\ UNCHANGED profile
     \/ FailEvidence(TRUE)
     \/ FailEvidence(FALSE)

ReplayEvidenceSynchronization ==
  /\ \/ pc = "sync_evidence" /\ ResumingEvidence("synchronize_completed_evidence")
     \/ pc = "resync_evidence" /\ UNCHANGED attempt
  /\ \E status \in Synchronized :
       /\ IF pc = "sync_evidence" THEN status = View["completed_evidence"]
          ELSE IF Recorded("synchronize_completed_evidence", NoPath)
               THEN UNCHANGED facts
               ELSE Record("synchronize_completed_evidence", NoPath, status, FALSE)
       /\ IF status = "confirmed" THEN Complete
          ELSE FailEvidence(status = "indeterminate")

----------------------------------------------------------------------------
\* Phases that a restart goes through as a fresh run does.
CommonStep ==
  \/ FailedCaptures = {} /\ CapturesDone
  \/ NoPayloads \/ Prepared
  \/ RejectedPhase
  \/ ExecuteActive \/ ActiveMutated
  \/ ObserveMatched \/ ObserveUnmatched
  \/ ~Recorded("publish_completed_evidence", NoPath) /\ PublishCompletedEvidence
  \/ ~Recorded("synchronize_completed_evidence", NoPath)
       /\ SynchronizeCompletedEvidence
  \/ RecoverNothing \/ RecoverUnselected

Restart ==
  \/ RefuseResumed \/ ResumePreparing
  \/ ReplayFailedRejected \/ ResumeForward \/ ReplayActiveSynchronization
  \/ ResumeInterrupted

ResumedPhase ==
  \/ ReplayFailedCapture \/ ResumeCapture \/ ResumePayloads
  \/ ResumeIncomingSynchronization \/ ResumeRecoverySynchronization
  \/ ResumeActiveSynchronization
  \/ ReplayUnsuccessful \/ ResumeRecover \/ ResumeRecoveredSynchronization
  \/ ResumeConclude
  \/ ReplayUnpublished \/ ReplayPublished \/ ReplayEvidenceSynchronization

ResumedStep == session = "resumed" /\ (CommonStep \/ ResumedPhase) /\ Journaling

Next == FreshStep \/ Crash \/ Restart \/ ResumedStep
Spec == Init /\ [][Next]_allVars

----------------------------------------------------------------------------
(***************************************************************************)
(* Properties.                                                             *)
(***************************************************************************)
\* No effect has two terminal events, in one session or across a restart, and
\* an attempt that is over left a receipt or an exception, never both: every
\* phase, fresh or resumed, walks the whole schedule and asks only the journal
\* what is left.
TypeOK ==
  /\ profile \in [Domain -> Status]
  /\ \A i, j \in DOMAIN facts :
       facts[i].kind = facts[j].kind /\ facts[i].path = facts[j].path => i = j
  /\ pc = "over" <=> (receipt # {} \/ refused # "none")
  /\ receipt = {} \/ refused = "none"
  /\ Cardinality(receipt) <= 1

\* The validators of result.cpp and of the phase objects accept what the
\* engine builds, whatever was lost on the way, except in these cases:
\*  - a failed effect without anything to recover, where an earlier effect
\*    retained its directory: validate_failed_paths counts the retained path
\*    as possibly applied;
\*  - a resumed synchronization of the active namespace that was only visible,
\*    which the fresh engine calls unconfirmed;
\*  - a restart in the middle of recovery, where restart_interruption pairs the
\*    status after some recoveries with the cause before them, or gives a
\*    result of unknown observation an indeterminate status;
\*  - a recovery begun because two observations of one path disagree, of which
\*    the journal keeps only the first;
\*  - a completed-evidence publication that did not complete, and is not
\*    replayed.
KnownRefusals ==
  CASE refused = "none" -> TRUE
    [] refused = "receipt" ->
         /\ cause = "effect_failed" /\ Candidates = {}
         /\ \E p \in Actives : ActiveStatus(p) = "conditional_retained"
    [] refused = "active_interrupted_application" ->
         /\ session = "resumed"
         /\ \/ /\ cause = "durability_unconfirmed"
               /\ SynchronizationStatus("synchronize_active_namespace") = "visible"
            \/ cause = "result_observation_indeterminate"
            \/ \E p \in Paths : Recorded("recover_active_object", p)
    [] refused = "interrupted_effect" -> crashes > 1 /\ \E p \in Paths : seen[p] # "none"
    [] refused = "completed_evidence" ->
         FactsOf("publish_completed_evidence", NoPath) \cap {"failed", "indeterminate"} # {}
    [] OTHER -> FALSE

\* At any boundary between two effects a restart arrives at the durability the
\* engine had, live or itself resumed: build_view by reading all events, and
\* the resume functions and restart_interruption from the effects they find
\* done, although neither sees the profile.  An indeterminate observation is
\* the exception: there the live engine keeps the status and
\* restart_interruption does not.
RestartRebuildsProfile ==
  /\ pc \in {"rejected", "rejected_published", "active", "active_mutated",
             "observe", "publish_evidence"}
     => /\ Rebuilt = profile
        /\ Recorded("publish_completed_evidence", NoPath) \/ View = profile
  /\ pc = "recover" /\ cause # "result_observation_indeterminate"
       /\ ~(\E p \in Paths : Recorded("recover_active_object", p))
     => RebuiltInterrupted = profile

\* The path was, or may have been, changed and was not put back exactly.  An
\* effect of which only the intent survived may have been carried out.
Disturbed(p) ==
  /\ \/ FactsOf("publish_active_object", p) \cap {"completed", "indeterminate"} # {}
     \/ <<"publish_active_object", p>> \in intended
  /\ ~(\E i, j \in DOMAIN facts :
         /\ facts[i].path = p /\ facts[i].kind = "recover_active_object"
         /\ facts[i].fact = "completed"
         /\ \/ Plan(p).before = "not_applicable"
            \/ /\ facts[j].path = p /\ facts[j].kind = "capture_old_object"
               /\ facts[j].exact)

RecoveredNamespaceConfirmed ==
  "confirmed" \in FactsOf("synchronize_recovered_namespace", NoPath)

\* A receipt reports every rejected and active effect with its outcome, those
\* interrupted by a crash as indeterminate, claims a known state only of paths
\* that are as they were or were observed, and has an outcome that agrees with
\* its paths, whichever phase of whichever session sealed it.  A resumed
\* recovery of every path still counts as partial while the recovered
\* namespace is not confirmed.
PathsAccounted ==
  \A r \in receipt :
    /\ \A p \in Paths :
         /\ Recorded("publish_active_object", p) =>
              p \in DOMAIN r.paths /\ r.paths[p].active = ActiveStatus(p)
         /\ Recorded("publish_rejected_object", p) =>
              p \in DOMAIN r.paths /\ r.paths[p].rejected = RejectedStatus(p)
         /\ <<"publish_active_object", p>> \in intended =>
              p \in DOMAIN r.paths /\ r.paths[p].active = "indeterminate"
         /\ <<"publish_rejected_object", p>> \in intended =>
              p \in DOMAIN r.paths /\ r.paths[p].rejected = "indeterminate"
    /\ cause # "none" =>
         \A p \in DOMAIN r.paths :
           r.paths[p].after = IF Disturbed(p) THEN "unknown" ELSE Plan(p).before
    /\ r.outcome \in {"precondition_refused", "failed_before_target_mutation",
                      "failed_fully_recovered"} => ~(\E p \in Paths : Disturbed(p))
    /\ r.outcome = "failed_with_partial_effects" =>
         \/ \E p \in Paths : Disturbed(p)
         \/ session = "resumed" /\ AllDomains /\ ~RecoveredNamespaceConfirmed
    /\ r.outcome = "completed" =>
         DOMAIN r.paths = Paths /\ \A p \in Paths : r.paths[p].after # "unknown"

\* The change an event records was followed by a confirmed synchronization.
SynchronizedAfter(i, d) ==
  \E j \in DOMAIN facts :
    /\ i < j /\ facts[j].kind \in Synchronizing
    /\ DomainOf(facts[j].kind) = d /\ facts[j].fact = "confirmed"

ChangedAt(i, d) ==
  /\ DomainOf(facts[i].kind) = d /\ facts[i].kind \notin Synchronizing
  /\ facts[i].fact \in {"completed", "indeterminate"}

\* Every change of the domain was followed by a confirmed synchronization.
DurablyRecorded(d) ==
  \A i \in DOMAIN facts : ChangedAt(i, d) => SynchronizedAfter(i, d)

\* A recovery of unknown outcome, which a fresh attempt leaves out of the
\* profile (see ConfirmedEstablished).
Unreported(i) ==
  /\ session = "fresh"
  /\ facts[i].kind = "recover_active_object" /\ facts[i].fact = "indeterminate"

\* Every change that the profile takes into account was.
ReportedDurable(d) ==
  \A i \in DOMAIN facts :
    ChangedAt(i, d) /\ ~Unreported(i) => SynchronizedAfter(i, d)

\* The recovered namespace was synchronized after everything that happened to
\* it, with this result.
NamespaceSynchronizedLast(status) ==
  \E j \in DOMAIN facts :
    /\ facts[j].kind = "synchronize_recovered_namespace" /\ facts[j].fact = status
    /\ \A i \in DOMAIN facts :
         DomainOf(facts[i].kind) = "active_namespace" => i <= j

\* Evidence that a restart published anew leaves no event to look for.
Recordable ==
  IF session = "fresh" THEN Domain \ {"journal"}
  ELSE Domain \ {"journal", "completed_evidence"}

MustBeDurable ==
  IF AllDomains THEN Recordable
  ELSE {"incoming_staging", "recovery_staging", "completed_evidence"} \cap Recordable

\* Completed receipts are durable in all domains the execution control names,
\* and no receipt says confirmed of a domain that changed after its last
\* confirmed synchronization, in whichever session either took place; of all
\* changes, only a recovery of unknown outcome in a fresh attempt is left out.
\* With every domain durable, an attempt is called fully recovered only after
\* the recovered namespace was synchronized as its last event, and the receipt
\* says what that synchronization reported.  A fresh attempt is called so
\* whatever it reported; a restarted one only if it was confirmed.
DurabilityEstablished ==
  \A r \in receipt :
    /\ r.outcome = "completed" => \A d \in MustBeDurable : DurablyRecorded(d)
    /\ \A d \in Recordable : r.durability[d] = "confirmed" => ReportedDurable(d)
    /\ r.outcome = "failed_fully_recovered" /\ AllDomains =>
         /\ NamespaceSynchronizedLast(r.durability["active_namespace"])
         /\ session = "resumed" => r.durability["active_namespace"] = "confirmed"

\* DESIGN.md: "The receipt records only guarantees actually established by the
\* backend."  recover_interrupted keeps the confirmed status of the mutated
\* namespace when the first recovery after an unmatched observation has an
\* unknown outcome.
ConfirmedEstablished ==
  \A r \in receipt : \A d \in Domain \ {"journal"} :
    r.durability[d] = "confirmed" => DurablyRecorded(d)

=============================================================================
