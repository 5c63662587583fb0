------------------------ MODULE RestartedApplication ------------------------
(***************************************************************************)
(* The steps of resume_application() that differ from a fresh run, and the *)
(* crash that makes it necessary.  Its retained facts, its disposition and *)
(* its durability are all derived from the journal, never from memory.     *)
(***************************************************************************)
EXTENDS FreshApplication

\* The process dies; the journal and the world stay.
Crash ==
  /\ engine.mode # "off"
  /\ crashes < MaxCrashes
  /\ crashes' = crashes + 1
  /\ Stop
  /\ UNCHANGED <<journal, world, thrown>>

\* Staged payload effects that retain different outcomes or evidence: the
\* restart view of such a journal cannot be built.
ConflictingPayloads ==
  \E p, q \in Payloads :
    LET f == journal.progress[PayloadEffect(p)]
        g == journal.progress[PayloadEffect(q)]
    IN  f \in Fact /\ g \in Fact /\ f # g

\* reopen_application_engine, rebuild_restart_application and the start of
\* resume_preparation.  Only a resumable journal is reopened, under the same
\* or a newly observed state projection.  A preparing journal has its
\* preconditions observed again.
Reopen ==
  /\ engine.mode = "off" /\ journal.declared /\ Resumable
  /\ UNCHANGED <<world, crashes>>
  /\ \/ /\ ConflictingPayloads
        /\ Raise("conflicting_payload_facts")
        /\ UNCHANGED journal
     \/ /\ ~ConflictingPayloads /\ journal.state # "preparing"
        /\ \E v \in 1 .. MaxProjections :
             engine' = Session("resumed", "rejected", v)
        /\ thrown' = "none"
        /\ UNCHANGED journal
     \/ /\ ~ConflictingPayloads /\ journal.state = "preparing"
        /\ thrown' = "none"
        /\ \/ /\ \E v \in 1 .. MaxProjections :
                   engine' = Session("resumed", "captures", v)
              /\ UNCHANGED journal
           \/ PublishReceipt("failed_before_target_mutation", "abandoned")

----------------------------------------------------------------------------
\* The active-namespace durability the restart view folds from the terminal
\* facts, in journal order: active effects, their synchronization, recovery
\* effects, their synchronization.
Terminated(e) == e \in Effects /\ journal.progress[e] \in Fact
RestartDurability ==
  LET active(f) == \E p \in Actives :
                     journal.progress[<<"publish_active_object", p>>] = f
      recovery(f) == \E p \in Actives :
                       journal.progress[<<"recover_active_object", p>>] = f
  IN  IF Terminated(RecoveredSynchronization)
      THEN journal.progress[RecoveredSynchronization]
      ELSE IF recovery("indeterminate") THEN "indeterminate"
      ELSE IF recovery("completed") THEN "visible"
      ELSE IF Terminated(ActiveSynchronization)
      THEN journal.progress[ActiveSynchronization]
      ELSE IF active("indeterminate") THEN "indeterminate"
      ELSE IF active("completed") THEN "visible"
      ELSE "not_attempted"

\* What the constructor of active_interrupted_application accepts.
InterruptionAccepted(cause, durability) ==
  CASE cause = "effect_failed" -> durability \in {"not_attempted", "visible"}
    [] cause \in {"effect_indeterminate", "durability_indeterminate"} ->
         durability = "indeterminate"
    [] cause = "durability_unconfirmed" -> durability = "unconfirmed"
    [] OTHER -> durability \in {"not_attempted", "visible", "confirmed"}

\* The resumed active phase passes the recorded synchronization status on as
\* it is, where the fresh one passes "unconfirmed" for "visible" too.
ResumeInterruptSynchronization ==
  LET status == journal.progress[ActiveSynchronization]
      cause == IF status = "indeterminate" THEN "durability_indeterminate"
               ELSE "durability_unconfirmed"
  IN  /\ At("sync_active") /\ engine.mode = "resumed"
      /\ ~SkipActiveSynchronization /\ Idle
      /\ Terminal(ActiveSynchronization) \in {"failed", "indeterminate"}
      /\ \/ /\ InterruptionAccepted(cause, status)
            /\ Interrupt(cause)
         \/ /\ ~InterruptionAccepted(cause, status)
            /\ AppendState("recovery_pending")
            /\ Raise("interruption_durability")
            /\ UNCHANGED <<world, crashes>>

----------------------------------------------------------------------------
(***************************************************************************)
(* restart_interruption: the cause is read off the journal, from the first *)
(* active effect, then the namespace synchronization, then the first       *)
(* observation that did not complete.                                      *)
(***************************************************************************)
InterruptedActive == Unfinished("publish_active_object", ActiveOrder)
FirstActive == FirstUnfinished("publish_active_object", ActiveOrder)
UnmatchedPaths == {p \in PlanPaths : Intended(ObserveEffect(p))
                                     /\ ~Done(ObserveEffect(p))}
SynchronizationInterrupted ==
  /\ ActiveSynchronization \in Effects
  /\ Intended(ActiveSynchronization) /\ ~Done(ActiveSynchronization)

RestartCause ==
  IF InterruptedActive # {} /\ Intended(FirstActive)
  THEN IF Terminal(FirstActive) = "failed"
       THEN "effect_failed" ELSE "effect_indeterminate"
  ELSE IF SynchronizationInterrupted
  THEN IF Terminal(ActiveSynchronization) = "failed"
       THEN "durability_unconfirmed" ELSE "durability_indeterminate"
  ELSE IF UnmatchedPaths # {}
  THEN IF Terminal(ObserveEffect(FirstPath(UnmatchedPaths))) = "failed"
       THEN "result_observation_mismatch"
       ELSE "result_observation_indeterminate"
  ELSE "none"

CauseDurability(cause) ==
  CASE cause \in IndeterminateInterruption -> "indeterminate"
    [] cause = "durability_unconfirmed" -> "unconfirmed"
    [] OTHER -> RestartDurability

RestartInterruption ==
  LET cause == RestartCause
      st == IF journal.state = "recovering" THEN "recovering"
            ELSE IF cause \in IndeterminateInterruption
                 THEN "indeterminate" ELSE "recovery_pending"
  IN  \/ /\ cause = "none"
         /\ Raise("no_interrupted_effect")
         /\ UNCHANGED <<journal, world, crashes>>
      \/ /\ cause # "none"
         /\ IF st = "recovering" THEN UNCHANGED journal ELSE AppendState(st)
         /\ UNCHANGED <<world, crashes>>
         /\ \/ /\ InterruptionAccepted(cause, CauseDurability(cause))
               /\ engine' = [engine EXCEPT !.pc = "recover", !.cause = cause]
               /\ UNCHANGED thrown
            \/ /\ ~InterruptionAccepted(cause, CauseDurability(cause))
               /\ Raise("interruption_durability")

\* finish_replay: the rejected phase is over.
ResumeAfterRejected ==
  /\ engine.mode = "resumed"
  /\ \/ /\ Disposition = "resume_recovery"
        /\ RestartInterruption
     \/ /\ Disposition = "resume_forward"
        /\ Proceed("active")

\* resume_recovery: an unconfirmed recovered namespace is not recovered.
ResumeConcludeRecovery ==
  LET sync == RecoveredSynchronization
      recovered == Unrecovered = {} /\ (AllDomains => Done(sync))
      indeterminate ==
        \/ engine.cause \in IndeterminateInterruption
        \/ RecoveryIndeterminate
        \/ /\ Unrecovered = {} /\ AllDomains
           /\ Terminal(sync) \in {"intent", "indeterminate"}
  IN  /\ At("conclude") /\ engine.mode = "resumed"
      /\ SealRecoveryReceipt(
           IF recovered /\ AllExact THEN "failed_fully_recovered"
           ELSE IF indeterminate \/ recovered THEN "indeterminate"
           ELSE "failed_with_partial_effects")

----------------------------------------------------------------------------
\* resume_completion finds the publication already terminal.
ResumePublication ==
  /\ At("publish_evidence") /\ engine.mode = "resumed"
  /\ Terminal(PublishEvidence) \in TerminalKind
  /\ \/ /\ Idle /\ ~Done(PublishEvidence)
        /\ Raise("completed_evidence_contradicts_journal")
        /\ UNCHANGED <<journal, world, crashes>>
     \/ /\ Idle /\ Done(PublishEvidence) /\ ~Republish
        /\ Proceed("sync_evidence")
     \/ /\ Idle /\ Done(PublishEvidence) /\ Republish
        /\ engine' = [engine EXCEPT !.call = "issued"]
        /\ UNCHANGED <<journal, world, thrown, crashes>>
     \/ /\ engine.call = "completed" /\ Republish
        /\ Proceed("sync_evidence")
     \/ /\ engine.call \in {"failed", "indeterminate"} /\ Republish
        /\ SealWith(EvidenceVerdict(engine.call))
        /\ UNCHANGED <<journal, world, thrown, crashes>>

\* ... and its synchronization, repeated off the journal for a new record.
ResumeSynchronization ==
  LET event == TerminalEvent(SyncEvidence, engine.call)
  IN  /\ At("sync_evidence") /\ engine.mode = "resumed"
      /\ Terminal(SyncEvidence) \in TerminalKind
      /\ \/ /\ Idle /\ ~Republish
            /\ EvidenceSynchronized(Terminal(SyncEvidence))
         \/ /\ Idle /\ Republish
            /\ engine' = [engine EXCEPT !.call = "issued"]
         \/ /\ engine.call \in Fact
            /\ EvidenceSynchronized(event)
      /\ UNCHANGED <<journal, world, thrown, crashes>>

RestartStep ==
  \/ Reopen
  \/ SynchronizeRejected(ResumeAfterRejected)
  \/ ResumeInterruptSynchronization \/ ResumeConcludeRecovery
  \/ ResumePublication \/ ResumeSynchronization

=============================================================================
