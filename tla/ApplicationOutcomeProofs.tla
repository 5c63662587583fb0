------------------------ MODULE ApplicationOutcomeProofs ------------------------
(***************************************************************************)
(* First what a lifecycle state of the journal vouches for, whichever      *)
(* session wrote it: the phases behind it are complete, so that every      *)
(* append follows the journal's lifecycle relation.  Then what an attempt  *)
(* does to the world: the managed target, the rejected store and the       *)
(* evidence records.  Active effects run only behind complete preparation  *)
(* and in schedule order, recovery runs in the exact reverse, and sealed   *)
(* evidence is durable.                                                    *)
(***************************************************************************)
EXTENDS ApplicationEngineProofs

----------------------------------------------------------------------------
(***************************************************************************)
(* Phases that are complete.                                               *)
(***************************************************************************)
CapturesDone == \A p \in Captures : Done(<<"capture_old_object", p>>)
PayloadsDone == \A p \in Payloads : Done(PayloadEffect(p))
IncomingDone == Payloads # {} => Done(Global("synchronize_incoming_staging"))
StagingDone ==
  /\ CapturesDone /\ PayloadsDone /\ IncomingDone
  /\ Captures # {} => Done(Global("synchronize_recovery_staging"))
RejectedDone == \A p \in Rejecteds : Done(<<"publish_rejected_object", p>>)
RejectedStoreDone ==
  Rejecteds # {} /\ AllDomains => Done(Global("synchronize_rejected_store"))
ActiveDone == \A p \in Actives : Done(<<"publish_active_object", p>>)
NamespaceDone == SkipActiveSynchronization \/ Done(ActiveSynchronization)

\* What a journal without a receipt vouches for in a state.
Vouched(s) ==
  /\ s \in {"preparing", "prepared", "mutating", "effects_visible",
            "result_observed", "recovery_pending", "recovering", "indeterminate"}
  /\ s # "preparing" => StagingDone
  /\ s \notin {"preparing", "prepared", "mutating"} => RejectedDone /\ RejectedStoreDone
  /\ s \in {"effects_visible", "result_observed"} => ActiveDone /\ NamespaceDone

\* What holds where a live session stands.  A fresh run that publishes rejected
\* objects has not gone beyond mutating.
Reached(mode, pc, s) ==
  /\ pc \in {"admit", "captures", "payloads", "sync_incoming", "sync_recovery"} =>
       s = "preparing"
  /\ pc \in {"payloads", "sync_incoming", "sync_recovery"} => CapturesDone
  /\ pc \in {"sync_incoming", "sync_recovery"} => PayloadsDone
  /\ pc = "sync_recovery" => IncomingDone
  /\ pc = "rejected" => s # "preparing"
  /\ pc = "sync_rejected" => s \notin {"preparing", "prepared"} /\ RejectedDone
  /\ mode = "fresh" /\ pc \in {"rejected", "sync_rejected"} =>
       s \in {"prepared", "mutating"}
  /\ pc \in {"active", "sync_active"} =>
       /\ s \in {"mutating", "effects_visible", "result_observed"}
       /\ RejectedDone /\ RejectedStoreDone
  /\ pc = "sync_active" => ActiveDone
  /\ pc = "observe" => s \in {"effects_visible", "result_observed"}
  /\ pc \in {"publish_evidence", "sync_evidence", "seal"} => s = "result_observed"
  /\ pc = "recover" => s \in {"recovery_pending", "indeterminate", "recovering"}
  /\ pc \in {"sync_recovered", "conclude"} => s = "recovering"
  /\ pc # "stopped"

StateReached == journal.receipt = "none" => Vouched(journal.state)
PhaseReached ==
  engine.mode # "off" => Reached(engine.mode, engine.pc, journal.state)
VerdictReached ==
  engine.pc = "seal" =>
    engine.verdict.state \in {"application_completed", "effects_visible", "indeterminate"}

Lifecycle == StateReached /\ PhaseReached /\ VerdictReached

\* Every append follows the lifecycle relation, and recovery once begun is left
\* only with a receipt.
StateAdvances ==
  /\ StateMayFollow(journal.state, journal'.state)
  /\ journal.receipt = "none" /\ journal.state = "recovering" =>
       journal'.state = "recovering" \/ journal'.receipt # "none"

----------------------------------------------------------------------------
(***************************************************************************)
(* What is vouched for stays so.                                           *)
(***************************************************************************)
\* The effects of the phases are declared effects.
LEMMA PhaseEffects ==
  /\ \A p \in Captures : <<"capture_old_object", p>> \in Effects
  /\ \A p \in Payloads : PayloadEffect(p) \in Effects
  /\ \A p \in Rejecteds : <<"publish_rejected_object", p>> \in Effects
  /\ \A p \in Actives : <<"publish_active_object", p>> \in Effects
BY DEF Effects, On, PayloadEffect

\* A complete phase stays complete.
LEMMA PhasesStay ==
  ASSUME Advances
  PROVE  /\ CapturesDone => CapturesDone'
         /\ PayloadsDone => PayloadsDone'
         /\ IncomingDone => IncomingDone'
         /\ StagingDone => StagingDone'
         /\ RejectedDone => RejectedDone'
         /\ RejectedStoreDone => RejectedStoreDone'
         /\ ActiveDone => ActiveDone'
         /\ ActiveDone /\ NamespaceDone => NamespaceDone'
<1>1. \A e \in Effects : Done(e) => Done(e)' /\ journal'.progress[e] = journal.progress[e]
  BY DoneStays
<1>2. CapturesDone => CapturesDone'
  BY <1>1, PhaseEffects DEF CapturesDone
<1>3. PayloadsDone => PayloadsDone'
  BY <1>1, PhaseEffects DEF PayloadsDone, PayloadEffect
<1>4. IncomingDone => IncomingDone'
  BY <1>1, SynchronizedDomains DEF IncomingDone, Global
<1>5. StagingDone => StagingDone'
  BY <1>1, <1>2, <1>3, <1>4, SynchronizedDomains DEF StagingDone, Global
<1>6. RejectedDone => RejectedDone'
  BY <1>1, PhaseEffects DEF RejectedDone
<1>7. RejectedStoreDone => RejectedStoreDone'
  <2>1. Rejecteds # {} => RejectedOrder # << >>
    BY DEF Rejecteds, Elements
  <2> QED  BY <1>1, <2>1, SynchronizedDomains DEF RejectedStoreDone, Global, AllDomains
<1>8. ActiveDone => ActiveDone'
  BY <1>1, PhaseEffects DEF ActiveDone
<1>9. ASSUME ActiveDone, NamespaceDone PROVE NamespaceDone'
  <2>1. \A p \in Actives : Changed(p)' = Changed(p)
    BY <1>1, <1>9, PhaseEffects DEF ActiveDone, Changed
  <2>2. SkipActiveSynchronization' = SkipActiveSynchronization
    BY <2>1 DEF SkipActiveSynchronization, AllDomains
  <2>3. ~SkipActiveSynchronization => ActiveSynchronization \in Effects
    BY SynchronizedDomains DEF SkipActiveSynchronization
  <2> QED  BY <1>1, <1>9, <2>2, <2>3 DEF NamespaceDone, ActiveSynchronization, Global
<1> QED  BY <1>2, <1>3, <1>4, <1>5, <1>6, <1>7, <1>8, <1>9

\* So does what a state and a position vouch for.
LEMMA VouchedStays ==
  ASSUME Advances, NEW s, NEW mode, NEW pc
  PROVE  /\ Vouched(s) => Vouched(s)'
         /\ Reached(mode, pc, s) => Reached(mode, pc, s)'
BY PhasesStay DEF Vouched, Reached

\* A phase without an unfinished effect is complete.
LEMMA PhaseFinished ==
  /\ Unfinished("capture_old_object", CaptureOrder) = {} => CapturesDone
  /\ Unfinished("publish_rejected_object", RejectedOrder) = {} => RejectedDone
  /\ Unfinished("publish_active_object", ActiveOrder) = {} => ActiveDone
<1>1. ASSUME NEW kind, NEW order, Unfinished(kind, order) = {}
      PROVE  \A p \in Elements(order) : Done(<<kind, p>>)
  BY <1>1 DEF Unfinished, Elements
<1> QED
  BY <1>1 DEF CapturesDone, RejectedDone, ActiveDone, Captures, Rejecteds, Actives

----------------------------------------------------------------------------
(***************************************************************************)
(* The steps a session is made of.                                         *)
(***************************************************************************)
\* A step to a state and a position that are justified where it is taken.
LEMMA LifecycleMove ==
  ASSUME Advances, journal.receipt = "none", NEW s, NEW pc,
         journal'.state = s, StateMayFollow(journal.state, s),
         journal'.receipt = "none" =>
           Vouched(s) /\ (journal.state = "recovering" => s = "recovering"),
         engine'.mode # "off" => engine'.pc = pc /\ Reached(engine'.mode, pc, s),
         VerdictReached'
  PROVE  Lifecycle' /\ StateAdvances
<1>1. StateReached'
  BY VouchedStays DEF StateReached
<1>2. PhaseReached'
  <2>1. PICK mode : mode = engine'.mode
    OBVIOUS
  <2>2. mode # "off" => Reached(mode, pc, s)'
    BY <2>1, VouchedStays
  <2> QED  BY <2>1, <2>2 DEF PhaseReached
<1> QED  BY <1>1, <1>2 DEF Lifecycle, StateAdvances

\* The steps by name.
LEMMA LifecycleSteps ==
  ASSUME TypeOK, Discipline, Lifecycle, Advances, engine.mode # "off"
  PROVE  /\ \A pc : Proceed(pc) /\ pc # "seal"
                    /\ Reached(engine.mode, pc, journal.state)
              => Lifecycle' /\ StateAdvances
         /\ \A s : \A pc : /\ ProceedIn(s, pc) /\ pc # "seal"
                           /\ Vouched(s) /\ Reached(engine.mode, pc, s)
                           /\ StateMayFollow(journal.state, s)
                           /\ journal.state = "recovering" => s = "recovering"
              => Lifecycle' /\ StateAdvances
         /\ \A s : \A outcome \in Outcome :
              Resolve(outcome, s) /\ StateMayFollow(journal.state, s)
              => Lifecycle' /\ StateAdvances
         /\ \A why : Raise(why) /\ UNCHANGED journal => Lifecycle' /\ StateAdvances
         /\ \A e : \/ PublishIntent(e, journal.state) \/ RetryIntended(e)
                   \/ PublishTerminal(e, journal.state)
              => Lifecycle' /\ StateAdvances
         /\ \A fact : Return(fact) => Lifecycle' /\ StateAdvances
         /\ \A e : \A event :
              AppendEvent(e, journal.state, event) /\ UNCHANGED engine
              => Lifecycle' /\ StateAdvances
<1>1. journal \in Journals /\ engine \in Sessions
  BY TypedParts
<1>2. /\ journal.receipt = "none" /\ Vouched(journal.state)
      /\ Reached(engine.mode, engine.pc, journal.state)
  BY DEF Discipline, SessionOpen, Lifecycle, StateReached, PhaseReached
<1>3. \A s : StateMayFollow(s, s)
  BY DEF StateMayFollow
<1>4. ASSUME Stop PROVE engine'.mode = "off" /\ VerdictReached'
  BY <1>4 DEF Stop, Session, VerdictReached
<1>5. ASSUME NEW pc, Goto(pc), pc # "seal"
      PROVE  engine'.mode = engine.mode /\ engine'.pc = pc /\ VerdictReached'
  BY <1>1, <1>5 DEF Goto, Sessions, VerdictReached
<1>6. ASSUME engine'.mode = engine.mode, engine'.pc = engine.pc,
             engine'.verdict = engine.verdict, journal'.state = journal.state
      PROVE  Lifecycle' /\ StateAdvances
  <2>1. VerdictReached'
    BY <1>6 DEF Lifecycle, VerdictReached
  <2>2. PICK s, pc : s = journal.state /\ pc = engine.pc
    OBVIOUS
  <2> QED  BY <1>2, <1>3, <1>6, <2>1, <2>2, LifecycleMove
<1>7. ASSUME NEW pc, Proceed(pc), pc # "seal", Reached(engine.mode, pc, journal.state)
      PROVE  Lifecycle' /\ StateAdvances
  <2>1. Goto(pc) /\ UNCHANGED journal
    BY <1>7 DEF Proceed
  <2>2. PICK s : s = journal.state
    OBVIOUS
  <2> QED  BY <1>2, <1>3, <1>5, <1>7, <2>1, <2>2, LifecycleMove
<1>8. ASSUME NEW s, NEW pc, ProceedIn(s, pc), pc # "seal", Vouched(s),
             Reached(engine.mode, pc, s), StateMayFollow(journal.state, s),
             journal.state = "recovering" => s = "recovering"
      PROVE  Lifecycle' /\ StateAdvances
  <2>1. Goto(pc) /\ journal'.state = s
    BY <1>1, <1>8 DEF ProceedIn, AppendState, Journals
  <2> QED  BY <1>2, <1>5, <1>8, <2>1, LifecycleMove
<1>9. ASSUME NEW s, NEW outcome \in Outcome, Resolve(outcome, s),
             StateMayFollow(journal.state, s)
      PROVE  Lifecycle' /\ StateAdvances
  <2>1. Stop /\ journal'.state = s /\ journal'.receipt = outcome
    BY <1>1, <1>9 DEF Resolve, PublishReceipt, Journals
  <2>2. outcome # "none"
    BY DEF Outcome
  <2> QED  BY <1>2, <1>4, <1>9, <2>1, <2>2, LifecycleMove
<1>10. ASSUME NEW why, Raise(why), UNCHANGED journal PROVE Lifecycle' /\ StateAdvances
  <2>1. PICK s : s = journal.state
    OBVIOUS
  <2> QED  BY <1>2, <1>3, <1>4, <1>10, <2>1, LifecycleMove DEF Raise
<1>11. ASSUME NEW e, NEW event, AppendEvent(e, journal.state, event)
       PROVE  journal'.state = journal.state
  BY <1>1, <1>11 DEF AppendEvent, Journals
<1>12. ASSUME NEW call, engine' = [engine EXCEPT !.call = call]
       PROVE  /\ engine'.mode = engine.mode /\ engine'.pc = engine.pc
              /\ engine'.verdict = engine.verdict
  BY <1>1, <1>12 DEF Sessions
<1>13. ASSUME NEW e, \/ PublishIntent(e, journal.state) \/ RetryIntended(e)
                     \/ PublishTerminal(e, journal.state)
       PROVE  Lifecycle' /\ StateAdvances
  <2>1. journal'.state = journal.state
    BY <1>11, <1>13 DEF PublishIntent, RetryIntended, PublishTerminal
  <2>2. \E call : engine' = [engine EXCEPT !.call = call]
    BY <1>13 DEF PublishIntent, RetryIntended, PublishTerminal
  <2> QED  BY <1>6, <1>12, <2>1, <2>2
<1>14. ASSUME NEW fact, Return(fact) PROVE Lifecycle' /\ StateAdvances
  BY <1>6, <1>12, <1>14 DEF Return
<1>15. ASSUME NEW e, NEW event, AppendEvent(e, journal.state, event), UNCHANGED engine
       PROVE  Lifecycle' /\ StateAdvances
  BY <1>6, <1>11, <1>15
<1> QED  BY <1>7, <1>8, <1>9, <1>10, <1>13, <1>14, <1>15

\* What a live session may rely on.
LEMMA LiveSession ==
  ASSUME Discipline, Lifecycle, engine.mode # "off"
  PROVE  /\ journal.receipt = "none" /\ Vouched(journal.state)
         /\ Reached(engine.mode, engine.pc, journal.state)
BY DEF Discipline, SessionOpen, Lifecycle, StateReached, PhaseReached

\* The turns of the phases that walk over a schedule.
LEMMA WalkedEffects ==
  ASSUME NEW e, Turn(e), ~Done(e)
  PROVE  /\ engine.pc = "rejected" => ~RejectedDone
         /\ engine.pc = "active" => ~ActiveDone
BY DEF Turn, WalkTurn, RejectedDone, ActiveDone, Rejecteds, Actives, Elements

\* An interruption leaves the active phase with what the rejected phase did.
LEMMA InterruptMove ==
  ASSUME TypeOK, Discipline, Lifecycle, Advances, engine.mode # "off",
         journal.state \in {"mutating", "effects_visible", "result_observed"},
         RejectedDone, RejectedStoreDone, NEW cause, Interrupt(cause)
  PROVE  Lifecycle' /\ StateAdvances
<1>1. journal \in Journals /\ engine \in Sessions
  BY TypedParts
<1>2. PICK s \in {"indeterminate", "recovery_pending"} : AppendState(s)
  BY DEF Interrupt
<1>3. journal'.state = s /\ engine'.pc = "recover" /\ engine'.mode = engine.mode
  BY <1>1, <1>2 DEF AppendState, Interrupt, Journals, Sessions
<1>4. StateMayFollow(journal.state, s)
  BY DEF StateMayFollow, Successors
<1>5. journal.receipt = "none" /\ Vouched(s)
  BY LiveSession DEF Vouched
<1>6. Reached(engine.mode, "recover", s)
  BY DEF Reached
<1>7. VerdictReached'
  BY <1>3 DEF VerdictReached
<1> QED  BY <1>3, <1>4, <1>5, <1>6, <1>7, LifecycleMove

\* Preparation stays in preparing until everything is staged.
LEMMA PreparationLifecycle ==
  ASSUME TypeOK, Discipline, Lifecycle, Advances,
         \/ Admit \/ CaptureOldObjects \/ StageIncomingPayloads
         \/ SynchronizeIncoming \/ SynchronizeRecovery \/ BeginMutation
  PROVE  Lifecycle' /\ StateAdvances
<1>1. journal \in Journals /\ engine \in Sessions
  BY TypedParts
<1>2. engine.mode # "off"
  BY DEF Admit, CaptureOldObjects, StageIncomingPayloads, SynchronizeIncoming,
         SynchronizeRecovery, BeginMutation, At
<1>3. /\ journal.receipt = "none" /\ Vouched(journal.state)
      /\ Reached(engine.mode, engine.pc, journal.state)
  BY <1>2, LiveSession
<1>4. ASSUME journal.state = "preparing", FailPreparation
      PROVE  Lifecycle' /\ StateAdvances
  <2>1. StateMayFollow(journal.state, "abandoned")
    BY <1>4 DEF StateMayFollow, Successors
  <2>2. "failed_before_target_mutation" \in Outcome
    BY DEF Outcome
  <2> QED  BY <1>2, <1>4, <2>1, <2>2, LifecycleSteps DEF FailPreparation
<1>a. CASE Admit
  <2>1. engine.pc = "admit" /\ journal.state = "preparing"
    BY <1>3, <1>a DEF Admit, At, Reached
  <2>2. journal'.state = "preparing"
    BY <1>1, <1>a, <2>1 DEF Admit, Journals
  <2>3. CASE Goto("captures")
    <3>1. engine'.pc = "captures" /\ engine'.mode = engine.mode /\ VerdictReached'
      BY <1>1, <2>3 DEF Goto, Sessions, VerdictReached
    <3>2. Reached(engine.mode, "captures", "preparing")
      BY DEF Reached
    <3> QED  BY <1>3, <2>1, <2>2, <3>1, <3>2, LifecycleMove DEF StateMayFollow
  <2>4. CASE Stop
    <3>1. engine'.mode = "off" /\ VerdictReached'
      BY <2>4 DEF Stop, Session, VerdictReached
    <3> QED  BY <1>3, <2>1, <2>2, <3>1, LifecycleMove DEF StateMayFollow
  <2> QED  BY <1>a, <2>3, <2>4 DEF Admit
<1>b. CASE CaptureOldObjects
  <2>1. engine.pc = "captures" /\ journal.state = "preparing"
    BY <1>3, <1>b DEF CaptureOldObjects, At, Reached
  <2>2. CASE /\ Unfinished("capture_old_object", CaptureOrder) = {}
             /\ Proceed("payloads")
    <3>1. Reached(engine.mode, "payloads", journal.state)
      BY <2>1, <2>2, PhaseFinished DEF Reached
    <3> QED  BY <1>2, <2>2, <3>1, LifecycleSteps
  <2>3. CASE CaptureOld
    BY <1>2, <2>3, LifecycleSteps DEF CaptureOld
  <2>4. ASSUME NEW e, \/ PublishIntent(e, "preparing") \/ RetryIntended(e)
                      \/ PublishTerminal(e, "preparing")
        PROVE  Lifecycle' /\ StateAdvances
    BY <1>2, <2>1, <2>4, LifecycleSteps
  <2> QED  BY <1>b, <1>4, <2>1, <2>2, <2>3, <2>4, CaptureForms
<1>c. CASE StageIncomingPayloads
  <2>1. engine.pc = "payloads" /\ journal.state = "preparing" /\ CapturesDone
    BY <1>3, <1>c DEF StageIncomingPayloads, At, Reached
  <2>2. CASE /\ \A p \in Payloads : Done(PayloadEffect(p))
             /\ Proceed("sync_incoming")
    <3>1. Reached(engine.mode, "sync_incoming", journal.state)
      BY <2>1, <2>2 DEF Reached, PayloadsDone
    <3> QED  BY <1>2, <2>2, <3>1, LifecycleSteps
  <2>3. ASSUME NEW e, NEW event, AppendEvent(e, "preparing", event), UNCHANGED engine
        PROVE  Lifecycle' /\ StateAdvances
    BY <1>2, <2>1, <2>3, LifecycleSteps
  <2>4. CASE engine' = [engine EXCEPT !.call = "issued"] /\ UNCHANGED journal
    <3>1. /\ engine'.mode = engine.mode /\ engine'.pc = engine.pc /\ VerdictReached'
      BY <1>1, <2>1, <2>4 DEF Sessions, VerdictReached
    <3> QED  BY <1>3, <2>1, <2>4, <3>1, LifecycleMove DEF StateMayFollow
  <2>5. CASE SealPayloads
    BY <1>2, <2>5, LifecycleSteps DEF SealPayloads
  <2> QED  BY <1>c, <1>4, <2>1, <2>2, <2>3, <2>4, <2>5, PayloadForms
<1>d. CASE SynchronizeIncoming
  <2> DEFINE e == Global("synchronize_incoming_staging")
  <2>1. /\ engine.pc = "sync_incoming" /\ journal.state = "preparing"
        /\ CapturesDone /\ PayloadsDone
    BY <1>3, <1>d DEF SynchronizeIncoming, At, Reached
  <2>2. CASE (Payloads = {} \/ Done(e)) /\ Proceed("sync_recovery")
    <3>1. Reached(engine.mode, "sync_recovery", journal.state)
      BY <2>1, <2>2 DEF Reached, IncomingDone
    <3> QED  BY <1>2, <2>2, <3>1, LifecycleSteps
  <2>3. CASE \/ PublishIntent(e, "preparing") \/ RetryIntended(e)
             \/ PublishTerminal(e, "preparing")
    BY <1>2, <2>1, <2>3, LifecycleSteps
  <2>4. CASE Synchronize
    BY <1>2, <2>4, LifecycleSteps DEF Synchronize
  <2> QED  BY <1>d, <1>4, <2>1, <2>2, <2>3, <2>4
           DEF SynchronizeIncoming, SynchronizePreparation
<1>e. CASE SynchronizeRecovery
  <2> DEFINE e == Global("synchronize_recovery_staging")
  <2>1. /\ engine.pc = "sync_recovery" /\ journal.state = "preparing"
        /\ CapturesDone /\ PayloadsDone /\ IncomingDone
    BY <1>3, <1>e DEF SynchronizeRecovery, At, Reached
  <2>2. CASE (Captures = {} \/ Done(e)) /\ ProceedIn("prepared", "rejected")
    <3>1. Vouched("prepared")
      BY <2>1, <2>2 DEF Vouched, StagingDone
    <3>2. Reached(engine.mode, "rejected", "prepared")
      BY DEF Reached
    <3>3. StateMayFollow(journal.state, "prepared")
      BY <2>1 DEF StateMayFollow, Successors
    <3> QED  BY <1>2, <2>1, <2>2, <3>1, <3>2, <3>3, LifecycleSteps
  <2>3. CASE \/ PublishIntent(e, "preparing") \/ RetryIntended(e)
             \/ PublishTerminal(e, "preparing")
    BY <1>2, <2>1, <2>3, LifecycleSteps
  <2>4. CASE Synchronize
    BY <1>2, <2>4, LifecycleSteps DEF Synchronize
  <2> QED  BY <1>e, <1>4, <2>1, <2>2, <2>3, <2>4
           DEF SynchronizeRecovery, SynchronizePreparation
<1>f. CASE BeginMutation
  <2>1. journal.state = "prepared" /\ ProceedIn("mutating", "rejected")
    BY <1>f DEF BeginMutation
  <2>2. Vouched("mutating") /\ Reached(engine.mode, "rejected", "mutating")
    BY <1>3, <2>1 DEF Vouched, Reached
  <2>3. StateMayFollow(journal.state, "mutating")
    BY <2>1 DEF StateMayFollow, Successors
  <2> QED  BY <1>2, <2>1, <2>2, <2>3, LifecycleSteps
<1> QED  BY <1>a, <1>b, <1>c, <1>d, <1>e, <1>f

\* A receipt that rejected publication ends with follows mutating.
LEMMA RejectedReceipts ==
  ASSUME TypeOK, Discipline, Lifecycle, Advances, engine.mode # "off",
         journal.state = "mutating", NEW outcome \in Outcome, FailRejected(outcome)
  PROVE  Lifecycle' /\ StateAdvances
<1>1. PICK s \in {"indeterminate", "effects_visible", "abandoned"} : Resolve(outcome, s)
  BY DEF FailRejected
<1>2. StateMayFollow(journal.state, s)
  BY DEF StateMayFollow, Successors
<1> QED  BY <1>1, <1>2, LifecycleSteps

\* A restart that enters recovery after the rejected phase.
LEMMA RestartInterruptionMove ==
  ASSUME TypeOK, Discipline, Lifecycle, Advances, engine.mode # "off",
         RejectedDone, RejectedStoreDone, Disposition = "resume_recovery",
         RestartInterruption
  PROVE  Lifecycle' /\ StateAdvances
<1>1. journal \in Journals /\ engine \in Sessions
  BY TypedParts
<1>2. journal.receipt = "none" /\ Vouched(journal.state)
  BY LiveSession
<1>3. journal.state \in {"mutating", "recovery_pending", "recovering"}
  BY <1>2 DEF Disposition, Vouched
<1>4. CASE Raise("no_interrupted_effect") /\ UNCHANGED journal
  BY <1>4, LifecycleSteps
<1>5. ASSUME \/ engine' = [engine EXCEPT !.pc = "recover", !.cause = RestartCause]
             \/ Raise("interruption_durability"),
             \/ UNCHANGED journal /\ journal.state = "recovering"
             \/ \E s \in {"indeterminate", "recovery_pending"} :
                  AppendState(s) /\ journal.state # "recovering"
      PROVE  Lifecycle' /\ StateAdvances
  <2>1. PICK s \in {"indeterminate", "recovery_pending", "recovering"} :
          journal'.state = s /\ (journal.state = "recovering" <=> s = "recovering")
    BY <1>1, <1>5 DEF AppendState, Journals
  <2>2. StateMayFollow(journal.state, s)
    BY <1>3, <2>1 DEF StateMayFollow, Successors
  <2>3. Vouched(s)
    BY <1>2, <1>3 DEF Vouched
  <2>4. Reached(engine.mode, "recover", s)
    BY DEF Reached
  <2>5. VerdictReached' /\ (engine'.mode # "off" =>
                              engine'.pc = "recover" /\ engine'.mode = engine.mode)
    <3>1. CASE engine' = [engine EXCEPT !.pc = "recover", !.cause = RestartCause]
      <4>1. engine'.pc = "recover" /\ engine'.mode = engine.mode
        BY <1>1, <3>1 DEF Sessions
      <4> QED  BY <4>1 DEF VerdictReached
    <3>2. CASE Raise("interruption_durability")
      BY <3>2 DEF Raise, Stop, Session, VerdictReached
    <3> QED  BY <1>5, <3>1, <3>2
  <2> QED  BY <1>2, <2>1, <2>2, <2>3, <2>4, <2>5, LifecycleMove
<1> QED  BY <1>4, <1>5 DEF RestartInterruption

\* Rejected publication, fresh or resumed.
LEMMA RejectedLifecycle ==
  ASSUME TypeOK, Discipline, Lifecycle, Advances,
         \/ PublishRejected
         \/ SynchronizeRejected(RejectedPublished)
         \/ SynchronizeRejected(ResumeAfterRejected)
  PROVE  Lifecycle' /\ StateAdvances
<1>1. journal \in Journals /\ engine \in Sessions
  BY TypedParts
<1>2. engine.mode # "off"
  BY DEF PublishRejected, SynchronizeRejected, At
<1>3. /\ journal.receipt = "none" /\ Vouched(journal.state)
      /\ Reached(engine.mode, engine.pc, journal.state)
  BY <1>2, LiveSession
<1>4. {"indeterminate", "failed_before_target_mutation",
       "effects_visible_durability_unconfirmed"} \subseteq Outcome
  BY DEF Outcome
<1>a. CASE PublishRejected
  <2>1. engine.pc = "rejected" /\ journal.state \notin {"preparing", "prepared"}
    BY <1>3, <1>a DEF PublishRejected, At, Reached
  <2>2. CASE /\ Unfinished("publish_rejected_object", RejectedOrder) = {}
             /\ Proceed("sync_rejected")
    <3>1. Reached(engine.mode, "sync_rejected", journal.state)
      BY <1>3, <2>1, <2>2, PhaseFinished DEF Reached
    <3> QED  BY <1>2, <2>2, <3>1, LifecycleSteps
  <2>3. ASSUME NEW e, Turn(e), ~Done(e) PROVE journal.state = "mutating"
    <3>1. ~RejectedDone
      BY <2>1, <2>3, WalkedEffects
    <3> QED  BY <1>3, <2>1, <3>1 DEF Vouched
  <2>4. ASSUME NEW e, Turn(e), ~Done(e),
               PublishIntent(e, "mutating") \/ PublishTerminal(e, "mutating")
        PROVE  Lifecycle' /\ StateAdvances
    BY <1>2, <2>3, <2>4, LifecycleSteps
  <2>5. ASSUME NEW e, ExecuteRejected(e) PROVE Lifecycle' /\ StateAdvances
    BY <1>2, <2>5, LifecycleSteps DEF ExecuteRejected
  <2>6. ASSUME NEW e, Turn(e), ~Done(e), NEW outcome \in Outcome, FailRejected(outcome)
        PROVE  Lifecycle' /\ StateAdvances
    BY <1>2, <2>3, <2>6, RejectedReceipts
  <2> QED  BY <1>a, <1>4, <2>2, <2>4, <2>5, <2>6, RejectedForms
<1>b. ASSUME NEW published \in BOOLEAN,
             published => RejectedPublished \/ ResumeAfterRejected,
             At("sync_rejected"),
             LET e == Global("synchronize_rejected_store")
                 skip == RejectedOrder = << >> \/ ~AllDomains
             IN  \/ skip /\ published
                 \/ /\ ~skip
                    /\ \/ PublishIntent(e, "mutating")
                       \/ RetryIntended(e)
                       \/ Synchronize
                       \/ PublishTerminal(e, "mutating")
                       \/ /\ Idle /\ Terminal(e) = "indeterminate"
                          /\ FailRejected("indeterminate")
                       \/ /\ Idle /\ Terminal(e) = "failed"
                          /\ FailRejected("effects_visible_durability_unconfirmed")
                       \/ Idle /\ Done(e) /\ published
      PROVE  Lifecycle' /\ StateAdvances
  <2> DEFINE e == Global("synchronize_rejected_store")
             skip == RejectedOrder = << >> \/ ~AllDomains
  <2>1. /\ engine.pc = "sync_rejected" /\ RejectedDone
        /\ journal.state \notin {"preparing", "prepared"}
    BY <1>3, <1>b DEF At, Reached
  <2>2. skip \/ Done(e) => RejectedStoreDone
    <3>1. RejectedOrder = << >> => Rejecteds = {}
      BY DEF Rejecteds, Elements
    <3> QED  BY <3>1 DEF RejectedStoreDone
  <2>3. ~skip /\ ~Done(e) => journal.state = "mutating"
    <3>1. ~skip => Rejecteds # {} /\ AllDomains
      <4>1. ~skip => e \in Effects
        BY SynchronizedDomains
      <4>2. e \in Effects => "synchronize_rejected_store" \in DeclaredKinds
        BY DEF Effects, Global, On
      <4> QED  BY <4>1, <4>2 DEF DeclaredKinds
    <3>2. ~skip /\ ~Done(e) => ~RejectedStoreDone
      BY <3>1 DEF RejectedStoreDone
    <3> QED  BY <1>3, <2>1, <3>2 DEF Vouched
  <2>4. ASSUME RejectedStoreDone, published PROVE Lifecycle' /\ StateAdvances
    <3>1. CASE RejectedPublished
      <4>1. Reached(engine.mode, "active", journal.state)
        BY <1>3, <2>1, <2>4, <3>1 DEF Reached, RejectedPublished
      <4> QED  BY <1>2, <3>1, <4>1, LifecycleSteps DEF RejectedPublished
    <3>2. CASE Disposition = "resume_recovery" /\ RestartInterruption
      BY <1>2, <2>1, <2>4, <3>2, RestartInterruptionMove
    <3>3. CASE Disposition = "resume_forward" /\ Proceed("active")
      <4>1. journal.state \in {"mutating", "effects_visible", "result_observed"}
        BY <1>3, <2>1, <3>3 DEF Disposition, Vouched
      <4>2. Reached(engine.mode, "active", journal.state)
        BY <2>1, <2>4, <4>1 DEF Reached
      <4> QED  BY <1>2, <3>3, <4>2, LifecycleSteps
    <3> QED  BY <1>b, <2>4, <3>1, <3>2, <3>3 DEF ResumeAfterRejected
  <2>5. CASE ~skip /\ (PublishIntent(e, "mutating") \/ PublishTerminal(e, "mutating"))
    <3>1. ~Done(e)
      <4>1. PublishIntent(e, "mutating") => ~Done(e)
        BY TerminalValues DEF PublishIntent, Intended
      <4>2. ASSUME PublishTerminal(e, "mutating") PROVE ~Done(e)
        <5>1. engine.call # "idle"
          BY <4>2 DEF PublishTerminal, Fact, OperationFact, DurabilityFact
        <5>2. Turn(e) /\ engine.pc \notin Walks
          BY <2>1 DEF Turn, Walks
        <5>3. journal.progress[e] = "intent"
          BY <2>1, <5>1, <5>2, EffectCalled
        <5> QED  BY <5>3, TerminalValues
      <4> QED  BY <2>5, <4>1, <4>2
    <3> QED  BY <1>2, <2>3, <2>5, <3>1, LifecycleSteps
  <2>6. CASE RetryIntended(e) \/ Synchronize
    BY <1>2, <2>6, LifecycleSteps DEF Synchronize
  <2>7. CASE ~skip /\ \/ /\ Terminal(e) = "indeterminate"
                         /\ FailRejected("indeterminate")
                      \/ /\ Terminal(e) = "failed"
                         /\ FailRejected("effects_visible_durability_unconfirmed")
    BY <1>2, <1>4, <2>3, <2>7, RejectedReceipts DEF Done
  <2> QED  BY <1>b, <2>2, <2>4, <2>5, <2>6, <2>7
<1>c. CASE SynchronizeRejected(RejectedPublished)
  BY <1>c, <1>b DEF SynchronizeRejected
<1>d. CASE SynchronizeRejected(ResumeAfterRejected)
  BY <1>d, <1>b DEF SynchronizeRejected
<1> QED  BY <1>a, <1>c, <1>d

\* Active execution and its synchronization, fresh or resumed.
LEMMA ActiveLifecycle ==
  ASSUME TypeOK, Discipline, Lifecycle, Advances,
         \/ ExecuteActiveEffects \/ SynchronizeActive
         \/ InterruptSynchronization \/ ResumeInterruptSynchronization
  PROVE  Lifecycle' /\ StateAdvances
<1>1. journal \in Journals /\ engine \in Sessions
  BY TypedParts
<1>2. engine.mode # "off" /\ engine.pc \in {"active", "sync_active"}
  BY DEF ExecuteActiveEffects, SynchronizeActive, InterruptSynchronization,
         ResumeInterruptSynchronization, At
<1>3. /\ journal.receipt = "none" /\ Vouched(journal.state)
      /\ Reached(engine.mode, engine.pc, journal.state)
  BY <1>2, LiveSession
<1>4. /\ journal.state \in {"mutating", "effects_visible", "result_observed"}
      /\ RejectedDone /\ RejectedStoreDone
  BY <1>2, <1>3 DEF Reached
<1>5. \A cause : Interrupt(cause) => Lifecycle' /\ StateAdvances
  BY <1>2, <1>4, InterruptMove
<1>a. CASE ExecuteActiveEffects
  <2>1. engine.pc = "active"
    BY <1>a DEF ExecuteActiveEffects, At
  <2>2. CASE /\ Unfinished("publish_active_object", ActiveOrder) = {}
             /\ Proceed("sync_active")
    <3>1. Reached(engine.mode, "sync_active", journal.state)
      BY <1>4, <2>2, PhaseFinished DEF Reached
    <3> QED  BY <1>2, <2>2, <3>1, LifecycleSteps
  <2>3. ASSUME NEW e, Turn(e), ~Done(e),
               PublishIntent(e, "mutating") \/ PublishTerminal(e, "mutating")
        PROVE  Lifecycle' /\ StateAdvances
    <3>1. ~ActiveDone
      BY <2>1, <2>3, WalkedEffects
    <3>2. journal.state = "mutating"
      BY <1>3, <1>4, <3>1 DEF Vouched
    <3> QED  BY <1>2, <2>3, <3>2, LifecycleSteps
  <2>4. ASSUME NEW e, ExecuteActive(e) PROVE Lifecycle' /\ StateAdvances
    BY <1>2, <2>4, LifecycleSteps DEF ExecuteActive
  <2> QED  BY <1>a, <1>5, <2>2, <2>3, <2>4, ActiveForms
<1>b. CASE SynchronizeActive
  <2> DEFINE e == ActiveSynchronization
  <2>1. engine.pc = "sync_active" /\ ActiveDone
    BY <1>3, <1>b DEF SynchronizeActive, At, Reached
  <2>2. CASE (SkipActiveSynchronization \/ Done(e)) /\ EffectsVisible
    <3>1. CASE journal.state = "result_observed"
      <4>1. Reached(engine.mode, "observe", journal.state)
        BY <3>1 DEF Reached
      <4> QED  BY <1>2, <2>2, <3>1, <4>1, LifecycleSteps DEF EffectsVisible
    <3>2. CASE journal.state # "result_observed"
      <4>1. Vouched("effects_visible")
        BY <1>3, <1>4, <2>1, <2>2 DEF Vouched, NamespaceDone
      <4>2. Reached(engine.mode, "observe", "effects_visible")
        BY DEF Reached
      <4>3. StateMayFollow(journal.state, "effects_visible")
        BY <1>4, <3>2 DEF StateMayFollow, Successors
      <4> QED  BY <1>2, <1>4, <2>2, <3>2, <4>1, <4>2, <4>3, LifecycleSteps DEF EffectsVisible
    <3> QED  BY <3>1, <3>2
  <2>3. CASE /\ ~SkipActiveSynchronization
             /\ PublishIntent(e, "mutating") \/ PublishTerminal(e, "mutating")
    <3>1. ~Done(e)
      <4>1. PublishIntent(e, "mutating") => ~Done(e)
        BY TerminalValues DEF PublishIntent, Intended
      <4>2. ASSUME PublishTerminal(e, "mutating") PROVE ~Done(e)
        <5>1. engine.call # "idle"
          BY <4>2 DEF PublishTerminal, Fact, OperationFact, DurabilityFact
        <5>2. Turn(e) /\ engine.pc \notin Walks
          BY <2>1 DEF Turn, Walks
        <5>3. journal.progress[e] = "intent"
          BY <2>1, <5>1, <5>2, EffectCalled
        <5> QED  BY <5>3, TerminalValues
      <4> QED  BY <2>3, <4>1, <4>2
    <3>2. journal.state = "mutating"
      BY <1>3, <1>4, <2>3, <3>1 DEF Vouched, NamespaceDone
    <3> QED  BY <1>2, <2>3, <3>2, LifecycleSteps
  <2>4. CASE RetryIntended(e) \/ Synchronize
    BY <1>2, <2>4, LifecycleSteps DEF Synchronize
  <2> QED  BY <1>b, <2>2, <2>3, <2>4 DEF SynchronizeActive
<1>c. CASE InterruptSynchronization
  BY <1>5, <1>c DEF InterruptSynchronization
<1>d. CASE ResumeInterruptSynchronization
  <2>1. CASE \E cause : Interrupt(cause)
    BY <1>5, <2>1
  <2>2. CASE AppendState("recovery_pending") /\ Raise("interruption_durability")
    <3>1. journal'.state = "recovery_pending"
      BY <1>1, <2>2 DEF AppendState, Journals
    <3>2. StateMayFollow(journal.state, "recovery_pending")
      BY <1>4 DEF StateMayFollow, Successors
    <3>3. Vouched("recovery_pending")
      BY <1>3, <1>4 DEF Vouched
    <3>4. engine'.mode = "off" /\ VerdictReached'
      BY <2>2 DEF Raise, Stop, Session, VerdictReached
    <3> QED  BY <1>3, <1>4, <3>1, <3>2, <3>3, <3>4, LifecycleMove
  <2> QED  BY <1>d, <2>1, <2>2 DEF ResumeInterruptSynchronization
<1> QED  BY <1>a, <1>b, <1>c, <1>d

\* Observation of the result, fresh or resumed.
LEMMA ObservationLifecycle ==
  ASSUME TypeOK, Discipline, Lifecycle, Advances,
         ObserveIntent \/ Observe \/ RecordObservation \/ JudgeObservation
  PROVE  Lifecycle' /\ StateAdvances
<1>1. journal \in Journals /\ engine \in Sessions
  BY TypedParts
<1>2. engine.mode # "off" /\ engine.pc = "observe"
  BY DEF ObserveIntent, Observe, RecordObservation, JudgeObservation, At
<1>3. /\ journal.receipt = "none" /\ Vouched(journal.state)
      /\ Reached(engine.mode, "observe", journal.state)
  BY <1>2, LiveSession
<1>4. /\ journal.state \in {"effects_visible", "result_observed"}
      /\ RejectedDone /\ RejectedStoreDone
  BY <1>3 DEF Reached, Vouched
<1>5. ASSUME journal'.state = "effects_visible", engine'.mode = engine.mode,
             engine'.pc = "observe"
      PROVE  Lifecycle' /\ StateAdvances
  <2>1. StateMayFollow(journal.state, "effects_visible")
    BY <1>4 DEF StateMayFollow, Successors
  <2>2. Vouched("effects_visible") /\ Reached(engine.mode, "observe", "effects_visible")
    BY <1>3, <1>4 DEF Vouched, Reached
  <2>3. VerdictReached'
    BY <1>5 DEF VerdictReached
  <2> QED  BY <1>3, <1>4, <1>5, <2>1, <2>2, <2>3, LifecycleMove
<1>6. \A e : \A event : AppendEvent(e, "effects_visible", event)
                => journal'.state = "effects_visible"
  BY <1>1 DEF AppendEvent, Journals
<1>a. CASE ObserveIntent \/ RecordObservation
  <2>1. journal'.state = "effects_visible" /\ UNCHANGED engine
    BY <1>6, <1>a DEF ObserveIntent, RecordObservation
  <2> QED  BY <1>2, <1>5, <2>1
<1>b. CASE Observe
  <2>1. engine'.mode = engine.mode /\ engine'.pc = "observe" /\ UNCHANGED journal
    BY <1>1, <1>2, <1>b DEF Observe, Sessions
  <2>2. VerdictReached'
    BY <2>1 DEF VerdictReached
  <2>3. PICK s : s = journal.state
    OBVIOUS
  <2> QED  BY <1>3, <2>1, <2>2, <2>3, LifecycleMove DEF StateMayFollow
<1>c. CASE JudgeObservation
  <2>1. CASE \E cause : Interrupt(cause)
    BY <1>2, <1>4, <2>1, InterruptMove
  <2>2. Vouched("result_observed")
        /\ Reached(engine.mode, "publish_evidence", "result_observed")
    BY <1>3, <1>4 DEF Vouched, Reached
  <2>3. CASE journal.state = "result_observed" /\ Proceed("publish_evidence")
    BY <1>2, <2>2, <2>3, LifecycleSteps
  <2>4. CASE ProceedIn("result_observed", "publish_evidence")
    <3>1. StateMayFollow(journal.state, "result_observed")
      BY <1>4 DEF StateMayFollow, Successors
    <3> QED  BY <1>2, <1>4, <2>2, <2>4, <3>1, LifecycleSteps
  <2> QED  BY <1>c, <2>1, <2>3, <2>4 DEF JudgeObservation
<1> QED  BY <1>a, <1>b, <1>c

\* Completion moves to sealing under a verdict the journal may end in.
LEMMA SealMove ==
  ASSUME TypeOK, Discipline, Lifecycle, Advances, engine.mode # "off",
         journal.state = "result_observed", journal'.state = "result_observed",
         NEW verdict,
         verdict.state \in {"application_completed", "effects_visible", "indeterminate"},
         SealWith(verdict)
  PROVE  Lifecycle' /\ StateAdvances
<1>1. engine \in Sessions
  BY TypedParts
<1>2. /\ engine'.mode = engine.mode /\ engine'.pc = "seal"
      /\ engine'.verdict = verdict
  BY <1>1 DEF SealWith, Sessions
<1>3. journal.receipt = "none" /\ Vouched("result_observed")
  BY LiveSession
<1>4. Reached(engine.mode, "seal", "result_observed") /\ VerdictReached'
  BY <1>2 DEF Reached, VerdictReached
<1> QED  BY <1>2, <1>3, <1>4, LifecycleMove DEF StateMayFollow

\* Publication and synchronization of completed evidence, fresh or resumed.
LEMMA EvidenceLifecycle ==
  ASSUME TypeOK, Discipline, Lifecycle, Advances,
         \/ PublishCompletedEvidence \/ ResumePublication
         \/ SynchronizeCompletedEvidence \/ ResumeSynchronization
  PROVE  Lifecycle' /\ StateAdvances
<1>1. journal \in Journals /\ engine \in Sessions
  BY TypedParts
<1>2. engine.mode # "off" /\ engine.pc \in {"publish_evidence", "sync_evidence"}
  BY DEF PublishCompletedEvidence, ResumePublication, SynchronizeCompletedEvidence,
         ResumeSynchronization, At
<1>3. /\ journal.receipt = "none" /\ Vouched("result_observed")
      /\ journal.state = "result_observed"
  BY <1>2, LiveSession DEF Reached
<1>4. Reached(engine.mode, "sync_evidence", "result_observed")
  BY DEF Reached
<1>5. /\ \A event : EvidenceVerdict(event).state \in {"effects_visible", "indeterminate"}
      /\ CompletedVerdict.state = "application_completed"
  BY DEF EvidenceVerdict, CompletedVerdict
<1>6. ASSUME NEW event, EvidenceSynchronized(event),
             journal'.state = "result_observed"
      PROVE  Lifecycle' /\ StateAdvances
  <2>1. PICK verdict \in {CompletedVerdict, EvidenceVerdict(event)} : SealWith(verdict)
    BY <1>6 DEF EvidenceSynchronized
  <2>2. verdict.state \in {"application_completed", "effects_visible", "indeterminate"}
    BY <1>5
  <2> QED  BY <1>2, <1>3, <1>6, <2>1, <2>2, SealMove
<1>7. ASSUME NEW event, SealWith(EvidenceVerdict(event)),
             journal'.state = "result_observed"
      PROVE  Lifecycle' /\ StateAdvances
  <2>1. PICK verdict : verdict = EvidenceVerdict(event)
    OBVIOUS
  <2>2. SealWith(verdict)
    BY <1>7, <2>1
  <2> QED  BY <1>2, <1>3, <1>5, <1>7, <2>1, <2>2, SealMove
<1>8. ASSUME NEW call, engine' = [engine EXCEPT !.call = call], UNCHANGED journal
      PROVE  Lifecycle' /\ StateAdvances
  <2>1. /\ engine'.mode = engine.mode /\ engine'.pc = engine.pc
    BY <1>1, <1>8 DEF Sessions
  <2>2. PICK pc : pc = engine.pc
    OBVIOUS
  <2>3. Reached(engine.mode, pc, "result_observed")
    BY <1>2, <2>2 DEF Reached
  <2>4. VerdictReached'
    BY <1>2, <2>1 DEF VerdictReached
  <2> QED  BY <1>3, <1>8, <2>1, <2>2, <2>3, <2>4, LifecycleMove DEF StateMayFollow
<1>9. ASSUME NEW e, \/ PublishIntent(e, "result_observed") \/ RetryIntended(e)
      PROVE  Lifecycle' /\ StateAdvances
  BY <1>2, <1>3, <1>9, LifecycleSteps
<1>a. CASE PublishCompletedEvidence
  <2>1. CASE PublishEvidenceRecord
    BY <1>2, <2>1, LifecycleSteps DEF PublishEvidenceRecord
  <2>2. CASE RecordEvidence
    <3>1. journal'.state = "result_observed"
      BY <1>1, <2>2 DEF RecordEvidence, Journals
    <3>2. CASE Goto("sync_evidence")
      <4>1. engine'.mode = engine.mode /\ engine'.pc = "sync_evidence" /\ VerdictReached'
        BY <1>1, <3>2 DEF Goto, Sessions, VerdictReached
      <4> QED  BY <1>3, <1>4, <3>1, <4>1, LifecycleMove DEF StateMayFollow
    <3> QED  BY <1>7, <2>2, <3>1, <3>2 DEF RecordEvidence
  <2> QED  BY <1>9, <1>a, <2>1, <2>2 DEF PublishCompletedEvidence
<1>b. CASE ResumePublication
  <2>1. CASE Proceed("sync_evidence")
    BY <1>2, <1>3, <1>4, <2>1, LifecycleSteps
  <2>2. CASE SealWith(EvidenceVerdict(engine.call)) /\ UNCHANGED journal
    BY <1>3, <1>7, <2>2
  <2>3. CASE Raise("completed_evidence_contradicts_journal") /\ UNCHANGED journal
    BY <1>2, <2>3, LifecycleSteps
  <2> QED  BY <1>8, <1>b, <2>1, <2>2, <2>3 DEF ResumePublication
<1>c. CASE SynchronizeCompletedEvidence
  <2>1. CASE SynchronizeEvidence
    BY <1>2, <2>1, LifecycleSteps DEF SynchronizeEvidence
  <2>2. CASE /\ AppendEvent(SyncEvidence, "result_observed", engine.call)
             /\ EvidenceSynchronized(TerminalEvent(SyncEvidence, engine.call))
    <3>1. journal'.state = "result_observed"
      BY <1>1, <2>2 DEF AppendEvent, Journals
    <3> QED  BY <1>6, <2>2, <3>1
  <2> QED  BY <1>9, <1>c, <2>1, <2>2 DEF SynchronizeCompletedEvidence
<1>d. CASE ResumeSynchronization
  <2>1. UNCHANGED journal
    BY <1>d DEF ResumeSynchronization
  <2>2. CASE \E event : EvidenceSynchronized(event)
    BY <1>3, <1>6, <2>1, <2>2
  <2> QED  BY <1>8, <1>d, <2>1, <2>2 DEF ResumeSynchronization
<1> QED  BY <1>a, <1>b, <1>c, <1>d

\* Sealing: the intent in the observed state, then the verdict's state.
LEMMA SealLifecycle ==
  ASSUME TypeOK, Discipline, Lifecycle, Advances, SealTerminalReceipt
  PROVE  Lifecycle' /\ StateAdvances
<1>1. journal \in Journals /\ engine \in Sessions
  BY TypedParts
<1>2. engine.mode # "off" /\ engine.pc = "seal"
  BY DEF SealTerminalReceipt, At
<1>3. /\ journal.receipt = "none" /\ journal.state = "result_observed"
      /\ engine.verdict.outcome \in Outcome
      /\ engine.verdict.state \in {"application_completed", "effects_visible",
                                   "indeterminate"}
  BY <1>2, LiveSession DEF Reached, Discipline, SessionOpen, Lifecycle, VerdictReached
<1>4. CASE AppendEvent(Seal, journal.state, "intent") /\ UNCHANGED engine
  BY <1>2, <1>4, LifecycleSteps
<1>5. CASE /\ journal' = [journal EXCEPT !.state = engine.verdict.state,
                                         !.progress[Seal] = "completed",
                                         !.receipt = engine.verdict.outcome,
                                         !.evidence = engine.verdict.evidence]
           /\ Stop
  <2>1. journal'.state = engine.verdict.state /\ journal'.receipt = engine.verdict.outcome
    BY <1>1, <1>5 DEF Journals
  <2>2. engine'.mode = "off" /\ VerdictReached'
    BY <1>5 DEF Stop, Session, VerdictReached
  <2>3. PICK s \in {"application_completed", "effects_visible", "indeterminate"} :
          s = engine.verdict.state
    BY <1>3
  <2>4. StateMayFollow(journal.state, s)
    BY <1>3 DEF StateMayFollow, Successors
  <2>5. journal'.receipt # "none"
    BY <1>3, <2>1 DEF Outcome
  <2> QED  BY <1>3, <2>1, <2>2, <2>3, <2>4, <2>5, LifecycleMove
<1>6. CASE Raise("unfinished_effects") /\ UNCHANGED journal
  BY <1>2, <1>6, LifecycleSteps
<1> QED  BY <1>4, <1>5, <1>6 DEF SealTerminalReceipt

\* Recovery, fresh or resumed.
LEMMA RecoveryLifecycle ==
  ASSUME TypeOK, Discipline, Lifecycle, Advances,
         \/ RecoverNothing \/ RecoverUnselected \/ BeginRecovery \/ RecoverCandidates
         \/ SynchronizeRecovered \/ ConcludeRecovery \/ ResumeConcludeRecovery
  PROVE  Lifecycle' /\ StateAdvances
<1>1. /\ engine.mode # "off" /\ engine.pc \in {"recover", "sync_recovered", "conclude"}
  BY DEF RecoverNothing, RecoverUnselected, BeginRecovery, RecoverCandidates,
         SynchronizeRecovered, ConcludeRecovery, ResumeConcludeRecovery, At
<1>2. /\ journal.receipt = "none" /\ Vouched(journal.state)
      /\ journal.state \in {"recovery_pending", "indeterminate", "recovering"}
      /\ engine.pc \in {"sync_recovered", "conclude"} => journal.state = "recovering"
  BY <1>1, LiveSession DEF Reached
<1>3. {"failed_before_target_mutation", "effects_visible_durability_unconfirmed",
       "failed_with_partial_effects", "indeterminate"}
        \subseteq Outcome \ {"failed_fully_recovered"}
      /\ "failed_fully_recovered" \in Outcome
  BY DEF Outcome
<1>4. ASSUME NEW outcome \in Outcome, SealRecoveryReceipt(outcome),
             outcome = "failed_fully_recovered" => journal.state = "recovering"
      PROVE  Lifecycle' /\ StateAdvances
  <2>1. PICK s \in {"recovered", "indeterminate", "effects_visible", "abandoned"} :
          s = FailureState(outcome)
    BY DEF FailureState
  <2>2. s = "recovered" => journal.state = "recovering"
    BY <1>4, <2>1 DEF FailureState
  <2>3. StateMayFollow(journal.state, s)
    BY <1>2, <2>2 DEF StateMayFollow, Successors
  <2>4. Resolve(outcome, s)
    BY <1>4, <2>1 DEF SealRecoveryReceipt
  <2> QED  BY <1>1, <2>3, <2>4, LifecycleSteps
<1>5. ASSUME journal.state = "recovering"
      PROVE  /\ Reached(engine.mode, "conclude", journal.state)
             /\ Reached(engine.mode, "sync_recovered", journal.state)
  BY <1>5 DEF Reached
<1>6. ASSUME NEW e, journal.state = "recovering",
             PublishIntent(e, "recovering") \/ PublishTerminal(e, "recovering")
      PROVE  Lifecycle' /\ StateAdvances
  BY <1>1, <1>6, LifecycleSteps
<1>a. CASE RecoverNothing
  BY <1>1, <1>3, <1>4, <1>a, LifecycleSteps DEF RecoverNothing
<1>b. CASE RecoverUnselected
  <2>1. \E outcome \in Outcome \ {"failed_fully_recovered"} : SealRecoveryReceipt(outcome)
    BY <1>3, <1>b DEF RecoverUnselected
  <2> QED  BY <1>4, <2>1
<1>c. CASE BeginRecovery
  <2>1. Vouched("recovering") /\ Reached(engine.mode, "recover", "recovering")
    BY <1>2 DEF Vouched, Reached
  <2>2. StateMayFollow(journal.state, "recovering")
    BY <1>2 DEF StateMayFollow, Successors
  <2> QED  BY <1>1, <1>c, <2>1, <2>2, LifecycleSteps DEF BeginRecovery
<1>d. CASE RecoverCandidates
  <2>1. journal.state = "recovering"
    BY <1>d DEF RecoverCandidates
  <2>2. \A e : Recover(e) => Lifecycle' /\ StateAdvances
    BY <1>1, LifecycleSteps DEF Recover
  <2>3. Proceed("conclude") \/ Proceed("sync_recovered") => Lifecycle' /\ StateAdvances
    BY <1>1, <1>5, <2>1, LifecycleSteps
  <2> QED  BY <1>6, <1>d, <2>1, <2>2, <2>3, RecoveryForms
<1>e. CASE SynchronizeRecovered
  <2>1. journal.state = "recovering"
    BY <1>2, <1>e DEF SynchronizeRecovered, At
  <2>2. Proceed("conclude") => Lifecycle' /\ StateAdvances
    BY <1>1, <1>5, <2>1, LifecycleSteps
  <2>3. Synchronize => Lifecycle' /\ StateAdvances
    BY <1>1, LifecycleSteps DEF Synchronize
  <2> QED  BY <1>6, <1>e, <2>1, <2>2, <2>3 DEF SynchronizeRecovered
<1>f. CASE ConcludeRecovery \/ ResumeConcludeRecovery
  <2>1. journal.state = "recovering"
    BY <1>2, <1>f DEF ConcludeRecovery, ResumeConcludeRecovery, At
  <2>2. \E outcome \in Outcome : SealRecoveryReceipt(outcome)
    <3>1. CASE ConcludeRecovery
      BY <1>3, <3>1 DEF ConcludeRecovery
    <3>2. CASE ResumeConcludeRecovery
      BY <1>3, <3>2 DEF ResumeConcludeRecovery
    <3> QED  BY <1>f, <3>1, <3>2
  <2> QED  BY <1>4, <2>1, <2>2
<1> QED  BY <1>a, <1>b, <1>c, <1>d, <1>e, <1>f

\* A session ends in a crash, or one begins where the journal stands.
LEMMA ProcessLifecycle ==
  ASSUME TypeOK, Discipline, Lifecycle, Advances, Reopen \/ Crash
  PROVE  Lifecycle' /\ StateAdvances
<1>1. journal \in Journals /\ engine \in Sessions
  BY TypedParts
<1>2. Stop => engine'.mode = "off" /\ VerdictReached'
  BY DEF Stop, Session, VerdictReached
<1>3. journal.receipt = "none" /\ Vouched(journal.state)
  BY ResumableOpen
     DEF Reopen, Crash, Discipline, SessionOpen, Lifecycle, StateReached
<1>4. PICK s : s = journal.state
  OBVIOUS
<1>5. StateMayFollow(journal.state, s)
  BY <1>4 DEF StateMayFollow
<1>a. CASE Stop /\ UNCHANGED journal
  BY <1>2, <1>3, <1>4, <1>5, <1>a, LifecycleMove
<1>b. CASE Reopen
  <2>1. ASSUME NEW pc \in {"rejected", "captures"}, NEW v,
               engine' = Session("resumed", pc, v), UNCHANGED journal,
               journal.state = "preparing" <=> pc = "captures"
        PROVE  Lifecycle' /\ StateAdvances
    <3>1. engine'.mode = "resumed" /\ engine'.pc = pc /\ VerdictReached'
      BY <2>1 DEF Session, VerdictReached
    <3>2. Reached("resumed", pc, s)
      BY <1>4, <2>1 DEF Reached
    <3> QED  BY <1>3, <1>4, <1>5, <2>1, <3>1, <3>2, LifecycleMove
  <2>2. CASE /\ journal.state = "preparing"
             /\ PublishReceipt("failed_before_target_mutation", "abandoned")
    <3>1. journal'.state = "abandoned" /\ journal'.receipt # "none"
      BY <1>1, <2>2 DEF PublishReceipt, Journals
    <3>2. StateMayFollow(journal.state, "abandoned")
      BY <2>2 DEF StateMayFollow, Successors
    <3> QED  BY <1>2, <1>3, <2>2, <3>1, <3>2, LifecycleMove DEF PublishReceipt
  <2> QED  BY <1>a, <1>b, <2>1, <2>2 DEF Reopen, Raise
<1> QED  BY <1>a, <1>b DEF Crash

\* Every step, whatever session takes it.
LEMMA LifecycleStep ==
  ASSUME TypeOK, Discipline, Lifecycle, [Next]_vars
  PROVE  Lifecycle' /\ StateAdvances
<1>0. Advances
  BY DisciplineStep
<1>1. CASE \/ Admit \/ CaptureOldObjects \/ StageIncomingPayloads
           \/ SynchronizeIncoming \/ SynchronizeRecovery \/ BeginMutation
  BY <1>0, <1>1, PreparationLifecycle
<1>2. CASE \/ PublishRejected
           \/ SynchronizeRejected(RejectedPublished)
           \/ SynchronizeRejected(ResumeAfterRejected)
  BY <1>0, <1>2, RejectedLifecycle
<1>3. CASE \/ ExecuteActiveEffects \/ SynchronizeActive
           \/ InterruptSynchronization \/ ResumeInterruptSynchronization
  BY <1>0, <1>3, ActiveLifecycle
<1>4. CASE ObserveIntent \/ Observe \/ RecordObservation \/ JudgeObservation
  BY <1>0, <1>4, ObservationLifecycle
<1>5. CASE \/ PublishCompletedEvidence \/ ResumePublication
           \/ SynchronizeCompletedEvidence \/ ResumeSynchronization
  BY <1>0, <1>5, EvidenceLifecycle
<1>6. CASE SealTerminalReceipt
  BY <1>0, <1>6, SealLifecycle
<1>7. CASE \/ RecoverNothing \/ RecoverUnselected \/ BeginRecovery
           \/ RecoverCandidates \/ SynchronizeRecovered
           \/ ConcludeRecovery \/ ResumeConcludeRecovery
  BY <1>0, <1>7, RecoveryLifecycle
<1>8. CASE Reopen \/ Crash
  BY <1>0, <1>8, ProcessLifecycle
<1>9. CASE UNCHANGED vars
  <2>1. PICK s, mode, pc : s = journal.state /\ mode = engine.mode /\ pc = engine.pc
    OBVIOUS
  <2>2. /\ Vouched(s) => Vouched(s)'
        /\ Reached(mode, pc, s) => Reached(mode, pc, s)'
    BY <1>0, VouchedStays
  <2>3. StateReached' /\ PhaseReached' /\ VerdictReached'
    BY <1>9, <2>1, <2>2 DEF vars, Lifecycle, StateReached, PhaseReached, VerdictReached
  <2>4. StateAdvances
    BY <1>9 DEF vars, StateAdvances, StateMayFollow
  <2> QED  BY <2>3, <2>4 DEF Lifecycle
<1> QED
  BY <1>1, <1>2, <1>3, <1>4, <1>5, <1>6, <1>7, <1>8, <1>9
     DEF Next, EngineStep, FreshStep, RestartStep

\* The initial state of an attempt.
LEMMA LifecycleInit == Init => Lifecycle
<1> SUFFICES ASSUME Init PROVE Lifecycle
  OBVIOUS
<1>1. /\ journal.state = "preparing" /\ engine.mode = "fresh" /\ engine.pc = "admit"
  BY DEF Init, Session
<1>2. Vouched("preparing") /\ Reached("fresh", "admit", "preparing")
  BY DEF Vouched, Reached
<1> QED  BY <1>1, <1>2 DEF Lifecycle, StateReached, PhaseReached, VerdictReached

----------------------------------------------------------------------------
(***************************************************************************)
(* The lifecycle theorems.                                                 *)
(***************************************************************************)
\* A state the journal carries, and a position a session stands at, vouch for
\* the phases behind them in every reachable state, so a restart that trusts
\* the journal alone finds them complete.
THEOREM LifecycleHolds == Spec => []Lifecycle
<1>1. Init => Lifecycle
  BY LifecycleInit
<1>2. TypeOK /\ Discipline /\ Lifecycle /\ [Next]_vars => Lifecycle'
  BY LifecycleStep
<1> QED  BY <1>1, <1>2, TypeCorrect, DisciplineHolds, PTL DEF Spec

\* Every append of every session is one validate_journal_cursor accepts: the
\* lifecycle relation is followed and an effect gets one intent and then one
\* terminal event, through any number of crashes and restarts.
THEOREM AppendsAccepted == Spec => JournalAccepts
<1>1. ASSUME TypeOK, Discipline, Lifecycle, [Next]_vars
      PROVE  /\ StateMayFollow(journal.state, journal'.state)
             /\ \A e \in Effects : journal'.progress[e] # journal.progress[e] =>
                  \/ journal.progress[e] = "none" /\ journal'.progress[e] = "intent"
                  \/ journal.progress[e] = "intent" /\ journal'.progress[e] \in Fact
  <2>1. Advances
    BY <1>1, DisciplineStep
  <2>2. StateAdvances
    BY <1>1, LifecycleStep
  <2> QED  BY <2>1, <2>2 DEF Advances, StateAdvances
<1>2. TypeOK /\ Discipline /\ Lifecycle /\ [Next]_vars =>
        [/\ StateMayFollow(journal.state, journal'.state)
         /\ \A e \in Effects : journal'.progress[e] # journal.progress[e] =>
              \/ journal.progress[e] = "none" /\ journal'.progress[e] = "intent"
              \/ journal.progress[e] = "intent" /\ journal'.progress[e] \in Fact
        ]_journal
  BY <1>1
<1> QED  BY <1>2, TypeCorrect, DisciplineHolds, LifecycleHolds, PTL DEF Spec, JournalAccepts

----------------------------------------------------------------------------
(***************************************************************************)
(* Which steps reach the world.                                            *)
(***************************************************************************)
\* Positions whose calls change the world.
Answering == {"rejected", "active", "recover", "publish_evidence", "sync_evidence"}

\* A step that leaves the world alone and brings no answer from it.
Plain ==
  UNCHANGED world
  /\ (engine'.pc \in Answering => engine'.call \in {"idle", "issued"})

\* A one-shot effect reaches the backend.
Executes(e) ==
  /\ engine.mode # "off" /\ Turn(e) /\ ~Done(e)
  /\ \/ engine.pc = "rejected" /\ ExecuteRejected(e)
     \/ engine.pc = "active" /\ ExecuteActive(e)
     \/ engine.pc = "recover" /\ journal.state = "recovering" /\ Recover(e)

\* The steps that make no call to a store or a target.
LEMMA PlainSteps ==
  ASSUME TypeOK
  PROVE  /\ \A pc : Proceed(pc) => Plain
         /\ \A s : \A pc : ProceedIn(s, pc) => Plain
         /\ \A s : \A outcome : Resolve(outcome, s) => Plain
         /\ \A outcome : FailRejected(outcome) \/ SealRecoveryReceipt(outcome) => Plain
         /\ \A cause : Interrupt(cause) => Plain
         /\ \A why : Raise(why) /\ UNCHANGED world => Plain
         /\ Stop /\ UNCHANGED world => Plain
         /\ \A e : \A s : PublishIntent(e, s) \/ PublishTerminal(e, s) => Plain
         /\ \A e : RetryIntended(e) => Plain
         /\ \A verdict : SealWith(verdict) /\ UNCHANGED world => Plain
         /\ engine' = [engine EXCEPT !.call = "issued"] /\ UNCHANGED world => Plain
         /\ UNCHANGED world /\ engine'.pc = engine.pc /\ engine.pc \notin Answering => Plain
         /\ \A fact : Return(fact) /\ engine.pc \notin Answering /\ UNCHANGED world => Plain
<1>1. engine \in Sessions
  BY TypedParts
<1>2. ASSUME Stop, UNCHANGED world PROVE Plain
  BY <1>2 DEF Stop, Session, Plain
<1>3. ASSUME NEW pc, Goto(pc), UNCHANGED world PROVE Plain
  BY <1>1, <1>3 DEF Goto, Sessions, Plain
<1>4. ASSUME NEW call \in {"idle", "issued"}, engine' = [engine EXCEPT !.call = call],
             UNCHANGED world
      PROVE  Plain
  BY <1>1, <1>4 DEF Sessions, Plain
<1>5. \A s : \A outcome : Resolve(outcome, s) => Plain
  BY <1>2 DEF Resolve, PublishReceipt
<1>6. ASSUME NEW cause, Interrupt(cause) PROVE Plain
  BY <1>1, <1>6 DEF Interrupt, Sessions, Plain
<1>7. ASSUME NEW verdict, SealWith(verdict), UNCHANGED world PROVE Plain
  BY <1>1, <1>7 DEF SealWith, Sessions, Plain
<1>8. ASSUME NEW fact, Return(fact), engine.pc \notin Answering, UNCHANGED world
      PROVE  Plain
  BY <1>1, <1>8 DEF Return, Sessions, Plain
<1>9. \A outcome : FailRejected(outcome) \/ SealRecoveryReceipt(outcome) => Plain
  BY <1>5 DEF FailRejected, SealRecoveryReceipt
<1>10. \A e : \A s : PublishIntent(e, s) \/ PublishTerminal(e, s) => Plain
  BY <1>4 DEF PublishIntent, PublishTerminal
<1>11. \A e : RetryIntended(e) => Plain
  BY <1>4 DEF RetryIntended
<1>12. \A pc : Proceed(pc) => Plain
  BY <1>3 DEF Proceed
<1>13. \A s : \A pc : ProceedIn(s, pc) => Plain
  BY <1>3 DEF ProceedIn
<1>14. \A why : Raise(why) /\ UNCHANGED world => Plain
  BY <1>2 DEF Raise
<1>15. UNCHANGED world /\ engine'.pc = engine.pc /\ engine.pc \notin Answering => Plain
  BY DEF Plain
<1> QED  BY <1>2, <1>4, <1>5, <1>6, <1>7, <1>8, <1>9, <1>10, <1>11, <1>12, <1>13, <1>14, <1>15

\* A rejected store that is not synchronized is not called.
LEMMA StoreNotCalled ==
  ASSUME Discipline, engine.pc = "sync_rejected",
         RejectedOrder = << >> \/ ~AllDomains
  PROVE  engine.call = "idle"
<1>1. \A f \in Effects : InFlight(f) => f = Global("synchronize_rejected_store")
  BY DEF InFlight, Turn
<1> QED  BY <1>1, SynchronizedDomains DEF Discipline, CallOwned

\* Every step but an execution, an evidence record and its synchronization
\* leaves the world alone.
LEMMA StepKinds ==
  ASSUME TypeOK, Discipline, Next
  PROVE  \/ Plain
         \/ \E e \in OneShot : Executes(e)
         \/ At("publish_evidence") /\ PublishEvidenceRecord
         \/ At("sync_evidence") /\ SynchronizeEvidence
<1>1. engine \in Sessions
  BY TypedParts
<1>2. ASSUME Synchronize,
             engine.pc \in {"sync_incoming", "sync_recovery", "sync_rejected",
                            "sync_active", "sync_recovered"}
      PROVE  Plain
  BY <1>2, PlainSteps DEF Synchronize, Answering
<1>a. CASE Admit
  <2>1. UNCHANGED world /\ (Goto("captures") \/ Stop)
    BY <1>a DEF Admit
  <2>2. Goto("captures") => engine'.pc = "captures"
    BY <1>1 DEF Goto, Sessions
  <2> QED  BY <2>1, <2>2, PlainSteps DEF Plain, Answering
<1>b. CASE CaptureOldObjects
  <2>1. engine.pc \notin Answering
    BY <1>b DEF CaptureOldObjects, At, Answering
  <2> QED  BY <1>b, <2>1, CaptureForms, PlainSteps DEF CaptureOld, FailPreparation
<1>c. CASE StageIncomingPayloads
  <2>1. engine.pc \notin Answering
    BY <1>c DEF StageIncomingPayloads, At, Answering
  <2> QED  BY <1>c, <2>1, PayloadForms, PlainSteps DEF SealPayloads, FailPreparation
<1>d. CASE SynchronizeIncoming \/ SynchronizeRecovery
  BY <1>2, <1>d, PlainSteps
     DEF SynchronizeIncoming, SynchronizeRecovery, SynchronizePreparation, At,
         FailPreparation
<1>e. CASE BeginMutation
  BY <1>e, PlainSteps DEF BeginMutation
<1>f. CASE PublishRejected
  <2>1. engine.mode # "off" /\ engine.pc = "rejected"
    BY <1>f DEF PublishRejected, At
  <2> QED  BY <1>f, <2>1, RejectedForms, PlainSteps DEF Executes
<1>g. CASE \E published \in BOOLEAN :
             /\ published => RejectedPublished \/ ResumeAfterRejected
             /\ At("sync_rejected")
             /\ LET e == Global("synchronize_rejected_store")
                    skip == RejectedOrder = << >> \/ ~AllDomains
                IN  \/ skip /\ published
                    \/ PublishIntent(e, "mutating") \/ RetryIntended(e)
                    \/ Synchronize \/ PublishTerminal(e, "mutating")
                    \/ \E outcome : FailRejected(outcome)
                    \/ Idle /\ published
  <2>1. engine.pc = "sync_rejected"
    BY <1>g DEF At
  <2>2. ASSUME engine.call = "idle", RejectedPublished \/ ResumeAfterRejected
        PROVE  Plain
    <3>1. CASE \E pc : Proceed(pc)
      BY <3>1, PlainSteps
    <3>2. CASE RestartInterruption
      <4>1. CASE \E why : Raise(why) /\ UNCHANGED world
        BY <4>1, PlainSteps
      <4>2. CASE /\ engine' = [engine EXCEPT !.pc = "recover", !.cause = RestartCause]
                 /\ UNCHANGED world
        <5>1. engine'.call = "idle"
          BY <1>1, <2>2, <4>2 DEF Sessions
        <5> QED  BY <4>2, <5>1 DEF Plain
      <4> QED  BY <3>2, <4>1, <4>2 DEF RestartInterruption
    <3> QED  BY <2>2, <3>1, <3>2 DEF RejectedPublished, ResumeAfterRejected
  <2> QED  BY <1>2, <1>g, <2>1, <2>2, StoreNotCalled, PlainSteps DEF Idle
<1>h. CASE SynchronizeRejected(RejectedPublished) \/ SynchronizeRejected(ResumeAfterRejected)
  BY <1>g, <1>h DEF SynchronizeRejected
<1>i. CASE ExecuteActiveEffects
  <2>1. engine.mode # "off" /\ engine.pc = "active"
    BY <1>i DEF ExecuteActiveEffects, At
  <2> QED  BY <1>i, <2>1, ActiveForms, PlainSteps DEF Executes
<1>j. CASE SynchronizeActive \/ InterruptSynchronization \/ ResumeInterruptSynchronization
  BY <1>2, <1>j, PlainSteps
     DEF SynchronizeActive, InterruptSynchronization, ResumeInterruptSynchronization,
         At, EffectsVisible
<1>k. CASE ObserveIntent \/ Observe \/ RecordObservation \/ JudgeObservation
  <2>1. engine.pc \notin Answering
    BY <1>k DEF ObserveIntent, Observe, RecordObservation, JudgeObservation, At,
                Answering
  <2>2. CASE ObserveIntent \/ RecordObservation
    <3>1. UNCHANGED <<engine, world>>
      BY <2>2 DEF ObserveIntent, RecordObservation
    <3> QED  BY <2>1, <3>1, PlainSteps
  <2>3. CASE Observe
    <3>1. engine'.pc = engine.pc
      BY <1>1, <2>3 DEF Observe, Sessions
    <3> QED  BY <2>1, <2>3, <3>1, PlainSteps DEF Observe
  <2> QED  BY <1>k, <2>2, <2>3, PlainSteps DEF JudgeObservation
<1>l. CASE PublishCompletedEvidence
  <2>1. CASE RecordEvidence
    <3>1. UNCHANGED world
      BY <2>1 DEF RecordEvidence
    <3>2. CASE Goto("sync_evidence")
      BY <1>1, <3>1, <3>2 DEF Goto, Sessions, Plain
    <3> QED  BY <2>1, <3>1, <3>2, PlainSteps DEF RecordEvidence
  <2> QED  BY <1>l, <2>1, PlainSteps DEF PublishCompletedEvidence
<1>m. CASE SynchronizeCompletedEvidence
  BY <1>m, PlainSteps DEF SynchronizeCompletedEvidence, EvidenceSynchronized
<1>n. CASE ResumePublication
  BY <1>n, PlainSteps DEF ResumePublication, world
<1>o. CASE ResumeSynchronization
  BY <1>o, PlainSteps DEF ResumeSynchronization, EvidenceSynchronized, world
<1>p. CASE SealTerminalReceipt
  <2>1. engine.pc \notin Answering
    BY <1>p DEF SealTerminalReceipt, At, Answering
  <2> QED  BY <1>p, <2>1, PlainSteps DEF SealTerminalReceipt
<1>q. CASE RecoverNothing \/ RecoverUnselected \/ BeginRecovery
  BY <1>q, PlainSteps DEF RecoverNothing, RecoverUnselected, BeginRecovery
<1>r. CASE RecoverCandidates
  <2>1. engine.mode # "off" /\ engine.pc = "recover" /\ journal.state = "recovering"
    BY <1>r DEF RecoverCandidates, At
  <2> QED  BY <1>r, <2>1, RecoveryForms, PlainSteps DEF Executes
<1>s. CASE SynchronizeRecovered
  BY <1>2, <1>s, PlainSteps DEF SynchronizeRecovered, At
<1>t. CASE ConcludeRecovery \/ ResumeConcludeRecovery
  BY <1>t, PlainSteps DEF ConcludeRecovery, ResumeConcludeRecovery
<1>u. CASE Reopen
  <2>1. UNCHANGED world
    BY <1>u DEF Reopen
  <2>2. \A mode, pc, v : engine' = Session(mode, pc, v) => Plain
    BY <2>1 DEF Session, Plain
  <2> QED  BY <1>u, <2>1, <2>2, PlainSteps DEF Reopen, PublishReceipt
<1>v. CASE Crash
  BY <1>v, PlainSteps DEF Crash
<1> QED
  BY <1>a, <1>b, <1>c, <1>d, <1>e, <1>f, <1>h, <1>i, <1>j, <1>k, <1>l, <1>m, <1>n,
     <1>o, <1>p, <1>q, <1>r, <1>s, <1>t, <1>u, <1>v
     DEF Next, EngineStep, FreshStep, RestartStep

----------------------------------------------------------------------------
(***************************************************************************)
(* What a one-shot effect does when it reaches the backend.                *)
(***************************************************************************)
\* The turns that belong to one-shot effects.
LEMMA TurnKinds ==
  ASSUME NEW e, Turn(e)
  PROVE  /\ e[1] = "publish_rejected_object" <=> engine.pc = "rejected"
         /\ e[1] = "publish_active_object" <=> engine.pc = "active"
         /\ e[1] = "recover_active_object" <=> engine.pc = "recover"
BY DEF Turn, WalkTurn, RecoveryTurn, RecoverEffect, Global, ActiveSynchronization,
       RecoveredSynchronization, PublishEvidence, SyncEvidence

\* Only an announced effect that was never issued is executed, and executing it
\* appends nothing.
LEMMA Executed ==
  ASSUME TypeOK, Discipline, NEW e \in OneShot, Executes(e)
  PROVE  /\ journal.progress[e] = "intent" /\ issued[e] = 0
         /\ UNCHANGED <<journal, records>>
         /\ engine.call = "issued" /\ engine'.pc = engine.pc /\ engine'.mode = engine.mode
         /\ \A f \in OneShot : issued'[f] = IF f = e THEN 1 ELSE issued[f]
         /\ shelf \subseteq shelf'
         /\ engine.pc = "rejected" /\ engine'.call = "completed" => e[2] \in shelf'
<1>1. engine \in Sessions /\ issued \in [OneShot -> Nat]
  BY TypedParts
<1>2. engine.pc \in {"rejected", "active", "recover"} /\ Turn(e) /\ ~Done(e)
  BY DEF Executes
<1>3. PICK fact :
        /\ Return(fact)
        /\ (engine.pc = "rejected" /\ fact = "completed" => e[2] \in shelf')
  BY <1>2 DEF Executes, ExecuteRejected, ExecuteActive, Recover
<1>4. engine.call = "issued" /\ UNCHANGED journal /\ engine' = [engine EXCEPT !.call = fact]
  BY <1>3 DEF Return
<1>5. engine'.pc = engine.pc /\ engine'.mode = engine.mode /\ engine'.call = fact
  BY <1>1, <1>4 DEF Sessions
<1>6. journal.progress[e] = "intent" /\ issued[e] = 0
  BY <1>2, <1>4, EffectCalled
<1>7. issued' = [issued EXCEPT ![e] = issued[e] + 1]
  BY DEF Executes, ExecuteRejected, ExecuteActive, Recover, Issue
<1>8. \A f \in OneShot : issued'[f] = IF f = e THEN 1 ELSE issued[f]
  BY <1>1, <1>6, <1>7
<1>9. UNCHANGED records /\ shelf \subseteq shelf'
  <2>1. CASE ExecuteActive(e) \/ Recover(e)
    BY <2>1 DEF ExecuteActive, Recover
  <2>2. CASE ExecuteRejected(e)
    BY <2>2 DEF ExecuteRejected
  <2> QED  BY <2>1, <2>2 DEF Executes
<1> QED  BY <1>3, <1>4, <1>5, <1>6, <1>8, <1>9

\* Effects are issued by executions alone, and the rejected store only grows.
LEMMA IssuingSteps ==
  ASSUME TypeOK, Discipline, [Next]_vars
  PROVE  /\ shelf \subseteq shelf'
         /\ \A f \in OneShot : issued'[f] # issued[f] => Executes(f)
<1>1. CASE UNCHANGED world
  BY <1>1 DEF world
<1>2. CASE \E e \in OneShot : Executes(e)
  <2>1. PICK e \in OneShot : Executes(e)
    BY <1>2
  <2> QED  BY <2>1, Executed
<1>3. CASE PublishEvidenceRecord \/ SynchronizeEvidence
  BY <1>3 DEF PublishEvidenceRecord, SynchronizeEvidence
<1>4. CASE Next
  BY <1>1, <1>2, <1>3, <1>4, StepKinds DEF Plain
<1> QED  BY <1>1, <1>4 DEF vars, world

----------------------------------------------------------------------------
(***************************************************************************)
(* Preparation is behind every mutation.                                   *)
(***************************************************************************)
\* Rejected objects are announced behind complete staging, active effects behind
\* the complete rejected phase as well, whatever became of either.
Guarded ==
  /\ (\E p \in Rejecteds : Intended(<<"publish_rejected_object", p>>)) =>
       StagingDone /\ journal.state # "preparing"
  /\ (\E p \in Actives : Intended(<<"publish_active_object", p>>)) =>
       /\ StagingDone /\ RejectedDone /\ RejectedStoreDone
       /\ journal.state # "preparing"

\* A rejected publication that completed left its object in the store.
Shelved ==
  /\ \A p \in Rejecteds :
       journal.progress[<<"publish_rejected_object", p>>] = "completed" => p \in shelf
  /\ engine.pc = "rejected" /\ engine.call = "completed" =>
       \A p \in Rejecteds : LET e == <<"publish_rejected_object", p>>
         IN Turn(e) /\ journal.progress[e] = "intent" => p \in shelf

\* An effect is announced by a live session in its turn.
LEMMA AnnouncedInTurn ==
  ASSUME Advances, NEW e \in Effects, Intended(e)', ~Intended(e), e[1] \notin Unwalked
  PROVE  engine.mode # "off" /\ Turn(e)
BY DEF Advances, Intended

\* Nothing is announced before what its phase requires.
LEMMA GuardedStep ==
  ASSUME Discipline, Lifecycle, Advances, StateAdvances, Guarded
  PROVE  Guarded'
<1>1. journal.state # "preparing" => journal'.state # "preparing"
  BY DEF StateAdvances, StateMayFollow, Successors
<1>2. ASSUME NEW p \in Rejecteds, Intended(<<"publish_rejected_object", p>>)'
      PROVE  (StagingDone /\ journal.state # "preparing")'
  <2>1. CASE Intended(<<"publish_rejected_object", p>>)
    BY <1>1, <2>1, PhasesStay DEF Guarded
  <2>2. CASE ~Intended(<<"publish_rejected_object", p>>)
    <3>1. PICK e \in Effects : e = <<"publish_rejected_object", p>>
      BY PhaseEffects
    <3>2. engine.mode # "off" /\ engine.pc = "rejected"
      BY <1>2, <2>2, <3>1, AnnouncedInTurn, TurnKinds DEF Unwalked
    <3>3. journal.state # "preparing" /\ StagingDone
      BY <3>2, LiveSession DEF Reached, Vouched
    <3> QED  BY <1>1, <3>3, PhasesStay
  <2> QED  BY <2>1, <2>2
<1>3. ASSUME NEW p \in Actives, Intended(<<"publish_active_object", p>>)'
      PROVE  (StagingDone /\ RejectedDone /\ RejectedStoreDone
              /\ journal.state # "preparing")'
  <2>1. CASE Intended(<<"publish_active_object", p>>)
    BY <1>1, <2>1, PhasesStay DEF Guarded
  <2>2. CASE ~Intended(<<"publish_active_object", p>>)
    <3>1. PICK e \in Effects : e = <<"publish_active_object", p>>
      BY PhaseEffects
    <3>2. engine.mode # "off" /\ engine.pc = "active"
      BY <1>3, <2>2, <3>1, AnnouncedInTurn, TurnKinds DEF Unwalked
    <3>3. /\ journal.state \in {"mutating", "effects_visible", "result_observed"}
          /\ RejectedDone /\ RejectedStoreDone
      BY <3>2, LiveSession DEF Reached
    <3>4. StagingDone
      BY <3>2, <3>3, LiveSession DEF Vouched
    <3> QED  BY <1>1, <3>3, <3>4, PhasesStay
  <2> QED  BY <2>1, <2>2
<1>4. Guarded'
  BY <1>2, <1>3 DEF Guarded
<1> QED  BY <1>4

\* A step without an append leaves the turns of the rejected phase.
LEMMA RejectedTurnHeld ==
  ASSUME UNCHANGED journal, engine'.pc = engine.pc, engine.pc = "rejected",
         NEW e, Turn(e)', journal.progress[e] = "intent"
  PROVE  Turn(e) /\ ~Done(e)
<1>1. \A f : Done(f)' = Done(f)
  BY TerminalStays
<1>2. PICK i \in DOMAIN RejectedOrder :
        /\ e = <<"publish_rejected_object", RejectedOrder[i]>>
        /\ \A j \in 1 .. i - 1 : Done(<<"publish_rejected_object", RejectedOrder[j]>>)'
  BY DEF Turn, WalkTurn
<1>3. WalkTurn("publish_rejected_object", RejectedOrder, e)
  BY <1>1, <1>2 DEF WalkTurn
<1> QED  BY <1>3, TerminalValues DEF Turn

\* What a rejected publication reports is recorded as it was answered.
LEMMA ShelvedStep ==
  ASSUME TypeOK, Discipline, Advances, Shelved, [Next]_vars
  PROVE  Shelved'
<1> DEFINE E(p) == <<"publish_rejected_object", p>>
<1>1. \A p \in Rejecteds : E(p) \in OneShot /\ E(p) \in Effects
  BY PhaseEffects DEF OneShot, On
<1>2. shelf \subseteq shelf'
  BY IssuingSteps
<1>3. ASSUME NEW p \in Rejecteds, journal'.progress[E(p)] = "completed"
      PROVE  p \in shelf'
  <2>1. CASE journal.progress[E(p)] = "completed"
    BY <1>2, <2>1 DEF Shelved
  <2>2. CASE journal'.progress[E(p)] # journal.progress[E(p)]
    <3>1. /\ Turn(E(p)) /\ journal.progress[E(p)] = "intent"
          /\ journal'.progress[E(p)] = engine.call
      BY <1>1, <1>3, <2>2 DEF Advances, Unwalked
    <3>2. engine.pc = "rejected" /\ engine.call = "completed"
      BY <1>3, <3>1, TurnKinds
    <3> QED  BY <1>2, <3>1, <3>2 DEF Shelved
  <2> QED  BY <1>3, <2>1, <2>2
<1>4. ASSUME engine'.pc = "rejected", engine'.call = "completed",
             NEW p \in Rejecteds, Turn(E(p))', journal'.progress[E(p)] = "intent"
      PROVE  p \in shelf'
  <2>0. ASSUME UNCHANGED journal, engine'.pc = engine.pc
        PROVE  Turn(E(p)) /\ ~Done(E(p)) /\ journal.progress[E(p)] = "intent"
    <3>1. PICK e : e = E(p)
      OBVIOUS
    <3>2. Turn(e)' /\ journal.progress[e] = "intent" /\ engine.pc = "rejected"
      BY <1>4, <2>0, <3>1
    <3> QED  BY <2>0, <3>1, <3>2, RejectedTurnHeld
  <2>1. UNCHANGED <<journal, engine>> => p \in shelf'
    BY <1>2, <1>4, <2>0 DEF Shelved
  <2>2. ASSUME NEW e \in OneShot, Executes(e) PROVE p \in shelf'
    <3>1. engine.pc = "rejected" /\ UNCHANGED journal /\ e[2] \in shelf'
      BY <1>4, <2>2, Executed
    <3>2. Turn(e) /\ ~Done(e)
      BY <2>2 DEF Executes
    <3>3. Turn(E(p)) /\ ~Done(E(p))
      BY <2>0, <2>2, Executed
    <3>4. e = E(p)
      BY <3>2, <3>3, TurnUnique
    <3> QED  BY <3>1, <3>4
  <2>3. CASE \/ At("publish_evidence") /\ PublishEvidenceRecord
             \/ At("sync_evidence") /\ SynchronizeEvidence
    <3>1. engine \in Sessions
      BY TypedParts
    <3>2. engine'.pc = engine.pc
      BY <2>3, <3>1 DEF PublishEvidenceRecord, SynchronizeEvidence, Return, Sessions
    <3> QED  BY <1>4, <2>3, <3>2 DEF At
  <2>4. ~Plain
    BY <1>4 DEF Plain, Answering
  <2>5. CASE Next
    <3>1. CASE \E e \in OneShot : Executes(e)
      BY <2>2, <3>1
    <3> QED  BY <2>3, <2>4, <2>5, <3>1, StepKinds
  <2> QED  BY <2>1, <2>5 DEF vars
<1> QED  BY <1>3, <1>4 DEF Shelved

\* Initially nothing is issued, on the shelf or intended.
LEMMA PreparedInit == Init => Guarded /\ Shelved
<1> SUFFICES ASSUME Init PROVE Guarded /\ Shelved
  OBVIOUS
<1>1. \A p \in Actives : journal.progress[<<"publish_active_object", p>>] = "none"
  BY PhaseEffects DEF Init
<1>2. \A p \in Rejecteds : journal.progress[<<"publish_rejected_object", p>>] = "none"
  BY PhaseEffects DEF Init
<1>3. engine.pc = "admit"
  BY DEF Init, Session
<1>4. Guarded
  BY <1>1, <1>2 DEF Guarded, Intended
<1>5. Shelved
  BY <1>2, <1>3 DEF Shelved
<1> QED  BY <1>4, <1>5

\* Nothing in the world changes unannounced, and the active namespace is
\* touched only after every capture, every payload, the staging domains and the
\* rejected phase are complete, whichever sessions completed them.
THEOREM MutationsPrepared == Spec => []MutationPrepared
<1>1. Init => Guarded /\ Shelved
  BY PreparedInit
<1>2. TypeOK /\ Discipline /\ Lifecycle /\ Guarded /\ Shelved /\ [Next]_vars
        => (Guarded /\ Shelved)'
  BY DisciplineStep, LifecycleStep, GuardedStep, ShelvedStep
<1>3. TypeOK /\ Discipline /\ Guarded /\ Shelved => MutationPrepared
  <2> SUFFICES ASSUME TypeOK, Discipline, Guarded, Shelved,
                      \E p \in Actives : issued[<<"publish_active_object", p>>] > 0
               PROVE  /\ \A p \in Captures : Done(<<"capture_old_object", p>>)
                      /\ \A p \in Payloads : Done(PayloadEffect(p))
                      /\ \A k \in {"synchronize_incoming_staging",
                                   "synchronize_recovery_staging",
                                   "synchronize_rejected_store"} \cap DeclaredKinds :
                           Done(Global(k))
                      /\ Rejecteds \subseteq shelf
    BY DEF Discipline, Announced, MutationPrepared
  <2>1. StagingDone /\ RejectedDone /\ RejectedStoreDone
    <3>1. \A p \in Actives : <<"publish_active_object", p>> \in OneShot
      BY DEF OneShot, On
    <3> QED  BY <3>1 DEF Discipline, Announced, Guarded
  <2>2. ASSUME NEW p \in Rejecteds PROVE p \in shelf
    <3> DEFINE e == <<"publish_rejected_object", p>>
    <3>1. Done(e) /\ e \in Effects
      BY <2>1, PhaseEffects DEF RejectedDone
    <3>2. journal.progress[e] \in {"none", "intent"} \cup Match
      BY <3>1 DEF Discipline, FactsKept, FactsOf
    <3>3. journal.progress[e] = "completed"
      BY <3>1, <3>2 DEF Done, Terminal, TerminalEvent, Match
    <3> QED  BY <3>3 DEF Shelved
  <2>3. ASSUME NEW k \in {"synchronize_incoming_staging", "synchronize_recovery_staging",
                          "synchronize_rejected_store"} \cap DeclaredKinds
        PROVE  Done(Global(k))
    BY <2>1, <2>3 DEF DeclaredKinds, StagingDone, IncomingDone, RejectedStoreDone
  <2> QED  BY <2>1, <2>2, <2>3 DEF StagingDone, CapturesDone, PayloadsDone
<1> QED  BY <1>1, <1>2, <1>3, TypeCorrect, DisciplineHolds, LifecycleHolds, PTL DEF Spec

----------------------------------------------------------------------------
(***************************************************************************)
(* Effects run in schedule order, recovery in the reverse.                 *)
(***************************************************************************)
\* Recovery is announced when it was selected, in the recovering state, which
\* lasts until a receipt.
RecoveryBegun ==
  (\E i \in DOMAIN ActiveOrder : Intended(RecoverEffect(i))) =>
    /\ RecoverySelected
    /\ journal.receipt # "none" \/ journal.state = "recovering"

\* An effect is announced when all before it completed; a recovery, of a
\* candidate, when all later candidates are recovered.
InOrder ==
  /\ \A i, j \in DOMAIN RejectedOrder :
       i < j /\ Intended(<<"publish_rejected_object", RejectedOrder[j]>>) =>
         Done(<<"publish_rejected_object", RejectedOrder[i]>>)
  /\ \A i, j \in DOMAIN ActiveOrder :
       i < j /\ Intended(<<"publish_active_object", ActiveOrder[j]>>) =>
         Done(<<"publish_active_object", ActiveOrder[i]>>)
  /\ \A i \in DOMAIN ActiveOrder : Intended(RecoverEffect(i)) =>
       /\ i \in Candidates
       /\ \A j \in DOMAIN ActiveOrder : i < j => j \notin Unrecovered

\* Where a recovery is announced.
LEMMA RecoveryAnnounced ==
  ASSUME Advances, NEW i \in DOMAIN ActiveOrder,
         Intended(RecoverEffect(i))', ~Intended(RecoverEffect(i))
  PROVE  /\ engine.mode # "off" /\ engine.pc = "recover"
         /\ RecoverySelected /\ journal.state = "recovering"
         /\ i \in Candidates
         /\ \A j \in Candidates : i < j => Done(RecoverEffect(j))
<1>1. PICK e \in Effects : e = RecoverEffect(i)
  BY DeclaredEffects
<1>2. Intended(e)' /\ ~Intended(e)
  BY <1>1 DEF Intended, RecoverEffect
<1>3. e[1] = "recover_active_object"
  BY <1>1 DEF RecoverEffect
<1>4. engine.mode # "off" /\ Turn(e)
  BY <1>2, <1>3, AnnouncedInTurn DEF Unwalked
<1>5. engine.pc = "recover" /\ RecoveryTurn(e)
  BY <1>3, <1>4, TurnKinds DEF Turn
<1>6. PICK k \in Candidates :
        e = RecoverEffect(k) /\ \A j \in Candidates : j > k => Done(RecoverEffect(j))
  BY <1>5 DEF RecoveryTurn
<1>7. k = i
  BY <1>1, <1>6, ScheduleAssumption DEF RecoverEffect, Candidates
<1>8. \A j \in Candidates : i < j => Done(RecoverEffect(j))
  BY <1>6, <1>7, Schedules DEF Candidates
<1> QED  BY <1>4, <1>5, <1>6, <1>7, <1>8 DEF RecoveryTurn

\* A recovery is announced only in the recovering state.
LEMMA RecoveryBegunStep ==
  ASSUME Discipline, Advances, StateAdvances, RecoveryBegun, [Next]_vars
  PROVE  RecoveryBegun'
<1> SUFFICES ASSUME NEW i \in DOMAIN ActiveOrder, Intended(RecoverEffect(i))'
             PROVE  /\ RecoverySelected'
                    /\ journal'.receipt # "none" \/ journal'.state = "recovering"
  BY DEF RecoveryBegun
<1>1. RecoverySelected' = RecoverySelected
  BY DEF Advances, RecoverySelected, Recovery
<1>2. CASE Intended(RecoverEffect(i))
  <2>1. RecoverySelected /\ (journal.receipt # "none" \/ journal.state = "recovering")
    BY <1>2 DEF RecoveryBegun
  <2>2. journal'.receipt # "none" \/ journal'.state = "recovering"
    BY <2>1, ReceiptLast DEF StateAdvances
  <2> QED  BY <1>1, <2>1, <2>2
<1>3. CASE ~Intended(RecoverEffect(i))
  <2>1. RecoverySelected /\ journal.state = "recovering" /\ engine.mode # "off"
    BY <1>3, RecoveryAnnounced
  <2> QED  BY <1>1, <2>1 DEF StateAdvances, Discipline, SessionOpen
<1> QED  BY <1>2, <1>3

\* Recovery decides what it undoes when the active phase is over for good.
LEMMA CandidatesFrozen ==
  ASSUME Discipline, Lifecycle, Advances,
         journal.receipt # "none" \/ journal.state = "recovering"
  PROVE  Candidates' = Candidates
<1>1. ASSUME NEW i \in DOMAIN ActiveOrder,
             journal'.progress[<<"publish_active_object", ActiveOrder[i]>>]
               # journal.progress[<<"publish_active_object", ActiveOrder[i]>>]
      PROVE  FALSE
  <2>1. PICK e \in Effects : e = <<"publish_active_object", ActiveOrder[i]>>
    BY DeclaredEffects
  <2>2. engine.mode # "off" /\ Turn(e)
    BY <1>1, <2>1 DEF Advances, Unwalked
  <2>3. engine.pc = "active"
    BY <2>1, <2>2, TurnKinds
  <2> QED  BY <2>2, <2>3, LiveSession DEF Reached
<1> QED  BY <1>1, CandidatesStay

\* Announced in schedule order, a walk over a schedule stays so.
LEMMA WalkInOrder ==
  ASSUME Advances,
         NEW kind \in {"publish_rejected_object", "publish_active_object"},
         NEW order \in {RejectedOrder, ActiveOrder},
         \A k \in DOMAIN order : <<kind, order[k]>> \in Effects,
         \A e : e[1] = kind /\ Turn(e) => WalkTurn(kind, order, e),
         NEW i \in DOMAIN order, NEW j \in DOMAIN order, i < j,
         Intended(<<kind, order[j]>>) => Done(<<kind, order[i]>>),
         Intended(<<kind, order[j]>>)'
  PROVE  Done(<<kind, order[i]>>)'
<1>1. Done(<<kind, order[i]>>) => Done(<<kind, order[i]>>)'
  BY DoneStays
<1>2. CASE ~Intended(<<kind, order[j]>>)
  <2>1. PICK e \in Effects : e = <<kind, order[j]>>
    OBVIOUS
  <2>2. Intended(e)' /\ ~Intended(e) /\ e[1] = kind
    BY <1>2, <2>1 DEF Intended
  <2>3. Turn(e)
    BY <2>2, AnnouncedInTurn DEF Unwalked
  <2>4. WalkTurn(kind, order, e)
    BY <2>2, <2>3
  <2>5. PICK k \in DOMAIN order :
          e = <<kind, order[k]>> /\ \A m \in 1 .. k - 1 : Done(<<kind, order[m]>>)
    BY <2>4 DEF WalkTurn
  <2>6. k = j
    BY <2>1, <2>5, ScheduleAssumption
  <2>7. i \in 1 .. j - 1
    BY Schedules
  <2> QED  BY <1>1, <2>5, <2>6, <2>7
<1> QED  BY <1>1, <1>2

\* A recovery is announced when every later candidate is recovered.
LEMMA RecoveryInReverse ==
  ASSUME Discipline, Lifecycle, Advances, RecoveryBegun, InOrder,
         NEW i \in DOMAIN ActiveOrder, Intended(RecoverEffect(i))'
  PROVE  /\ i \in Candidates'
         /\ \A j \in DOMAIN ActiveOrder : i < j => j \notin Unrecovered'
<1>1. \A j \in DOMAIN ActiveOrder :
        Done(RecoverEffect(j)) => Done(RecoverEffect(j))'
  BY DeclaredEffects, DoneStays
<1>2. /\ journal.receipt # "none" \/ journal.state = "recovering"
      /\ i \in Candidates
      /\ \A j \in DOMAIN ActiveOrder : i < j => j \notin Unrecovered
  <2>1. CASE Intended(RecoverEffect(i))
    BY <2>1 DEF RecoveryBegun, InOrder
  <2>2. CASE ~Intended(RecoverEffect(i))
    BY <2>2, RecoveryAnnounced DEF Unrecovered
  <2> QED  BY <2>1, <2>2
<1>3. Candidates' = Candidates
  BY <1>2, CandidatesFrozen
<1> QED  BY <1>1, <1>2, <1>3 DEF Unrecovered, RecoverEffect

\* The order of what is announced is kept.
LEMMA InOrderStep ==
  ASSUME Discipline, Lifecycle, Advances, RecoveryBegun, InOrder
  PROVE  InOrder'
<1>1. ASSUME NEW i \in DOMAIN RejectedOrder, NEW j \in DOMAIN RejectedOrder, i < j,
             Intended(<<"publish_rejected_object", RejectedOrder[j]>>)'
      PROVE  Done(<<"publish_rejected_object", RejectedOrder[i]>>)'
  <2>1. \A e : e[1] = "publish_rejected_object" /\ Turn(e) =>
          WalkTurn("publish_rejected_object", RejectedOrder, e)
    BY TurnKinds DEF Turn
  <2>2. \A k \in DOMAIN RejectedOrder :
          <<"publish_rejected_object", RejectedOrder[k]>> \in Effects
    BY DeclaredEffects
  <2>3. Intended(<<"publish_rejected_object", RejectedOrder[j]>>) =>
          Done(<<"publish_rejected_object", RejectedOrder[i]>>)
    BY <1>1 DEF InOrder
  <2> QED  BY <1>1, <2>1, <2>2, <2>3, WalkInOrder
<1>2. ASSUME NEW i \in DOMAIN ActiveOrder, NEW j \in DOMAIN ActiveOrder, i < j,
             Intended(<<"publish_active_object", ActiveOrder[j]>>)'
      PROVE  Done(<<"publish_active_object", ActiveOrder[i]>>)'
  <2>1. \A e : e[1] = "publish_active_object" /\ Turn(e) =>
          WalkTurn("publish_active_object", ActiveOrder, e)
    BY TurnKinds DEF Turn
  <2>2. \A k \in DOMAIN ActiveOrder :
          <<"publish_active_object", ActiveOrder[k]>> \in Effects
    BY DeclaredEffects
  <2>3. Intended(<<"publish_active_object", ActiveOrder[j]>>) =>
          Done(<<"publish_active_object", ActiveOrder[i]>>)
    BY <1>2 DEF InOrder
  <2> QED  BY <1>2, <2>1, <2>2, <2>3, WalkInOrder
<1>3. \A i \in DOMAIN ActiveOrder : Intended(RecoverEffect(i))' =>
        /\ i \in Candidates'
        /\ \A j \in DOMAIN ActiveOrder : i < j => j \notin Unrecovered'
  BY RecoveryInReverse
<1> QED  BY <1>1, <1>2, <1>3 DEF InOrder, RecoverEffect

\* Initially nothing is announced.
LEMMA OrderInit == Init => RecoveryBegun /\ InOrder
<1> SUFFICES ASSUME Init PROVE RecoveryBegun /\ InOrder
  OBVIOUS
<1>1. \A e \in Effects : ~Intended(e)
  BY DEF Init, Intended
<1>2. \A i \in DOMAIN ActiveOrder : ~Intended(RecoverEffect(i))
  BY <1>1, DeclaredEffects
<1>3. RecoveryBegun
  BY <1>2 DEF RecoveryBegun
<1>4. InOrder
  BY <1>1, <1>2, DeclaredEffects DEF InOrder
<1> QED  BY <1>3, <1>4

\* Order holds in every reachable state.
LEMMA OrderKept ==
  ASSUME TypeOK, Discipline, Lifecycle, RecoveryBegun, InOrder, [Next]_vars
  PROVE  (RecoveryBegun /\ InOrder)'
BY DisciplineStep, LifecycleStep, RecoveryBegunStep, InOrderStep

\* Active effects are issued in the order the schedule froze, each after the
\* completion of all before it, and recoveries in the exact reverse, each after
\* the completion of all later candidates, across crashes and restarts.
THEOREM EffectsOrdered == Spec => []OrderedEffects
<1>1. Init => RecoveryBegun /\ InOrder
  BY OrderInit
<1>2. TypeOK /\ Discipline /\ Lifecycle /\ RecoveryBegun /\ InOrder /\ [Next]_vars
        => (RecoveryBegun /\ InOrder)'
  BY OrderKept
<1>3. Discipline /\ InOrder => OrderedEffects
  <2> SUFFICES ASSUME Discipline, InOrder,
                      NEW i \in DOMAIN ActiveOrder, NEW j \in DOMAIN ActiveOrder, i < j
               PROVE  /\ issued[<<"publish_active_object", ActiveOrder[j]>>] > 0 =>
                           Done(<<"publish_active_object", ActiveOrder[i]>>)
                      /\ issued[RecoverEffect(i)] > 0 => j \notin Unrecovered
    BY DEF OrderedEffects
  <2>1. \A e \in OneShot : issued[e] > 0 => Intended(e)
    BY DEF Discipline, Announced
  <2> QED  BY <2>1, DeclaredEffects DEF InOrder
<1> QED  BY <1>1, <1>2, <1>3, TypeCorrect, DisciplineHolds, LifecycleHolds, PTL DEF Spec

----------------------------------------------------------------------------
(***************************************************************************)
(* Completed evidence is published, then durable, then sealed.             *)
(***************************************************************************)
\* A receipt, or the verdict about to become one, carries an evidence identity
\* when it says completed, and the record it names is durable.
EvidenceSealed ==
  /\ journal.receipt = "completed" <=> journal.evidence # 0
  /\ journal.evidence # 0 => journal.evidence \in records.durable
  /\ engine.pc = "seal" =>
       /\ engine.verdict.outcome = "completed" <=> engine.verdict.evidence # 0
       /\ engine.verdict.evidence # 0 => engine.verdict.evidence \in records.durable

\* What the journal retains of publication and synchronization, and what the
\* session has established for its own projection.
EvidenceRecorded ==
  /\ records.durable \subseteq records.published
  /\ journal.projection # 0 <=> journal.progress[PublishEvidence] = "completed"
  /\ journal.projection # 0 => journal.projection \in records.published
  /\ Intended(SyncEvidence) => journal.projection # 0
  /\ Done(SyncEvidence) => journal.projection \in records.durable
  /\ engine.pc = "sync_evidence" =>
       engine.projection \in records.published /\ journal.projection # 0
  /\ engine.pc = "publish_evidence" /\ engine.call = "completed" =>
       engine.projection \in records.published
  /\ engine.pc = "sync_evidence" /\ engine.call = "confirmed" =>
       records.durable = records.published

\* A step that has nothing to do with completed evidence.
Outside ==
  /\ UNCHANGED <<journal.evidence, journal.projection>>
  /\ \/ journal'.receipt = journal.receipt
     \/ journal.receipt = "none" /\ journal'.receipt \in Outcome \ {"completed"}
  /\ engine'.pc \notin {"sync_evidence", "seal"}
  /\ engine'.pc = "publish_evidence" => engine'.call = "idle"

\* ... and keeps what is recorded of it.
LEMMA OutsideStep ==
  ASSUME Outside, EvidenceSealed, EvidenceRecorded, UNCHANGED records,
         journal'.recovery = journal.recovery,
         journal'.progress[PublishEvidence] = journal.progress[PublishEvidence],
         journal'.progress[SyncEvidence] = journal.progress[SyncEvidence]
  PROVE  EvidenceSealed' /\ EvidenceRecorded'
<1>1. Intended(SyncEvidence)' = Intended(SyncEvidence)
  BY DEF Intended
<1>2. Done(SyncEvidence)' = Done(SyncEvidence)
  BY TerminalStays
<1>3. EvidenceSealed'
  BY DEF Outside, EvidenceSealed, Outcome
<1>4. EvidenceRecorded'
  BY <1>1, <1>2 DEF Outside, EvidenceRecorded
<1> QED  BY <1>3, <1>4

\* The steps by name.
LEMMA OutsideSteps ==
  ASSUME TypeOK, Discipline, engine.mode # "off",
         engine.pc \notin {"publish_evidence", "sync_evidence", "seal"}
  PROVE  /\ \A pc : Proceed(pc) /\ pc \notin {"sync_evidence", "seal"} => Outside
         /\ \A s : \A pc : ProceedIn(s, pc) /\ pc \notin {"sync_evidence", "seal"} => Outside
         /\ \A s : \A outcome \in Outcome \ {"completed"} : Resolve(outcome, s) => Outside
         /\ \A outcome \in Outcome \ {"completed"} :
              FailRejected(outcome) \/ SealRecoveryReceipt(outcome) => Outside
         /\ FailPreparation => Outside
         /\ \A cause : Interrupt(cause) => Outside
         /\ \A why : Raise(why) /\ UNCHANGED journal => Outside
         /\ \A why : \A s : Raise(why) /\ AppendState(s) => Outside
         /\ \A e : \A s : PublishIntent(e, s) \/ PublishTerminal(e, s) => Outside
         /\ \A e : RetryIntended(e) => Outside
         /\ \A fact : Return(fact) => Outside
         /\ Synchronize => Outside
         /\ \A e : \A s : \A event : AppendEvent(e, s, event) /\ UNCHANGED engine => Outside
         /\ UNCHANGED journal /\ engine'.pc = engine.pc => Outside
<1>1. journal \in Journals /\ engine \in Sessions /\ journal.receipt = "none"
  BY TypedParts DEF Discipline, SessionOpen
<1>2. ASSUME NEW s, AppendState(s)
      PROVE  journal'.evidence = journal.evidence /\ journal'.projection = journal.projection
             /\ journal'.receipt = journal.receipt
  BY <1>1, <1>2 DEF AppendState, Journals
<1>3. ASSUME NEW e, NEW s, NEW event, AppendEvent(e, s, event)
      PROVE  journal'.evidence = journal.evidence /\ journal'.projection = journal.projection
             /\ journal'.receipt = journal.receipt
  BY <1>1, <1>3 DEF AppendEvent, Journals
<1>4. Stop => engine'.pc = "stopped"
  BY DEF Stop, Session
<1>5. \A pc : Goto(pc) => engine'.pc = pc /\ engine'.call = "idle"
  BY <1>1 DEF Goto, Sessions
<1>6. \A call : engine' = [engine EXCEPT !.call = call] => engine'.pc = engine.pc
  BY <1>1 DEF Sessions
<1>7. ASSUME NEW s, NEW outcome \in Outcome \ {"completed"}, Resolve(outcome, s)
      PROVE  Outside
  <2>1. /\ journal'.evidence = journal.evidence /\ journal'.projection = journal.projection
        /\ journal'.receipt = outcome
    BY <1>1, <1>7 DEF Resolve, PublishReceipt, Journals
  <2> QED  BY <1>1, <1>4, <1>7, <2>1 DEF Resolve, PublishReceipt, Outside
<1>8. FailPreparation => Outside
  BY <1>7 DEF FailPreparation, Outcome
<1>9. \A outcome \in Outcome \ {"completed"} :
        FailRejected(outcome) \/ SealRecoveryReceipt(outcome) => Outside
  BY <1>7 DEF FailRejected, SealRecoveryReceipt
<1>10. ASSUME NEW cause, Interrupt(cause) PROVE Outside
  <2>1. engine'.pc = "recover"
    BY <1>1, <1>10 DEF Interrupt, Sessions
  <2> QED  BY <1>2, <1>10, <2>1 DEF Interrupt, Outside
<1>11. \A why : Raise(why) /\ UNCHANGED journal => Outside
  BY <1>4 DEF Raise, Outside
<1>12. \A why : \A s : Raise(why) /\ AppendState(s) => Outside
  BY <1>2, <1>4 DEF Raise, Outside
<1>13. \A e : \A s : PublishIntent(e, s) \/ PublishTerminal(e, s) => Outside
  BY <1>3, <1>6 DEF PublishIntent, PublishTerminal, Outside
<1>14. \A e : RetryIntended(e) => Outside
  BY <1>6 DEF RetryIntended, Outside
<1>15. \A fact : Return(fact) => Outside
  BY <1>6 DEF Return, Outside
<1>16. \A e : \A s : \A event : AppendEvent(e, s, event) /\ UNCHANGED engine => Outside
  BY <1>3 DEF Outside
<1>17. \A pc : Proceed(pc) /\ pc \notin {"sync_evidence", "seal"} => Outside
  BY <1>5 DEF Proceed, Outside
<1>18. \A s : \A pc : ProceedIn(s, pc) /\ pc \notin {"sync_evidence", "seal"} => Outside
  BY <1>2, <1>5 DEF ProceedIn, Outside
<1>19. UNCHANGED journal /\ engine'.pc = engine.pc => Outside
  BY DEF Outside
<1>20. Synchronize => Outside
  BY <1>15 DEF Synchronize
<1> QED  BY <1>7, <1>8, <1>9, <1>10, <1>11, <1>12, <1>13, <1>14, <1>15, <1>16, <1>17,
            <1>18, <1>19, <1>20

\* Where the engine does not handle completed evidence no step does.
LEMMA StepsOutside ==
  ASSUME TypeOK, Discipline, Next, engine.mode # "off",
         engine.pc \notin {"publish_evidence", "sync_evidence", "seal"}
  PROVE  Outside
<1>1. journal \in Journals /\ engine \in Sessions
  BY TypedParts
<1>2. {"indeterminate", "failed_before_target_mutation", "failed_fully_recovered",
       "effects_visible_durability_unconfirmed", "failed_with_partial_effects"}
        \subseteq Outcome \ {"completed"}
  BY DEF Outcome
<1>a. CASE Admit
  <2>1. engine'.pc \in {"captures", "stopped"}
    <3>1. Goto("captures") => engine'.pc = "captures"
      BY <1>1 DEF Goto, Sessions
    <3>2. Stop => engine'.pc = "stopped"
      BY DEF Stop, Session
    <3> QED  BY <1>a, <3>1, <3>2 DEF Admit
  <2>2. /\ UNCHANGED <<journal.evidence, journal.projection, journal.receipt>>
    BY <1>1, <1>a DEF Admit, Journals
  <2> QED  BY <2>1, <2>2 DEF Outside
<1>b. CASE CaptureOldObjects
  BY <1>b, CaptureForms, OutsideSteps DEF CaptureOld
<1>c. CASE StageIncomingPayloads
  <2>1. engine' = [engine EXCEPT !.call = "issued"] => engine'.pc = engine.pc
    BY <1>1 DEF Sessions
  <2> QED  BY <1>c, <2>1, PayloadForms, OutsideSteps DEF SealPayloads
<1>d. CASE SynchronizeIncoming \/ SynchronizeRecovery
  BY <1>d, OutsideSteps DEF SynchronizeIncoming, SynchronizeRecovery, SynchronizePreparation
<1>e. CASE BeginMutation
  BY <1>e, OutsideSteps DEF BeginMutation
<1>f. CASE PublishRejected
  BY <1>2, <1>f, RejectedForms, OutsideSteps DEF ExecuteRejected
<1>g. CASE SynchronizeRejected(RejectedPublished)
  BY <1>2, <1>g, OutsideSteps DEF SynchronizeRejected, RejectedPublished
<1>h. CASE SynchronizeRejected(ResumeAfterRejected)
  <2>1. CASE RestartInterruption
    <3>1. ASSUME NEW s, AppendState(s)
          PROVE  UNCHANGED <<journal.evidence, journal.projection, journal.receipt>>
      BY <1>1, <3>1 DEF AppendState, Journals
    <3>2. engine' = [engine EXCEPT !.pc = "recover", !.cause = RestartCause]
            => engine'.pc = "recover"
      BY <1>1 DEF Sessions
    <3>3. CASE engine' = [engine EXCEPT !.pc = "recover", !.cause = RestartCause]
      BY <2>1, <3>1, <3>2, <3>3 DEF RestartInterruption, Outside
    <3> QED  BY <2>1, <3>3, OutsideSteps DEF RestartInterruption
  <2>2. ResumeAfterRejected => Outside
    BY <2>1, OutsideSteps DEF ResumeAfterRejected
  <2> QED  BY <1>2, <1>h, <2>2, OutsideSteps DEF SynchronizeRejected
<1>i. CASE ExecuteActiveEffects
  BY <1>i, ActiveForms, OutsideSteps DEF ExecuteActive
<1>j. CASE SynchronizeActive \/ InterruptSynchronization \/ ResumeInterruptSynchronization
  BY <1>j, OutsideSteps
     DEF SynchronizeActive, InterruptSynchronization, ResumeInterruptSynchronization,
         EffectsVisible
<1>k. CASE ObserveIntent \/ Observe \/ RecordObservation \/ JudgeObservation
  <2>1. CASE Observe
    <3>1. engine'.pc = engine.pc
      BY <1>1, <2>1 DEF Observe, Sessions
    <3> QED  BY <2>1, <3>1, OutsideSteps DEF Observe
  <2>2. CASE ObserveIntent \/ RecordObservation
    BY <2>2, OutsideSteps DEF ObserveIntent, RecordObservation
  <2>3. CASE JudgeObservation
    BY <2>3, OutsideSteps DEF JudgeObservation
  <2> QED  BY <1>k, <2>1, <2>2, <2>3
<1>l. CASE RecoverNothing \/ RecoverUnselected \/ BeginRecovery
  BY <1>2, <1>l, OutsideSteps DEF RecoverNothing, RecoverUnselected, BeginRecovery
<1>m. CASE RecoverCandidates
  <2>1. CASE \E pc \in {"sync_recovered", "conclude"} : Proceed(pc)
    BY <2>1, OutsideSteps
  <2> QED  BY <1>m, <2>1, RecoveryForms, OutsideSteps DEF Recover
<1>n. CASE SynchronizeRecovered
  BY <1>n, OutsideSteps DEF SynchronizeRecovered
<1>o. CASE ConcludeRecovery \/ ResumeConcludeRecovery
  <2>1. PICK outcome \in {"failed_fully_recovered", "indeterminate",
                          "failed_with_partial_effects"} : SealRecoveryReceipt(outcome)
    BY <1>o DEF ConcludeRecovery, ResumeConcludeRecovery
  <2> QED  BY <1>2, <2>1, OutsideSteps
<1>p. CASE Crash
  BY <1>p DEF Crash, Stop, Session, Outside
<1>q. ~(\/ PublishCompletedEvidence \/ SynchronizeCompletedEvidence
        \/ SealTerminalReceipt \/ Reopen \/ ResumePublication \/ ResumeSynchronization)
  BY DEF PublishCompletedEvidence, SynchronizeCompletedEvidence, SealTerminalReceipt,
         Reopen, ResumePublication, ResumeSynchronization, At
<1> QED
  BY <1>a, <1>b, <1>c, <1>d, <1>e, <1>f, <1>g, <1>h, <1>i, <1>j, <1>k, <1>l, <1>m,
     <1>n, <1>o, <1>p, <1>q DEF Next, EngineStep, FreshStep, RestartStep

\* A step elsewhere leaves the evidence, its record and its two effects.
LEMMA EvidenceElsewhere ==
  ASSUME TypeOK, Discipline, Advances, EvidenceSealed, EvidenceRecorded, Next,
         engine.mode # "off",
         engine.pc \notin {"publish_evidence", "sync_evidence", "seal"}
  PROVE  EvidenceSealed' /\ EvidenceRecorded'
<1>1. Outside
  BY StepsOutside
<1>2. UNCHANGED records
  <2>1. CASE \E e \in OneShot : Executes(e)
    BY <2>1, Executed
  <2> QED  BY <2>1, StepKinds DEF Plain, world, At
<1>3. {PublishEvidence, SyncEvidence} \subseteq Effects
  BY SynchronizedDomains
<1>4. ~Turn(PublishEvidence) /\ ~Turn(SyncEvidence)
  BY DEF Turn, WalkTurn, RecoveryTurn, RecoverEffect, PublishEvidence, SyncEvidence, Global,
         ActiveSynchronization, RecoveredSynchronization
<1>5. PublishEvidence[1] \notin Unwalked /\ SyncEvidence[1] \notin Unwalked
  BY DEF PublishEvidence, SyncEvidence, Global, Unwalked
<1>6. /\ journal'.progress[PublishEvidence] = journal.progress[PublishEvidence]
      /\ journal'.progress[SyncEvidence] = journal.progress[SyncEvidence]
  BY <1>3, <1>4, <1>5 DEF Advances
<1> QED  BY <1>1, <1>2, <1>6, OutsideStep DEF Advances

\* A session that ends, or begins, leaves them too.
LEMMA EvidenceEnds ==
  ASSUME TypeOK, Discipline, EvidenceSealed, EvidenceRecorded,
         \/ Reopen \/ Crash
         \/ \E why : Raise(why) /\ UNCHANGED <<journal, world>>
  PROVE  EvidenceSealed' /\ EvidenceRecorded'
<1>1. journal \in Journals
  BY TypedParts
<1>2. Stop => engine'.pc = "stopped"
  BY DEF Stop, Session
<1>3. UNCHANGED records
  BY DEF Reopen, Crash, world
<1>4. CASE UNCHANGED journal /\ Stop
  BY <1>2, <1>3, <1>4, OutsideStep DEF Outside
<1>5. CASE Reopen
  <2>1. journal.receipt = "none"
    BY <1>5, ResumableOpen DEF Reopen
  <2>2. CASE PublishReceipt("failed_before_target_mutation", "abandoned")
    <3>1. /\ UNCHANGED <<journal.evidence, journal.projection, journal.progress,
                         journal.recovery>>
          /\ journal'.receipt = "failed_before_target_mutation"
      BY <1>1, <2>2 DEF PublishReceipt, Journals
    <3>2. Outside
      BY <1>2, <2>1, <2>2, <3>1 DEF PublishReceipt, Outside, Outcome
    <3> QED  BY <1>3, <3>1, <3>2, OutsideStep
  <2>3. CASE UNCHANGED journal /\ engine'.pc \in {"rejected", "captures"}
    BY <1>3, <2>3, OutsideStep DEF Outside
  <2>4. \A mode : \A pc : \A v : engine' = Session(mode, pc, v) => engine'.pc = pc
    BY DEF Session
  <2> QED  BY <1>4, <1>5, <2>2, <2>3, <2>4 DEF Reopen, Raise
<1> QED  BY <1>4, <1>5 DEF Raise, Crash, world

\* What the engine may rely on at an evidence position.
LEMMA EvidenceFacts ==
  ASSUME TypeOK, Discipline
  PROVE  /\ PublishEvidence \in Effects \ OneShot /\ SyncEvidence \in Effects \ OneShot
         /\ PublishEvidence # SyncEvidence
         /\ journal.progress[PublishEvidence] \in {"none", "intent"} \cup Match
         /\ journal.progress[SyncEvidence] \in {"none", "intent"} \cup DurabilityFact
         /\ Done(PublishEvidence) <=> journal.progress[PublishEvidence] = "completed"
         /\ Done(SyncEvidence) <=> journal.progress[SyncEvidence] = "confirmed"
         /\ engine.pc = "publish_evidence" /\ engine.call # "idle" =>
              engine.call \in {"issued"} \cup Match
              /\ (journal.progress[PublishEvidence] = "intent" \/ Republish)
         /\ engine.pc = "sync_evidence" /\ engine.call # "idle" =>
              engine.call \in {"issued"} \cup DurabilityFact
         /\ engine.projection # 0
<1>1. /\ PublishEvidence \in Effects \ OneShot /\ SyncEvidence \in Effects \ OneShot
      /\ PublishEvidence # SyncEvidence
  BY SynchronizedDomains DEF PublishEvidence, SyncEvidence, Global
<1>2. /\ FactsOf(PublishEvidence[1]) = Match
      /\ FactsOf(SyncEvidence[1]) = DurabilityFact
  BY DEF PublishEvidence, SyncEvidence, Global, FactsOf, Match
<1>3. /\ journal.progress[PublishEvidence] \in {"none", "intent"} \cup Match
      /\ journal.progress[SyncEvidence] \in {"none", "intent"} \cup DurabilityFact
  BY <1>1, <1>2 DEF Discipline, FactsKept
<1>4. Done(PublishEvidence) <=> journal.progress[PublishEvidence] = "completed"
  BY <1>3 DEF Done, Terminal, TerminalEvent, Match
<1>5. Done(SyncEvidence) <=> journal.progress[SyncEvidence] = "confirmed"
  BY <1>3 DEF Done, Terminal, TerminalEvent, DurabilityFact
<1>6. ASSUME engine.call # "idle", engine.pc \in {"publish_evidence", "sync_evidence"}
      PROVE  \E e \in Effects : InFlight(e)
  BY <1>6 DEF Discipline, CallOwned
<1>7. engine.pc = "publish_evidence" => \A e : Turn(e) => e = PublishEvidence
  BY DEF Turn
<1>8. engine.pc = "sync_evidence" => \A e : Turn(e) => e = SyncEvidence
  BY DEF Turn
<1>9. engine.projection # 0
  BY TypedParts, BoundsAssumption DEF Sessions
<1> QED  BY <1>1, <1>2, <1>3, <1>4, <1>5, <1>6, <1>7, <1>8, <1>9 DEF InFlight

\* A step that leaves journal and records at an evidence position.
LEMMA EvidenceHeld ==
  ASSUME EvidenceSealed, EvidenceRecorded, UNCHANGED <<journal, records>>,
         engine'.projection = engine.projection, engine'.call \in {"idle", "issued"},
         \/ engine'.pc = engine.pc /\ engine.pc # "seal"
         \/ /\ engine'.pc = "sync_evidence" /\ journal.projection # 0
            /\ engine.projection \in records.published
         \/ /\ engine'.pc = "seal"
            /\ engine'.verdict.outcome = "completed" <=> engine'.verdict.evidence # 0
            /\ engine'.verdict.evidence # 0 => engine'.verdict.evidence \in records.durable
  PROVE  EvidenceSealed' /\ EvidenceRecorded'
<1>1. Intended(SyncEvidence)' = Intended(SyncEvidence)
      /\ Done(SyncEvidence)' = Done(SyncEvidence)
  BY TerminalStays DEF Intended
<1>2. EvidenceSealed'
  BY DEF EvidenceSealed
<1>3. EvidenceRecorded'
  BY <1>1 DEF EvidenceRecorded
<1> QED  BY <1>2, <1>3

\* The verdicts of a publication or synchronization that did not succeed seal
\* no evidence.
LEMMA VerdictSteps ==
  ASSUME TypeOK
  PROVE  /\ \A event : EvidenceVerdict(event).outcome # "completed"
         /\ \A event : EvidenceVerdict(event).evidence = 0
         /\ CompletedVerdict.outcome = "completed"
         /\ CompletedVerdict.evidence = engine.projection
         /\ \A v : SealWith(v) => /\ engine'.pc = "seal" /\ engine'.call = "idle"
                                  /\ engine'.verdict = v
                                  /\ engine'.projection = engine.projection
         /\ \A pc : Goto(pc) => /\ engine'.pc = pc /\ engine'.call = "idle"
                                /\ engine'.projection = engine.projection
         /\ \A call : engine' = [engine EXCEPT !.call = call] =>
              /\ engine'.pc = engine.pc /\ engine'.call = call
              /\ engine'.projection = engine.projection
<1>1. engine \in Sessions
  BY TypedParts
<1>2. /\ \A event : EvidenceVerdict(event).outcome # "completed"
      /\ \A event : EvidenceVerdict(event).evidence = 0
  BY DEF EvidenceVerdict
<1>3. /\ CompletedVerdict.outcome = "completed"
      /\ CompletedVerdict.evidence = engine.projection
  BY DEF CompletedVerdict
<1>4. ASSUME NEW v, SealWith(v)
      PROVE  /\ engine'.pc = "seal" /\ engine'.call = "idle" /\ engine'.verdict = v
             /\ engine'.projection = engine.projection
  BY <1>1, <1>4 DEF SealWith, Sessions
<1>5. ASSUME NEW pc, Goto(pc)
      PROVE  /\ engine'.pc = pc /\ engine'.call = "idle"
             /\ engine'.projection = engine.projection
  BY <1>1, <1>5 DEF Goto, Sessions
<1>6. ASSUME NEW call, engine' = [engine EXCEPT !.call = call]
      PROVE  /\ engine'.pc = engine.pc /\ engine'.call = call
             /\ engine'.projection = engine.projection
  BY <1>1, <1>6 DEF Sessions
<1> QED  BY <1>2, <1>3, <1>4, <1>5, <1>6

\* Publication of completed evidence.
LEMMA PublicationEvidence ==
  ASSUME TypeOK, Discipline, EvidenceSealed, EvidenceRecorded,
         PublishCompletedEvidence \/ ResumePublication
  PROVE  EvidenceSealed' /\ EvidenceRecorded'
<1>1. /\ journal \in Journals /\ engine \in Sessions
      /\ records \in [published : SUBSET (1 .. MaxProjections),
                      durable : SUBSET (1 .. MaxProjections)]
  BY TypedParts
<1>2. engine.pc = "publish_evidence"
  BY DEF PublishCompletedEvidence, ResumePublication, At
<1>3. ASSUME NEW verdict, SealWith(verdict), UNCHANGED <<journal, records>>,
             verdict.outcome # "completed", verdict.evidence = 0
      PROVE  EvidenceSealed' /\ EvidenceRecorded'
  BY <1>3, VerdictSteps, EvidenceHeld
<1>4. CASE PublishIntent(PublishEvidence, "result_observed")
  <2>1. /\ AppendEvent(PublishEvidence, "result_observed", "intent") /\ UNCHANGED records
        /\ engine'.pc = "publish_evidence" /\ engine'.call = "issued"
        /\ journal.progress[PublishEvidence] = "none"
    BY <1>2, <1>4, VerdictSteps DEF PublishIntent, Intended, world
  <2>2. /\ UNCHANGED <<journal.projection, journal.evidence, journal.receipt,
                       journal.recovery>>
        /\ journal'.progress[PublishEvidence] = "intent"
        /\ journal'.progress[SyncEvidence] = journal.progress[SyncEvidence]
    BY <2>1, AppendedEvent, EvidenceFacts
  <2>3. Intended(SyncEvidence)' = Intended(SyncEvidence)
        /\ Done(SyncEvidence)' = Done(SyncEvidence)
    BY <2>2, TerminalStays DEF Intended
  <2> QED  BY <2>1, <2>2, <2>3 DEF EvidenceSealed, EvidenceRecorded
<1>5. CASE PublishEvidenceRecord
  <2>1. PICK fact \in {"completed", "failed", "indeterminate"} :
          /\ Return(fact)
          /\ records' \in {records, [records EXCEPT !.published = @ \cup {engine.projection}]}
          /\ fact = "completed" => engine.projection \in records'.published
    BY <1>5 DEF PublishEvidenceRecord
  <2>2. records'.durable = records.durable /\ records.published \subseteq records'.published
    BY <1>1, <2>1
  <2>3. /\ UNCHANGED journal /\ engine'.pc = "publish_evidence" /\ engine'.call = fact
        /\ engine'.projection = engine.projection
    BY <1>2, <2>1, VerdictSteps DEF Return
  <2>4. Intended(SyncEvidence)' = Intended(SyncEvidence)
        /\ Done(SyncEvidence)' = Done(SyncEvidence)
    BY <2>3, TerminalStays DEF Intended
  <2>5. EvidenceSealed'
    BY <2>2, <2>3 DEF EvidenceSealed
  <2>6. EvidenceRecorded'
    BY <2>1, <2>2, <2>3, <2>4 DEF EvidenceRecorded
  <2> QED  BY <2>5, <2>6
<1>6. CASE RecordEvidence
  <2>1. engine.call \in Match /\ journal.progress[PublishEvidence] = "intent"
    BY <1>2, <1>6, EvidenceFacts DEF RecordEvidence, Fact, OperationFact, DurabilityFact
  <2>2. journal.projection = 0 /\ ~Intended(SyncEvidence) /\ ~Done(SyncEvidence)
    BY <2>1, EvidenceFacts DEF EvidenceRecorded, Intended, DurabilityFact
  <2>3. /\ UNCHANGED <<journal.evidence, journal.receipt, journal.recovery, records>>
        /\ journal'.progress[PublishEvidence] = engine.call
        /\ journal'.progress[SyncEvidence] = journal.progress[SyncEvidence]
        /\ journal'.projection = IF engine.call = "completed" THEN engine.projection ELSE 0
    BY <1>1, <1>6, EvidenceFacts DEF RecordEvidence, Journals, world
  <2>4. ~Intended(SyncEvidence)' /\ ~Done(SyncEvidence)'
    BY <2>2, <2>3, TerminalStays DEF Intended
  <2>5. CASE engine.call = "completed"
    <3>1. /\ engine'.pc = "sync_evidence" /\ engine'.call = "idle"
          /\ engine'.projection = engine.projection
      BY <1>6, <2>5, VerdictSteps DEF RecordEvidence
    <3>2. engine.projection \in records.published /\ engine.projection # 0
      BY <1>2, <2>5, EvidenceFacts DEF EvidenceRecorded
    <3>3. EvidenceSealed'
      BY <2>3, <3>1 DEF EvidenceSealed
    <3>4. EvidenceRecorded'
      BY <2>3, <2>4, <2>5, <3>1, <3>2 DEF EvidenceRecorded
    <3> QED  BY <3>3, <3>4
  <2>6. CASE engine.call # "completed"
    <3>1. /\ engine'.pc = "seal" /\ engine'.call = "idle"
          /\ engine'.verdict.outcome # "completed" /\ engine'.verdict.evidence = 0
      BY <1>6, <2>6, VerdictSteps DEF RecordEvidence
    <3>2. EvidenceSealed'
      BY <2>3, <3>1 DEF EvidenceSealed
    <3>3. EvidenceRecorded'
      BY <2>3, <2>4, <2>6, <3>1 DEF EvidenceRecorded
    <3> QED  BY <3>2, <3>3
  <2> QED  BY <2>5, <2>6
<1>7. CASE RetryIntended(PublishEvidence)
  BY <1>2, <1>7, VerdictSteps, EvidenceHeld DEF RetryIntended, world
<1>8. CASE ResumePublication
  <2>1. CASE /\ Raise("completed_evidence_contradicts_journal")
             /\ UNCHANGED <<journal, world, crashes>>
    BY <2>1, EvidenceEnds
  <2>2. CASE /\ \/ ~Republish /\ Done(PublishEvidence)
                \/ engine.call = "completed" /\ Republish
             /\ Proceed("sync_evidence")
    <3>1. journal.projection # 0 /\ engine.projection \in records.published
      BY <1>2, <2>2, EvidenceFacts DEF EvidenceRecorded, Republish
    <3> QED  BY <2>2, <3>1, VerdictSteps, EvidenceHeld DEF Proceed, world
  <2>3. CASE /\ engine' = [engine EXCEPT !.call = "issued"]
             /\ UNCHANGED <<journal, world, thrown, crashes>>
    BY <1>2, <2>3, VerdictSteps, EvidenceHeld DEF world
  <2>4. CASE /\ SealWith(EvidenceVerdict(engine.call))
             /\ UNCHANGED <<journal, world, thrown, crashes>>
    BY <1>3, <2>4, VerdictSteps DEF world
  <2> QED  BY <1>8, <2>1, <2>2, <2>3, <2>4 DEF ResumePublication
<1> QED  BY <1>4, <1>5, <1>6, <1>7, <1>8 DEF PublishCompletedEvidence

\* Synchronization of completed evidence, and the verdict it leads to.
LEMMA SynchronizationEvidence ==
  ASSUME TypeOK, Discipline, EvidenceSealed, EvidenceRecorded,
         SynchronizeCompletedEvidence \/ ResumeSynchronization
  PROVE  EvidenceSealed' /\ EvidenceRecorded'
<1>1. /\ journal \in Journals /\ engine \in Sessions
      /\ records \in [published : SUBSET (1 .. MaxProjections),
                      durable : SUBSET (1 .. MaxProjections)]
  BY TypedParts
<1>2. engine.pc = "sync_evidence"
  BY DEF SynchronizeCompletedEvidence, ResumeSynchronization, At
<1>3. /\ engine.projection \in records.published /\ engine.projection # 0
      /\ journal.projection # 0 /\ journal.projection \in records.published
  BY <1>2, EvidenceFacts DEF EvidenceRecorded
<1>4. ASSUME NEW call \in DurabilityFact,
             TerminalEvent(SyncEvidence, call) = "completed"
      PROVE  call = "confirmed"
  BY <1>4 DEF TerminalEvent, DurabilityFact
<1>5. ASSUME engine.call = "confirmed"
      PROVE  /\ engine.projection \in records.durable
             /\ journal.projection \in records.durable
  BY <1>2, <1>3, <1>5 DEF EvidenceRecorded
<1>6. ASSUME NEW event, EvidenceSynchronized(event),
             event = "completed" => engine.projection \in records.durable
      PROVE  /\ engine'.pc = "seal" /\ engine'.call = "idle"
             /\ engine'.projection = engine.projection
             /\ engine'.verdict.outcome = "completed" <=> engine'.verdict.evidence # 0
             /\ engine'.verdict.evidence # 0 => engine'.verdict.evidence \in records.durable
  <2>1. PICK v : v = (IF event = "completed" THEN CompletedVerdict
                      ELSE EvidenceVerdict(event)) /\ SealWith(v)
    BY <1>6 DEF EvidenceSynchronized
  <2>2. /\ v.outcome = "completed" <=> v.evidence # 0
        /\ v.evidence # 0 => v.evidence \in records.durable
    BY <1>3, <1>6, <2>1, VerdictSteps
  <2> QED  BY <2>1, <2>2, VerdictSteps
<1>7. CASE PublishIntent(SyncEvidence, "result_observed")
  <2>1. /\ AppendEvent(SyncEvidence, "result_observed", "intent") /\ UNCHANGED records
        /\ engine'.pc = "sync_evidence" /\ engine'.call = "issued"
        /\ engine'.projection = engine.projection
    BY <1>2, <1>7, VerdictSteps DEF PublishIntent, world
  <2>2. /\ UNCHANGED <<journal.projection, journal.evidence, journal.receipt>>
        /\ journal'.progress[SyncEvidence] = "intent"
        /\ journal'.progress[PublishEvidence] = journal.progress[PublishEvidence]
    BY <2>1, AppendedEvent, EvidenceFacts
  <2>3. ~Done(SyncEvidence)'
    BY <2>2 DEF Done, Terminal
  <2>4. EvidenceSealed'
    BY <2>1, <2>2 DEF EvidenceSealed
  <2>5. EvidenceRecorded'
    BY <1>3, <2>1, <2>2, <2>3 DEF EvidenceRecorded
  <2> QED  BY <2>4, <2>5
<1>8. CASE RetryIntended(SyncEvidence)
  BY <1>2, <1>8, VerdictSteps, EvidenceHeld DEF RetryIntended, world
<1>9. CASE SynchronizeEvidence
  <2>1. PICK fact \in DurabilityFact :
          /\ Return(fact)
          /\ records' \in {records, [records EXCEPT !.durable = records.published]}
          /\ fact = "confirmed" => records'.durable = records'.published
    BY <1>9 DEF SynchronizeEvidence
  <2>2. /\ records'.published = records.published
        /\ records'.durable \subseteq records'.published
        /\ records.durable \subseteq records'.durable
    BY <1>1, <2>1 DEF EvidenceRecorded
  <2>3. /\ UNCHANGED journal /\ engine'.pc = "sync_evidence" /\ engine'.call = fact
        /\ engine'.projection = engine.projection
    BY <1>2, <2>1, VerdictSteps DEF Return
  <2>4. Intended(SyncEvidence)' = Intended(SyncEvidence)
        /\ Done(SyncEvidence)' = Done(SyncEvidence)
    BY <2>3, TerminalStays DEF Intended
  <2>5. EvidenceSealed'
    BY <2>2, <2>3 DEF EvidenceSealed
  <2>6. EvidenceRecorded'
    BY <1>3, <2>1, <2>2, <2>3, <2>4 DEF EvidenceRecorded
  <2> QED  BY <2>5, <2>6
<1>10. CASE /\ engine.call \in Fact
            /\ AppendEvent(SyncEvidence, "result_observed", engine.call)
            /\ EvidenceSynchronized(TerminalEvent(SyncEvidence, engine.call))
            /\ UNCHANGED <<world, thrown, crashes>>
  <2>1. engine.call \in DurabilityFact
    BY <1>2, <1>10, EvidenceFacts DEF Fact, OperationFact, DurabilityFact
  <2>2. /\ UNCHANGED <<journal.projection, journal.evidence, journal.receipt,
                       journal.recovery, records>>
        /\ journal'.progress[SyncEvidence] = engine.call
        /\ journal'.progress[PublishEvidence] = journal.progress[PublishEvidence]
    BY <1>10, AppendedEvent, EvidenceFacts DEF world
  <2>3. ASSUME Done(SyncEvidence)' PROVE journal.projection \in records.durable
    <3>1. engine.call = "confirmed"
      BY <2>1, <2>2, <2>3 DEF Done, Terminal, TerminalEvent, DurabilityFact
    <3> QED  BY <1>5, <3>1
  <2>4. /\ engine'.pc = "seal"
        /\ engine'.verdict.outcome = "completed" <=> engine'.verdict.evidence # 0
        /\ engine'.verdict.evidence # 0 => engine'.verdict.evidence \in records.durable
    BY <1>4, <1>5, <1>6, <1>10, <2>1
  <2>5. EvidenceSealed'
    BY <2>2, <2>4 DEF EvidenceSealed
  <2>6. EvidenceRecorded'
    BY <1>3, <2>2, <2>3, <2>4 DEF EvidenceRecorded
  <2> QED  BY <2>5, <2>6
<1>11. CASE ResumeSynchronization
  <2>1. UNCHANGED <<journal, records>>
    BY <1>11 DEF ResumeSynchronization, world
  <2>2. CASE engine' = [engine EXCEPT !.call = "issued"]
    BY <1>2, <2>1, <2>2, VerdictSteps, EvidenceHeld
  <2>3. CASE ~Republish /\ EvidenceSynchronized(Terminal(SyncEvidence))
    <3>1. Terminal(SyncEvidence) = "completed" => engine.projection \in records.durable
      BY <1>3, <2>3 DEF EvidenceRecorded, Done, Republish
    <3> QED  BY <1>6, <2>1, <2>3, <3>1, EvidenceHeld
  <2>4. CASE /\ engine.call \in Fact
             /\ EvidenceSynchronized(TerminalEvent(SyncEvidence, engine.call))
    <3>1. engine.call \in DurabilityFact
      BY <1>2, <2>4, EvidenceFacts DEF Fact, OperationFact, DurabilityFact
    <3>2. /\ engine'.pc = "seal" /\ engine'.call = "idle"
          /\ engine'.projection = engine.projection
          /\ engine'.verdict.outcome = "completed" <=> engine'.verdict.evidence # 0
          /\ engine'.verdict.evidence # 0 => engine'.verdict.evidence \in records.durable
      BY <1>4, <1>5, <1>6, <2>4, <3>1
    <3> QED  BY <2>1, <3>2, EvidenceHeld
  <2> QED  BY <1>11, <2>2, <2>3, <2>4 DEF ResumeSynchronization
<1> QED  BY <1>7, <1>8, <1>9, <1>10, <1>11 DEF SynchronizeCompletedEvidence

\* The receipt takes over the verdict, evidence and all.
LEMMA SealEvidence ==
  ASSUME TypeOK, Discipline, EvidenceSealed, EvidenceRecorded, SealTerminalReceipt
  PROVE  EvidenceSealed' /\ EvidenceRecorded'
<1>1. journal \in Journals /\ engine.pc = "seal" /\ UNCHANGED records
  BY TypedParts DEF SealTerminalReceipt, At, world
<1>2. Seal \in Effects /\ Seal \notin {PublishEvidence, SyncEvidence}
  BY SynchronizedDomains DEF Seal, PublishEvidence, SyncEvidence, Global
<1>3. PublishEvidence \in Effects /\ SyncEvidence \in Effects
  BY EvidenceFacts
<1>4. ASSUME journal'.recovery = journal.recovery,
             journal'.projection = journal.projection,
             journal'.progress[PublishEvidence] = journal.progress[PublishEvidence],
             journal'.progress[SyncEvidence] = journal.progress[SyncEvidence],
             engine'.pc \in {"seal", "stopped"}
      PROVE  EvidenceRecorded'
  <2>1. Intended(SyncEvidence)' = Intended(SyncEvidence)
        /\ Done(SyncEvidence)' = Done(SyncEvidence)
    BY <1>4, TerminalStays DEF Intended
  <2> QED  BY <1>1, <1>4, <2>1 DEF EvidenceRecorded
<1>5. CASE AppendEvent(Seal, journal.state, "intent") /\ UNCHANGED engine
  <2>1. /\ UNCHANGED <<journal.projection, journal.evidence, journal.receipt,
                       journal.recovery>>
        /\ journal'.progress[SyncEvidence] = journal.progress[SyncEvidence]
        /\ journal'.progress[PublishEvidence] = journal.progress[PublishEvidence]
    BY <1>2, <1>3, <1>5, AppendedEvent
  <2>2. EvidenceSealed'
    BY <1>1, <1>5, <2>1 DEF EvidenceSealed
  <2> QED  BY <1>1, <1>4, <1>5, <2>1, <2>2
<1>6. CASE /\ journal' = [journal EXCEPT
                            !.state = engine.verdict.state,
                            !.progress[Seal] = "completed",
                            !.receipt = engine.verdict.outcome,
                            !.evidence = engine.verdict.evidence]
           /\ Stop
  <2>1. /\ UNCHANGED <<journal.projection, journal.recovery>>
        /\ journal'.receipt = engine.verdict.outcome
        /\ journal'.evidence = engine.verdict.evidence
        /\ journal'.progress[SyncEvidence] = journal.progress[SyncEvidence]
        /\ journal'.progress[PublishEvidence] = journal.progress[PublishEvidence]
    BY <1>1, <1>2, <1>3, <1>6 DEF Journals
  <2>2. engine'.pc = "stopped"
    BY <1>6 DEF Stop, Session
  <2>3. EvidenceSealed'
    BY <1>1, <2>1, <2>2 DEF EvidenceSealed
  <2> QED  BY <1>4, <2>1, <2>2, <2>3
<1>7. CASE Raise("unfinished_effects") /\ UNCHANGED <<journal, world, crashes>>
  <2>1. UNCHANGED <<journal, world>>
    BY <1>7
  <2> QED  BY <1>7, <2>1, EvidenceEnds
<1> QED  BY <1>5, <1>6, <1>7 DEF SealTerminalReceipt

\* Every step keeps what is recorded and sealed of completed evidence.
LEMMA EvidenceStep ==
  ASSUME TypeOK, Discipline, EvidenceSealed, EvidenceRecorded, [Next]_vars
  PROVE  EvidenceSealed' /\ EvidenceRecorded'
<1>1. Advances
  BY DisciplineStep
<1>2. CASE PublishCompletedEvidence \/ ResumePublication
  BY <1>2, PublicationEvidence
<1>3. CASE SynchronizeCompletedEvidence \/ ResumeSynchronization
  BY <1>3, SynchronizationEvidence
<1>4. CASE SealTerminalReceipt
  BY <1>4, SealEvidence
<1>5. CASE Reopen \/ Crash
  BY <1>5, EvidenceEnds
<1>6. CASE /\ Next
           /\ ~(\/ PublishCompletedEvidence \/ ResumePublication
                \/ SynchronizeCompletedEvidence \/ ResumeSynchronization
                \/ SealTerminalReceipt \/ Reopen \/ Crash)
  <2>1. engine.mode # "off" /\ engine.pc \notin {"publish_evidence", "sync_evidence", "seal"}
    BY <1>6
       DEF Next, EngineStep, FreshStep, RestartStep, At, Admit, CaptureOldObjects,
           StageIncomingPayloads, SynchronizeIncoming, SynchronizeRecovery,
           BeginMutation, PublishRejected, SynchronizeRejected, ExecuteActiveEffects,
           SynchronizeActive, InterruptSynchronization, ObserveIntent, Observe,
           RecordObservation, JudgeObservation, RecoverNothing, RecoverUnselected,
           BeginRecovery, RecoverCandidates, SynchronizeRecovered, ConcludeRecovery,
           ResumeInterruptSynchronization, ResumeConcludeRecovery
  <2> QED  BY <1>1, <1>6, <2>1, EvidenceElsewhere
<1>7. CASE UNCHANGED vars
  <2>1. Intended(SyncEvidence)' = Intended(SyncEvidence)
        /\ Done(SyncEvidence)' = Done(SyncEvidence)
    BY <1>7, TerminalStays DEF Intended, vars
  <2>2. EvidenceSealed'
    BY <1>7 DEF EvidenceSealed, vars
  <2>3. EvidenceRecorded'
    BY <1>7, <2>1 DEF EvidenceRecorded, vars
  <2> QED  BY <2>2, <2>3
<1> QED  BY <1>2, <1>3, <1>4, <1>5, <1>6, <1>7

\* Initially there is no evidence.
LEMMA EvidenceInit == Init => EvidenceSealed /\ EvidenceRecorded
<1> SUFFICES ASSUME Init PROVE EvidenceSealed /\ EvidenceRecorded
  OBVIOUS
<1>1. PublishEvidence \in Effects /\ SyncEvidence \in Effects
  BY SynchronizedDomains
<1>2. /\ journal.progress[PublishEvidence] = "none" /\ journal.progress[SyncEvidence] = "none"
      /\ journal.receipt = "none" /\ journal.evidence = 0 /\ journal.projection = 0
  BY <1>1 DEF Init
<1>3. engine.pc = "admit" /\ records.published = {} /\ records.durable = {}
  BY DEF Init, Session
<1>4. ~Intended(SyncEvidence) /\ ~Done(SyncEvidence)
  BY <1>2 DEF Intended, Done, Terminal
<1>5. EvidenceSealed
  BY <1>2, <1>3 DEF EvidenceSealed
<1>6. EvidenceRecorded
  BY <1>2, <1>3, <1>4 DEF EvidenceRecorded
<1> QED  BY <1>5, <1>6

\* A completed receipt carries an evidence identity whose record is durable,
\* and no other receipt carries one, whatever projections the restarts between
\* publication, synchronization and sealing were bound to.
THEOREM EvidenceDurable == Spec => []SealedEvidenceDurable
<1>1. Init => EvidenceSealed /\ EvidenceRecorded
  BY EvidenceInit
<1>2. TypeOK /\ Discipline /\ EvidenceSealed /\ EvidenceRecorded /\ [Next]_vars
        => (EvidenceSealed /\ EvidenceRecorded)'
  BY EvidenceStep
<1>3. EvidenceSealed => SealedEvidenceDurable
  BY DEF EvidenceSealed, SealedEvidenceDurable
<1> QED  BY <1>1, <1>2, <1>3, TypeCorrect, DisciplineHolds, PTL DEF Spec

=============================================================================
