------------------------ MODULE PublishedReceiptProofs ------------------------
(***************************************************************************)
(* What a receipt says of the managed target and the rejected store is     *)
(* true, and a receipt that does not say indeterminate leaves no effect    *)
(* unknown.  The engine decides both from the journal alone: the invariant *)
(* ties what the journal records to what the world shows, through the      *)
(* moment when an answer was given and is not recorded yet.                *)
(***************************************************************************)
EXTENDS ApplicationOutcomeProofs

ActiveEffect(p) == <<"publish_active_object", p>>
RejectedEffect(p) == <<"publish_rejected_object", p>>

\* The answer the session holds belongs to this effect.
Answer(e, facts) ==
  Turn(e) /\ journal.progress[e] = "intent" /\ engine.call \in facts

(***************************************************************************)
(* The invariant.                                                          *)
(***************************************************************************)
\* A path whose effect failed or kept its directory is as it was found.
Untouched ==
  \A p \in Actives :
    (\/ journal.progress[ActiveEffect(p)] \in {"failed", "conditional_retained"}
     \/ engine.pc = "active" /\ Answer(ActiveEffect(p), {"failed", "conditional_retained"}))
    => target[p] = "before"

\* A path that was recovered from an exact capture is as it was found.
Restored ==
  \A i \in Candidates :
    /\ ExactRecoveryPossible(ActiveOrder[i])
    /\ \/ journal.progress[RecoverEffect(i)] = "completed"
       \/ engine.pc = "recover" /\ Answer(RecoverEffect(i), {"completed"})
    => target[ActiveOrder[i]] = "before"

\* What is on the shelf was issued and is not reported as failed.
ShelfKnown ==
  \A p \in shelf :
    /\ issued[RejectedEffect(p)] > 0
    /\ journal.progress[RejectedEffect(p)] # "failed"
    /\ ~(engine.pc = "rejected" /\ Answer(RejectedEffect(p), {"failed"}))

\* Positions of completion and of recovery.
Completing == {"publish_evidence", "sync_evidence", "seal"}
Recovering == {"recover", "sync_recovered", "conclude"}

\* An observation is of the target as it is, and completion goes on only when
\* every path was observed as expected.
ObservationHeld ==
  /\ Observed => engine.pc \in {"observe"} \cup Completing
  /\ engine.pc = "observe" /\ Observed => engine.obs \in Observations
  /\ engine.pc \in Completing => \A p \in PlanPaths : target[p] = Expected(p)

\* Sealing never claims recovery or a failure before mutation.
SealedOutcomes ==
  {"completed", "indeterminate", "effects_visible_durability_unconfirmed"}
VerdictKnown == engine.pc = "seal" => engine.verdict.outcome \in SealedOutcomes

\* Recovery that was not entered because of an unknown result finds none among
\* the active effects.
ActivesKnown ==
  \A p \in Actives : Terminal(ActiveEffect(p)) \in {"none", "completed", "failed"}
CauseSound ==
  engine.pc \in Recovering /\ engine.cause \notin IndeterminateInterruption =>
    ActivesKnown

----------------------------------------------------------------------------
(***************************************************************************)
(* Which steps change the target and the shelf, and how.                   *)
(***************************************************************************)
\* The effects of a path are declared and one-shot.
LEMMA PathEffects ==
  /\ \A p \in Actives : ActiveEffect(p) \in OneShot /\ ActiveEffect(p) \in Effects
  /\ \A p \in Rejecteds : RejectedEffect(p) \in OneShot /\ RejectedEffect(p) \in Effects
  /\ \A i \in DOMAIN ActiveOrder :
       RecoverEffect(i) \in OneShot /\ RecoverEffect(i) \in Effects
  /\ Actives \subseteq PlanPaths /\ Rejecteds \subseteq PlanPaths
  /\ \A e \in OneShot : e[2] \in PlanPaths
BY Schedules, DeclaredEffects
   DEF ActiveEffect, RejectedEffect, OneShot, Effects, On, Actives, Rejecteds, Elements

\* A step that appends nothing and stays where it is keeps every turn.
LEMMA TurnHeld ==
  ASSUME UNCHANGED journal, engine'.pc = engine.pc, NEW e
  PROVE  Turn(e)' <=> Turn(e)
BY DEF Turn, WalkTurn, RecoveryTurn, RecoverySelected, Candidates, RecoverEffect, Done,
       Terminal, TerminalEvent, Recovery, ForRecovery, ActiveSynchronization,
       RecoveredSynchronization, PublishEvidence, SyncEvidence, Global

\* Target and shelf change only when an effect is executed.
LEMMA WorldChanges ==
  ASSUME TypeOK, Discipline, [Next]_vars
  PROVE  UNCHANGED <<target, shelf>> \/ \E e \in OneShot : Executes(e)
<1>1. CASE Next
  BY <1>1, StepKinds DEF Plain, world, PublishEvidenceRecord, SynchronizeEvidence
<1> QED  BY <1>1 DEF vars

\* An answer that waits to be recorded was brought by an execution.
LEMMA Answered ==
  ASSUME TypeOK, Discipline, [Next]_vars,
         engine'.pc \in {"rejected", "active", "recover"},
         engine'.call \notin {"idle", "issued"}
  PROVE  UNCHANGED vars \/ \E e \in OneShot : Executes(e)
<1>1. ~Plain
  BY DEF Plain, Answering
<1>2. ASSUME \/ At("publish_evidence") /\ PublishEvidenceRecord
             \/ At("sync_evidence") /\ SynchronizeEvidence
      PROVE  FALSE
  <2>1. engine \in Sessions
    BY TypedParts
  <2>2. engine'.pc = engine.pc
    BY <1>2, <2>1 DEF PublishEvidenceRecord, SynchronizeEvidence, Return, Sessions
  <2> QED  BY <1>2, <2>2 DEF At
<1>3. CASE Next
  BY <1>1, <1>2, <1>3, StepKinds
<1> QED  BY <1>3

\* What an execution does to the path it is for, and to no other.
LEMMA ExecutedOn ==
  ASSUME TypeOK, NEW e \in OneShot, Executes(e)
  PROVE  /\ \A p \in PlanPaths : target'[p] # target[p] =>
              p = e[2] /\ engine.pc \in {"active", "recover"}
         /\ \A p \in shelf' : p \notin shelf =>
              p = e[2] /\ engine.pc = "rejected" /\ engine'.call # "failed"
         /\ engine.pc = "active" /\ engine'.call \in {"failed", "conditional_retained"} =>
              target'[e[2]] = "before"
         /\ engine.pc = "recover" /\ engine'.call = "completed"
              /\ ExactRecoveryPossible(e[2]) =>
              target'[e[2]] = "before"
<1>1. engine \in Sessions /\ target \in [PlanPaths -> {"before", "after", "other"}]
  BY TypedParts DEF TypeOK
<1>2. e[2] \in PlanPaths
  BY PathEffects
<1>3. \A fact : Return(fact) => engine'.call = fact
  BY <1>1 DEF Return, Sessions
<1>4. CASE engine.pc = "rejected" /\ ExecuteRejected(e)
  BY <1>3, <1>4 DEF ExecuteRejected
<1>5. CASE engine.pc = "active" /\ ExecuteActive(e)
  BY <1>1, <1>2, <1>3, <1>5 DEF ExecuteActive
<1>6. CASE engine.pc = "recover" /\ Recover(e)
  BY <1>1, <1>2, <1>3, <1>6 DEF Recover
<1> QED  BY <1>4, <1>5, <1>6 DEF Executes

\* The effect executed where a schedule is walked is the one of its path.
LEMMA ExecutedEffect ==
  ASSUME NEW e, Turn(e)
  PROVE  /\ engine.pc = "active" => e = ActiveEffect(e[2]) /\ e[2] \in Actives
         /\ engine.pc = "rejected" => e = RejectedEffect(e[2]) /\ e[2] \in Rejecteds
         /\ engine.pc = "recover" => \E i \in Candidates : e = RecoverEffect(i)
BY DEF Turn, WalkTurn, RecoveryTurn, ActiveEffect, RejectedEffect, Actives, Rejecteds, Elements

\* What is recorded of an effect is the answer that was given for it.
LEMMA AnswerRecorded ==
  ASSUME Advances, NEW e \in Effects, e[1] \notin Unwalked,
         journal'.progress[e] \notin {"none", "intent"},
         journal'.progress[e] # journal.progress[e]
  PROVE  Answer(e, {journal'.progress[e]}) /\ journal'.progress[e] = engine.call
BY DEF Advances, Answer

----------------------------------------------------------------------------
(***************************************************************************)
(* What the journal records and what the world shows.                      *)
(***************************************************************************)
\* A held answer was held before, or was given just now for the same effect.
LEMMA AnswerStep ==
  ASSUME TypeOK, Discipline, [Next]_vars,
         engine'.pc \in {"rejected", "active", "recover"},
         NEW e, NEW facts, Answer(e, facts)', facts \cap {"idle", "issued"} = {}
  PROVE  \/ UNCHANGED vars /\ engine.pc = engine'.pc /\ Answer(e, facts)
         \/ e \in OneShot /\ Executes(e) /\ UNCHANGED journal /\ engine.pc = engine'.pc
<1>1. engine'.call \notin {"idle", "issued"}
  BY DEF Answer
<1>2. CASE UNCHANGED vars
  <2>1. UNCHANGED <<journal, engine>>
    BY <1>2 DEF vars
  <2> QED  BY <1>2, <2>1, TurnHeld DEF Answer
<1>3. ASSUME NEW f \in OneShot, Executes(f)
      PROVE  e = f /\ UNCHANGED journal /\ engine.pc = engine'.pc
  <2>1. UNCHANGED journal /\ engine.pc = engine'.pc
    BY <1>3, Executed
  <2>2. Turn(e) /\ journal.progress[e] = "intent"
    BY <2>1, TurnHeld DEF Answer
  <2>3. ~Done(e)
    BY <2>2, TerminalValues
  <2> QED  BY <1>3, <2>1, <2>2, <2>3, TurnUnique DEF Executes
<1> QED  BY <1>1, <1>2, <1>3, Answered

\* A failed or kept path is left alone from its answer on.
LEMMA UntouchedStep ==
  ASSUME TypeOK, Discipline, Advances, Untouched, [Next]_vars
  PROVE  Untouched'
<1> DEFINE kept == {"failed", "conditional_retained"}
<1> SUFFICES ASSUME NEW p \in Actives,
                    \/ journal'.progress[ActiveEffect(p)] \in kept
                    \/ engine'.pc = "active" /\ Answer(ActiveEffect(p), kept)'
             PROVE  target'[p] = "before"
  BY DEF Untouched, ActiveEffect
<1>1. PICK e \in OneShot : e = ActiveEffect(p) /\ e \in Effects
  BY PathEffects
<1>2. p \in PlanPaths /\ e[1] = "publish_active_object" /\ e[2] = p
  BY <1>1, PathEffects DEF ActiveEffect
<1>3. CASE journal'.progress[e] \in kept
  <2>1. target[p] = "before"
    <3>1. CASE journal'.progress[e] = journal.progress[e]
      BY <1>1, <1>3, <3>1 DEF Untouched
    <3>2. CASE journal'.progress[e] # journal.progress[e]
      <4>1. Answer(e, {journal'.progress[e]})
        BY <1>1, <1>2, <1>3, <3>2, AnswerRecorded DEF Unwalked
      <4>2. Answer(e, kept) /\ engine.pc = "active"
        BY <1>2, <1>3, <4>1, TurnKinds DEF Answer
      <4> QED  BY <1>1, <4>2 DEF Untouched
    <3> QED  BY <3>1, <3>2
  <2>2. ASSUME NEW f \in OneShot, Executes(f), target'[p] # target[p] PROVE FALSE
    <3>1. /\ journal.progress[f] = "intent" /\ UNCHANGED journal
          /\ Turn(f) /\ f[2] = p /\ engine.pc \in {"active", "recover"}
      BY <1>2, <2>2, Executed, ExecutedOn DEF Executes
    <3>2. f # e
      BY <1>3, <3>1
    <3>3. PICK i \in Candidates : f = RecoverEffect(i)
      BY <1>1, <3>1, <3>2, ExecutedEffect
    <3>4. ActiveOrder[i] = p
      BY <3>1, <3>3 DEF RecoverEffect
    <3> QED  BY <1>1, <1>3, <3>1, <3>4 DEF Candidates, ActiveEffect
  <2> QED  BY <2>1, <2>2, WorldChanges
<1>4. CASE engine'.pc = "active" /\ Answer(e, kept)'
  <2>1. CASE UNCHANGED vars /\ engine.pc = "active" /\ Answer(e, kept)
    BY <1>1, <2>1 DEF Untouched, vars
  <2>2. CASE Executes(e) /\ engine.pc = "active"
    BY <1>2, <1>4, <2>2, ExecutedOn DEF Answer
  <2>3. kept \cap {"idle", "issued"} = {}
    OBVIOUS
  <2> QED  BY <1>4, <2>1, <2>2, <2>3, AnswerStep
<1>5. Answer(e, kept)' <=> Answer(ActiveEffect(p), kept)'
  BY <1>1 DEF ActiveEffect
<1> QED  BY <1>1, <1>3, <1>4, <1>5

\* Whether a candidate can be restored exactly is settled before it is touched.
LEMMA ExactStays ==
  ASSUME Advances, Guarded, NEW i \in Candidates
  PROVE  ExactRecoveryPossible(ActiveOrder[i])' <=> ExactRecoveryPossible(ActiveOrder[i])
<1>1. ActiveOrder[i] \in Actives /\ Intended(ActiveEffect(ActiveOrder[i]))
  BY DEF Candidates, Actives, Elements, Intended, ActiveEffect
<1>2. CapturesDone
  BY <1>1 DEF Guarded, StagingDone, ActiveEffect
<1>3. \A p \in Captures : journal'.progress[<<"capture_old_object", p>>]
                            = journal.progress[<<"capture_old_object", p>>]
  BY <1>2, DoneStays, PhaseEffects DEF CapturesDone
<1> QED  BY <1>3 DEF ExactRecoveryPossible

\* What was recovered exactly stays so until the receipt and after it.
LEMMA RestoredStep ==
  ASSUME TypeOK, Discipline, Lifecycle, Advances, Guarded, RecoveryBegun, Restored,
         [Next]_vars
  PROVE  Restored'
<1> SUFFICES ASSUME NEW i \in Candidates', ExactRecoveryPossible(ActiveOrder[i])',
                    \/ journal'.progress[RecoverEffect(i)] = "completed"
                    \/ engine'.pc = "recover" /\ Answer(RecoverEffect(i), {"completed"})'
             PROVE  target'[ActiveOrder[i]] = "before"
  BY DEF Restored, RecoverEffect
<1>0. i \in DOMAIN ActiveOrder
  BY DEF Candidates
<1>1. PICK e \in OneShot : e = RecoverEffect(i) /\ e \in Effects
  BY <1>0, PathEffects
<1>2. PICK p \in PlanPaths : p = ActiveOrder[i]
  BY <1>0, Schedules
<1>3. e[1] = "recover_active_object" /\ e[2] = p
  BY <1>1, <1>2 DEF RecoverEffect
<1>4. CASE journal'.progress[e] = "completed"
  <2>1. Intended(e)
    BY <1>1, <1>3, <1>4 DEF Advances, Intended, Unwalked
  <2>2. journal.receipt # "none" \/ journal.state = "recovering"
    BY <1>0, <1>1, <2>1 DEF RecoveryBegun
  <2>3. i \in Candidates /\ ExactRecoveryPossible(ActiveOrder[i])
    BY <2>2, CandidatesFrozen, ExactStays
  <2>4. target[p] = "before"
    <3>1. CASE journal'.progress[e] = journal.progress[e]
      BY <1>1, <1>2, <1>4, <2>3, <3>1 DEF Restored
    <3>2. CASE journal'.progress[e] # journal.progress[e]
      <4>1. Answer(e, {"completed"})
        BY <1>1, <1>3, <1>4, <3>2, AnswerRecorded DEF Unwalked
      <4>2. engine.pc = "recover"
        BY <1>3, <4>1, TurnKinds DEF Answer
      <4> QED  BY <1>1, <1>2, <2>3, <4>1, <4>2 DEF Restored
    <3> QED  BY <3>1, <3>2
  <2>5. ASSUME NEW f \in OneShot, Executes(f), target'[p] # target[p] PROVE FALSE
    <3>1. /\ journal.progress[f] = "intent" /\ UNCHANGED journal
          /\ engine.mode # "off"
          /\ Turn(f) /\ f[2] = p /\ engine.pc \in {"active", "recover"}
      BY <2>5, Executed, ExecutedOn DEF Executes
    <3>2. engine.pc = "recover"
      BY <2>2, <3>1, LiveSession DEF Reached
    <3>3. PICK k \in Candidates : f = RecoverEffect(k)
      BY <3>1, <3>2, ExecutedEffect
    <3>4. f = e
      BY <1>1, <1>2, <3>1, <3>3 DEF RecoverEffect
    <3> QED  BY <1>4, <3>1, <3>4
  <2> QED  BY <1>2, <2>4, <2>5, WorldChanges
<1>5. CASE engine'.pc = "recover" /\ Answer(e, {"completed"})'
  <2>1. CASE UNCHANGED vars /\ engine.pc = "recover" /\ Answer(e, {"completed"})
    <3>1. UNCHANGED <<journal, target>>
      BY <2>1 DEF vars
    <3>2. i \in Candidates /\ ExactRecoveryPossible(ActiveOrder[i])
      BY <3>1 DEF Candidates, ExactRecoveryPossible
    <3> QED  BY <1>1, <2>1, <3>1, <3>2 DEF Restored
  <2>2. CASE Executes(e) /\ UNCHANGED journal /\ engine.pc = "recover"
    <3>1. ExactRecoveryPossible(e[2])
      BY <1>2, <1>3, <2>2 DEF ExactRecoveryPossible
    <3> QED  BY <1>2, <1>3, <1>5, <2>2, <3>1, ExecutedOn DEF Answer
  <2> QED  BY <1>5, <2>1, <2>2, AnswerStep
<1>6. Answer(e, {"completed"})' <=> Answer(RecoverEffect(i), {"completed"})'
  BY <1>1 DEF RecoverEffect
<1> QED  BY <1>1, <1>4, <1>5, <1>6

\* A rejected publication that failed left nothing on the shelf.
LEMMA ShelfKnownStep ==
  ASSUME TypeOK, Discipline, Advances, ShelfKnown, [Next]_vars
  PROVE  ShelfKnown'
<1> SUFFICES ASSUME NEW p \in shelf'
             PROVE  /\ issued'[RejectedEffect(p)] > 0
                    /\ journal'.progress[RejectedEffect(p)] # "failed"
                    /\ ~(engine'.pc = "rejected"
                         /\ Answer(RejectedEffect(p), {"failed"})')
  BY DEF ShelfKnown, RejectedEffect
<1>1. p \in Rejecteds
  <2>1. TypeOK'
    BY TypeStep
  <2> QED  BY <2>1 DEF TypeOK
<1>2. PICK e \in OneShot : e = RejectedEffect(p) /\ e \in Effects
  BY <1>1, PathEffects
<1>3. e[1] = "publish_rejected_object" /\ e[2] = p
  BY <1>2 DEF RejectedEffect
<1>4. CASE p \in shelf
  <2>1. issued[e] > 0 /\ journal.progress[e] # "failed"
    BY <1>2, <1>4 DEF ShelfKnown
  <2>2. issued'[e] > 0
    BY <2>1, IssuingSteps, Executed
  <2>3. journal'.progress[e] # "failed"
    <3>1. SUFFICES ASSUME journal'.progress[e] = "failed" PROVE FALSE
      OBVIOUS
    <3>2. Answer(e, {"failed"})
      BY <1>2, <1>3, <2>1, <3>1, AnswerRecorded DEF Unwalked
    <3>3. engine.pc = "rejected"
      BY <1>3, <3>2, TurnKinds DEF Answer
    <3> QED  BY <1>2, <1>4, <3>2, <3>3 DEF ShelfKnown
  <2>4. ~(engine'.pc = "rejected" /\ Answer(e, {"failed"})')
    <3>1. SUFFICES ASSUME engine'.pc = "rejected", Answer(e, {"failed"})' PROVE FALSE
      OBVIOUS
    <3>2. CASE UNCHANGED vars /\ engine.pc = "rejected" /\ Answer(e, {"failed"})
      BY <1>2, <1>4, <3>2 DEF ShelfKnown
    <3>3. CASE Executes(e)
      <4>1. issued[e] = 0
        BY <3>3, Executed
      <4> QED  BY <2>1, <4>1
    <3> QED  BY <3>1, <3>2, <3>3, AnswerStep
  <2>5. Answer(e, {"failed"})' <=> Answer(RejectedEffect(p), {"failed"})'
    BY <1>2 DEF RejectedEffect
  <2> QED  BY <1>2, <2>2, <2>3, <2>4, <2>5
<1>5. CASE p \notin shelf
  <2>1. PICK f \in OneShot : Executes(f)
    BY <1>5, WorldChanges
  <2>2. engine.pc = "rejected" /\ engine'.call # "failed" /\ f[2] = p
    BY <1>5, <2>1, ExecutedOn
  <2>3. f = e
    BY <1>2, <2>1, <2>2, ExecutedEffect DEF Executes
  <2>4. issued'[e] = 1 /\ journal'.progress[e] = "intent"
    BY <2>1, <2>3, Executed
  <2>5. ~Answer(RejectedEffect(p), {"failed"})'
    BY <2>2 DEF Answer
  <2> QED  BY <1>2, <2>4, <2>5
<1> QED  BY <1>4, <1>5

----------------------------------------------------------------------------
(***************************************************************************)
(* What the live session knows: its observation, its verdict and the cause *)
(* of its interruption.                                                    *)
(***************************************************************************)
\* A session that ended, begins, or goes on with preparation and mutation.
Elsewhere ==
  /\ engine'.pc \notin Completing \cup Recovering
  /\ \/ engine'.obs = NoObservation
     \/ /\ engine.pc \notin {"observe"} \cup Completing
        /\ engine'.obs = engine.obs

\* A session that stays where it is.
Stays ==
  /\ engine'.pc = engine.pc /\ engine'.obs = engine.obs
  /\ engine'.cause = engine.cause /\ engine'.verdict = engine.verdict

\* A session that goes on with completion, or with recovery.
Completes ==
  /\ engine.pc \in Completing /\ engine'.pc \in Completing
  /\ engine'.pc = "seal" => engine'.verdict.outcome \in SealedOutcomes
Recovers ==
  /\ engine.pc \in Recovering /\ engine'.pc \in Recovering
  /\ engine'.obs = engine.obs /\ engine'.cause = engine.cause

\* A session that enters recovery knows its active effects, unless it was
\* interrupted by an unknown result.
Interrupts ==
  /\ engine'.pc = "recover"
  /\ \/ engine'.obs = NoObservation
     \/ /\ engine.pc \notin {"observe"} \cup Completing
        /\ engine'.obs = engine.obs
  /\ journal'.progress = journal.progress
  /\ engine'.cause \notin IndeterminateInterruption => ActivesKnown

\* The steps by name.
LEMMA SessionSteps ==
  ASSUME TypeOK
  PROVE  /\ Stop => Elsewhere
         /\ \A why : Raise(why) => Elsewhere
         /\ \A s : \A outcome : Resolve(outcome, s) => Elsewhere
         /\ \A outcome : FailRejected(outcome) \/ SealRecoveryReceipt(outcome) => Elsewhere
         /\ engine.pc \notin {"observe"} \cup Completing =>
              \A pc : pc \notin Completing \cup Recovering /\ Goto(pc) => Elsewhere
         /\ \A call : engine' = [engine EXCEPT !.call = call] => Stays
         /\ \A fact : Return(fact) => Stays
         /\ \A e : \A s : PublishIntent(e, s) \/ PublishTerminal(e, s) => Stays
         /\ \A e : RetryIntended(e) => Stays
         /\ UNCHANGED engine => Stays
         /\ engine.pc \in Completing /\ Goto("sync_evidence") => Completes
         /\ engine.pc \in Completing =>
              \A verdict :
                SealWith(verdict) /\ verdict.outcome \in SealedOutcomes => Completes
         /\ \A pc \in Recovering : engine.pc \in Recovering /\ Goto(pc) => Recovers
         /\ \A cause :
              (cause \notin IndeterminateInterruption => ActivesKnown)
              /\ Interrupt(cause) => Interrupts
<1>1. engine \in Sessions /\ journal \in Journals
  BY TypedParts
<1>2. Stop => Elsewhere
  BY DEF Stop, Session, Elsewhere, Completing, Recovering
<1>3. \A why : Raise(why) => Elsewhere
  BY <1>2 DEF Raise
<1>4. \A s : \A outcome : Resolve(outcome, s) => Elsewhere
  BY <1>2 DEF Resolve, PublishReceipt
<1>5. \A outcome : FailRejected(outcome) \/ SealRecoveryReceipt(outcome) => Elsewhere
  BY <1>4 DEF FailRejected, SealRecoveryReceipt
<1>6. ASSUME NEW pc, Goto(pc)
      PROVE  engine'.pc = pc /\ engine'.obs = engine.obs /\ engine'.cause = engine.cause
  BY <1>1, <1>6 DEF Goto, Sessions
<1>7. ASSUME NEW pc, Goto(pc), pc \notin Completing \cup Recovering,
             engine.pc \notin {"observe"} \cup Completing
      PROVE  Elsewhere
  BY <1>6, <1>7 DEF Elsewhere
<1>8. ASSUME NEW call, engine' = [engine EXCEPT !.call = call] PROVE Stays
  BY <1>1, <1>8 DEF Stays, Sessions
<1>9. \A fact : Return(fact) => Stays
  BY <1>8 DEF Return
<1>10. \A e : \A s : PublishIntent(e, s) \/ PublishTerminal(e, s) => Stays
  BY <1>8 DEF PublishIntent, PublishTerminal
<1>11. \A e : RetryIntended(e) => Stays
  BY <1>8 DEF RetryIntended
<1>12. UNCHANGED engine => Stays
  BY DEF Stays
<1>13. engine.pc \in Completing /\ Goto("sync_evidence") => Completes
  BY <1>6 DEF Completes, Completing
<1>14. ASSUME NEW verdict, engine.pc \in Completing, SealWith(verdict),
              verdict.outcome \in SealedOutcomes
       PROVE  Completes
  BY <1>1, <1>14 DEF SealWith, Sessions, Completes, Completing
<1>15. \A pc \in Recovering : engine.pc \in Recovering /\ Goto(pc) => Recovers
  BY <1>6 DEF Recovers
<1>16. ASSUME NEW cause, cause \notin IndeterminateInterruption => ActivesKnown,
              Interrupt(cause)
       PROVE  Interrupts
  <2>1. journal'.progress = journal.progress
    BY <1>1, <1>16 DEF Interrupt, AppendState, Journals
  <2>2. engine'.pc = "recover" /\ engine'.obs = NoObservation /\ engine'.cause = cause
    BY <1>1, <1>16 DEF Interrupt, Sessions
  <2> QED  BY <1>16, <2>1, <2>2 DEF Interrupts
<1> QED
  BY <1>2, <1>3, <1>4, <1>5, <1>7, <1>8, <1>9, <1>10, <1>11, <1>12, <1>13, <1>14,
     <1>15, <1>16

\* A complete active phase leaves nothing unknown.
LEMMA ActiveDoneKnown == ActiveDone => ActivesKnown
BY DEF ActiveDone, ActivesKnown, ActiveEffect, Done

\* Nor does one that stopped at an effect that failed or was not announced.
LEMMA FailedActiveKnown ==
  ASSUME InOrder, NEW i \in DOMAIN ActiveOrder,
         Terminal(ActiveEffect(ActiveOrder[i])) \in {"none", "failed"},
         \A j \in 1 .. i - 1 : Done(ActiveEffect(ActiveOrder[j]))
  PROVE  ActivesKnown
<1> SUFFICES ASSUME NEW k \in DOMAIN ActiveOrder
             PROVE  Terminal(ActiveEffect(ActiveOrder[k])) \in {"none", "completed", "failed"}
  BY DEF ActivesKnown, Actives, Elements
<1>1. CASE k < i
  <2>1. k \in 1 .. i - 1
    BY <1>1, Schedules
  <2> QED  BY <2>1 DEF Done
<1>2. CASE k = i
  BY <1>2
<1>3. CASE i < k
  <2>1. ~Done(ActiveEffect(ActiveOrder[i]))
    BY DEF Done
  <2>2. ~Intended(ActiveEffect(ActiveOrder[k]))
    BY <1>3, <2>1 DEF InOrder, ActiveEffect
  <2> QED  BY <2>2, TerminalValues DEF Intended
<1>4. i \in Nat /\ k \in Nat
  BY Schedules
<1> QED  BY <1>1, <1>2, <1>3, <1>4

\* The cause a restart reads off the journal is sound.
LEMMA RestartCauseKnown ==
  ASSUME InOrder, RestartCause \notin IndeterminateInterruption
  PROVE  ActivesKnown
<1>1. CASE InterruptedActive = {}
  <2>1. ActiveDone
    BY <1>1, PhaseFinished DEF InterruptedActive
  <2> QED  BY <2>1, ActiveDoneKnown
<1>2. CASE InterruptedActive # {}
  <2>1. PICK i \in DOMAIN ActiveOrder :
          /\ FirstActive = ActiveEffect(ActiveOrder[i])
          /\ \A j \in 1 .. i - 1 : Done(ActiveEffect(ActiveOrder[j]))
    BY <1>2, FirstUnfinishedTurn DEF InterruptedActive, FirstActive, ActiveEffect
  <2>2. Terminal(FirstActive) \in {"none", "failed"}
    <3>1. CASE Intended(FirstActive)
      BY <1>2, <3>1 DEF RestartCause, IndeterminateInterruption
    <3>2. CASE ~Intended(FirstActive)
      BY <3>2, TerminalValues DEF Intended
    <3> QED  BY <3>1, <3>2
  <2>3. Terminal(ActiveEffect(ActiveOrder[i])) \in {"none", "failed"}
    BY <2>1, <2>2
  <2> QED  BY <2>1, <2>3, FailedActiveKnown
<1> QED  BY <1>1, <1>2

\* What an interruption of the active phase knows.
LEMMA ActiveInterruptions ==
  ASSUME TypeOK, Discipline, Lifecycle, InOrder, engine.mode # "off"
  PROVE  /\ \A e : engine.pc = "active" /\ Turn(e) /\ Terminal(e) = "failed" => ActivesKnown
         /\ engine.pc \in {"sync_active", "observe"} => ActivesKnown
<1>1. ASSUME NEW e, engine.pc = "active", Turn(e), Terminal(e) = "failed"
      PROVE  ActivesKnown
  <2>1. PICK i \in DOMAIN ActiveOrder :
          /\ e = ActiveEffect(ActiveOrder[i])
          /\ \A j \in 1 .. i - 1 : Done(ActiveEffect(ActiveOrder[j]))
    BY <1>1 DEF Turn, WalkTurn, ActiveEffect
  <2>2. Terminal(ActiveEffect(ActiveOrder[i])) = "failed"
    BY <1>1, <2>1
  <2> QED  BY <2>1, <2>2, FailedActiveKnown
<1>2. engine.pc \in {"sync_active", "observe"} => ActiveDone
  BY LiveSession DEF Reached, Vouched
<1> QED  BY <1>1, <1>2, ActiveDoneKnown

\* Every step of a session is one of these.
LEMMA SessionMoves ==
  ASSUME TypeOK, Discipline, Lifecycle, InOrder, [Next]_vars
  PROVE  \/ Elsewhere \/ Stays \/ Completes \/ Recovers \/ Interrupts
         \/ Observe
         \/ JudgeObservation /\ Goto("publish_evidence") /\ UNCHANGED world
<1> DEFINE Goal == \/ Elsewhere \/ Stays \/ Completes \/ Recovers \/ Interrupts
<1>1. engine \in Sessions
  BY TypedParts
<1>2. \A pc : pc \in {"captures", "payloads", "sync_incoming", "sync_recovery",
                      "rejected", "sync_rejected", "active", "sync_active", "observe"}
                => pc \notin Completing \cup Recovering
  BY DEF Completing, Recovering
<1>3. Synchronize => Stays
  BY SessionSteps DEF Synchronize
<1>a. CASE Admit
  <2>1. engine.pc \notin {"observe"} \cup Completing
    BY <1>a DEF Admit, At, Completing
  <2>2. Goto("captures") \/ Stop
    BY <1>a DEF Admit
  <2> QED  BY <1>2, <2>1, <2>2, SessionSteps
<1>b. CASE CaptureOldObjects
  <2>1. engine.pc \notin {"observe"} \cup Completing
    BY <1>b DEF CaptureOldObjects, At, Completing
  <2> QED  BY <1>b, <1>2, <2>1, CaptureForms, SessionSteps
          DEF CaptureOld, FailPreparation, Proceed
<1>c. CASE StageIncomingPayloads
  <2>1. engine.pc \notin {"observe"} \cup Completing
    BY <1>c DEF StageIncomingPayloads, At, Completing
  <2> QED  BY <1>c, <1>2, <2>1, PayloadForms, SessionSteps
           DEF SealPayloads, FailPreparation, Proceed
<1>d. CASE SynchronizeIncoming \/ SynchronizeRecovery
  <2>1. engine.pc \notin {"observe"} \cup Completing
    BY <1>d DEF SynchronizeIncoming, SynchronizeRecovery, At, Completing
  <2> QED  BY <1>2, <1>3, <1>d, <2>1, SessionSteps
           DEF SynchronizeIncoming, SynchronizeRecovery, SynchronizePreparation,
               FailPreparation, Proceed, ProceedIn
<1>e. CASE BeginMutation
  <2>1. engine.pc \notin {"observe"} \cup Completing
    BY <1>e DEF BeginMutation, At, Completing
  <2> QED  BY <1>2, <1>e, <2>1, SessionSteps DEF BeginMutation, ProceedIn
<1>f. CASE PublishRejected
  <2>1. engine.pc \notin {"observe"} \cup Completing
    BY <1>f DEF PublishRejected, At, Completing
  <2> QED  BY <1>2, <1>f, <2>1, RejectedForms, SessionSteps DEF ExecuteRejected, Proceed
<1>g. CASE SynchronizeRejected(RejectedPublished) \/ SynchronizeRejected(ResumeAfterRejected)
  <2>1. engine.pc \notin {"observe"} \cup Completing
    BY <1>g DEF SynchronizeRejected, At, Completing
  <2>2. ASSUME RestartInterruption PROVE Goal
    <3>1. CASE \E why : Raise(why)
      BY <3>1, SessionSteps
    <3>2. CASE /\ engine' = [engine EXCEPT !.pc = "recover", !.cause = RestartCause]
               /\ journal' = journal \/ \E s : AppendState(s)
      <4>1. journal'.progress = journal.progress
        BY <3>2, TypedParts DEF AppendState, Journals
      <4>2. engine'.pc = "recover" /\ engine'.cause = RestartCause /\ engine'.obs = engine.obs
        BY <1>1, <3>2 DEF Sessions
      <4> QED  BY <2>1, <4>1, <4>2, RestartCauseKnown DEF Interrupts
    <3> QED  BY <2>2, <3>1, <3>2 DEF RestartInterruption
  <2>3. RejectedPublished \/ ResumeAfterRejected => Goal
    BY <1>2, <2>1, <2>2, SessionSteps DEF RejectedPublished, ResumeAfterRejected, Proceed
  <2>4. \/ RejectedPublished \/ ResumeAfterRejected \/ Synchronize
        \/ \E e : \E s : PublishIntent(e, s) \/ PublishTerminal(e, s)
        \/ \E e : RetryIntended(e)
        \/ \E outcome : FailRejected(outcome)
    BY <1>g DEF SynchronizeRejected
  <2> QED  BY <1>3, <2>3, <2>4, SessionSteps
<1>h. CASE ExecuteActiveEffects
  <2>1. engine.mode # "off" /\ engine.pc = "active"
    BY <1>h DEF ExecuteActiveEffects, At
  <2>2. engine.pc \notin {"observe"} \cup Completing
    BY <2>1 DEF Completing
  <2>3. \A e : Turn(e) /\ Terminal(e) = "failed" => ActivesKnown
    BY <2>1, ActiveInterruptions
  <2>4. "effect_indeterminate" \in IndeterminateInterruption
    BY DEF IndeterminateInterruption
  <2> QED  BY <1>2, <1>h, <2>2, <2>3, <2>4, ActiveForms, SessionSteps
           DEF ExecuteActive, Proceed
<1>i. CASE SynchronizeActive \/ InterruptSynchronization \/ ResumeInterruptSynchronization
  <2>1. engine.mode # "off" /\ engine.pc = "sync_active"
    BY <1>i DEF SynchronizeActive, InterruptSynchronization,
                ResumeInterruptSynchronization, At
  <2>2. engine.pc \notin {"observe"} \cup Completing
    BY <2>1 DEF Completing
  <2>3. ActivesKnown
    BY <2>1, ActiveInterruptions
  <2> QED  BY <1>2, <1>3, <1>i, <2>2, <2>3, SessionSteps
           DEF SynchronizeActive, InterruptSynchronization,
               ResumeInterruptSynchronization, EffectsVisible, Proceed, ProceedIn
<1>j. CASE ObserveIntent \/ RecordObservation
  BY <1>j, SessionSteps DEF ObserveIntent, RecordObservation
<1>k. CASE JudgeObservation
  <2>1. engine.mode # "off" /\ engine.pc = "observe"
    BY <1>k DEF JudgeObservation, At
  <2>2. ActivesKnown
    BY <2>1, ActiveInterruptions
  <2>3. \/ \E cause : Interrupt(cause)
        \/ Goto("publish_evidence") /\ UNCHANGED world
    BY <1>k DEF JudgeObservation, Proceed, ProceedIn
  <2> QED  BY <1>k, <2>2, <2>3, SessionSteps
<1>l. CASE \/ PublishCompletedEvidence \/ SynchronizeCompletedEvidence
           \/ ResumePublication \/ ResumeSynchronization
  <2>1. engine.pc \in Completing
    BY <1>l DEF PublishCompletedEvidence, SynchronizeCompletedEvidence,
                ResumePublication, ResumeSynchronization, At, Completing
  <2>2. /\ \A event : EvidenceVerdict(event).outcome \in SealedOutcomes
        /\ CompletedVerdict.outcome \in SealedOutcomes
    BY DEF EvidenceVerdict, CompletedVerdict, SealedOutcomes
  <2>3. \A event : SealWith(EvidenceVerdict(event)) \/ EvidenceSynchronized(event) => Completes
    BY <2>1, <2>2, SessionSteps DEF EvidenceSynchronized
  <2>4. \/ \E e : \E s : PublishIntent(e, s)
        \/ \E e : RetryIntended(e)
        \/ \E fact : Return(fact)
        \/ \E call : engine' = [engine EXCEPT !.call = call]
        \/ Goto("sync_evidence")
        \/ \E why : Raise(why)
        \/ \E event : SealWith(EvidenceVerdict(event)) \/ EvidenceSynchronized(event)
    BY <1>l DEF PublishCompletedEvidence, SynchronizeCompletedEvidence,
                ResumePublication, ResumeSynchronization, PublishEvidenceRecord,
                SynchronizeEvidence, RecordEvidence, Proceed
  <2> QED  BY <2>1, <2>3, <2>4, SessionSteps
<1>m. CASE SealTerminalReceipt
  BY <1>m, SessionSteps DEF SealTerminalReceipt
<1>n. CASE RecoverNothing \/ RecoverUnselected
  <2>1. (\E outcome : SealRecoveryReceipt(outcome)) \/ (\E why : Raise(why))
    BY <1>n DEF RecoverNothing, RecoverUnselected
  <2> QED  BY <2>1, SessionSteps
<1>o. CASE BeginRecovery \/ RecoverCandidates \/ SynchronizeRecovered
  <2>1. engine.pc \in Recovering
    BY <1>o DEF BeginRecovery, RecoverCandidates, SynchronizeRecovered, At, Recovering
  <2>2. {"recover", "sync_recovered", "conclude"} = Recovering
    BY DEF Recovering
  <2>3. \/ \E pc \in {"recover", "sync_recovered", "conclude"} : Goto(pc)
        \/ \E e : \E s : PublishIntent(e, s) \/ PublishTerminal(e, s)
        \/ \E fact : Return(fact)
    BY <1>o DEF BeginRecovery, RecoverCandidates, SynchronizeRecovered, Proceed,
                ProceedIn, Recover, Synchronize
  <2> QED  BY <2>1, <2>2, <2>3, SessionSteps
<1>p. CASE ConcludeRecovery \/ ResumeConcludeRecovery
  BY <1>p, SessionSteps DEF ConcludeRecovery, ResumeConcludeRecovery
<1>q. CASE Reopen
  <2>1. ASSUME NEW pc \in {"captures", "rejected"}, NEW v,
               engine' = Session("resumed", pc, v)
        PROVE  Elsewhere
    BY <2>1 DEF Session, Elsewhere, Completing, Recovering
  <2>2. \/ \E why : Raise(why)
        \/ Stop
        \/ \E pc \in {"captures", "rejected"} : \E v : engine' = Session("resumed", pc, v)
    BY <1>q DEF Reopen, PublishReceipt
  <2> QED  BY <2>1, <2>2, SessionSteps
<1>r. CASE Crash
  BY <1>r, SessionSteps DEF Crash
<1>s. CASE UNCHANGED vars
  BY <1>s, SessionSteps DEF vars
<1>t. CASE Observe
  BY <1>t
<1> QED
  BY <1>a, <1>b, <1>c, <1>d, <1>e, <1>f, <1>g, <1>h, <1>i, <1>j, <1>k, <1>l, <1>m,
     <1>n, <1>o, <1>p, <1>q, <1>r, <1>s, <1>t
     DEF Next, EngineStep, FreshStep, RestartStep

\* What is expected of a path changes only while active effects run.
LEMMA ExpectedStays ==
  ASSUME Advances, engine.pc # "active"
  PROVE  \A p \in PlanPaths : Expected(p)' = Expected(p)
<1> SUFFICES ASSUME NEW p \in Actives PROVE Changed(p)' = Changed(p)
  BY DEF Expected
<1>1. PICK e \in Effects : e = ActiveEffect(p)
  BY PathEffects
<1>2. e[1] = "publish_active_object"
  BY <1>1 DEF ActiveEffect
<1>3. journal'.progress[e] = journal.progress[e]
  BY <1>2, TurnKinds DEF Advances, Unwalked
<1> QED  BY <1>1, <1>3 DEF Changed, ActiveEffect

\* From its observation to its receipt a session completes what it observed.
LEMMA ObservationStep ==
  ASSUME TypeOK, Discipline, Lifecycle, Advances, InOrder, ObservationHeld, [Next]_vars
  PROVE  ObservationHeld'
<1>1. Observed' <=> engine'.obs # NoObservation
  BY DEF Observed, NoObservation
<1>2. ASSUME engine.pc \in {"observe"} \cup Completing
      PROVE  /\ UNCHANGED target
             /\ \A p \in PlanPaths : Expected(p)' = Expected(p)
             /\ Observations' = Observations
  <2>1. engine.pc \notin {"rejected", "active", "recover"}
    BY <1>2 DEF Completing
  <2>2. UNCHANGED target
    BY <2>1, WorldChanges DEF Executes
  <2>3. \A p \in PlanPaths : Expected(p)' = Expected(p)
    BY <2>1, ExpectedStays
  <2>4. Observations' = Observations
    BY <2>2, <2>3 DEF Observations
  <2> QED  BY <2>2, <2>3, <2>4
<1>3. CASE Elsewhere
  BY <1>1, <1>3 DEF Elsewhere, ObservationHeld, Observed
<1>4. CASE Stays
  <2>1. CASE engine.pc \in {"observe"} \cup Completing
    BY <1>1, <1>2, <1>4, <2>1 DEF Stays, ObservationHeld, Observed
  <2>2. CASE engine.pc \notin {"observe"} \cup Completing
    BY <1>1, <1>4, <2>2 DEF Stays, ObservationHeld, Observed
  <2> QED  BY <2>1, <2>2
<1>5. CASE Completes
  <2>1. engine'.pc # "observe"
    BY <1>5 DEF Completes, Completing
  <2> QED  BY <1>2, <1>5, <2>1 DEF Completes, ObservationHeld
<1>6. CASE Recovers
  <2>1. /\ engine.pc \notin {"observe"} \cup Completing
        /\ engine'.pc \notin {"observe"} \cup Completing
    BY <1>6 DEF Recovers, Recovering, Completing
  <2> QED  BY <1>1, <1>6, <2>1 DEF Recovers, ObservationHeld, Observed
<1>7. CASE Interrupts
  <2>1. engine'.pc \notin {"observe"} \cup Completing
    BY <1>7 DEF Interrupts, Completing
  <2> QED  BY <1>1, <1>7, <2>1 DEF Interrupts, ObservationHeld, Observed
<1>8. CASE Observe
  <2>1. engine \in Sessions /\ engine.pc = "observe"
    BY <1>8, TypedParts DEF Observe, At
  <2>2. PICK obs \in Observations : engine' = [engine EXCEPT !.obs = obs]
    BY <1>8 DEF Observe
  <2>3. engine'.pc = "observe" /\ engine'.obs = obs
    BY <2>1, <2>2 DEF Sessions
  <2>4. engine'.pc \notin Completing
    BY <2>3 DEF Completing
  <2> QED  BY <1>2, <2>1, <2>3, <2>4 DEF ObservationHeld
<1>9. CASE JudgeObservation /\ Goto("publish_evidence") /\ UNCHANGED world
  <2>1. engine \in Sessions /\ engine.pc = "observe" /\ Observed
    BY <1>9, TypedParts DEF JudgeObservation, At
  <2>2. engine'.pc = "publish_evidence"
    BY <1>9, <2>1 DEF Goto, Sessions
  <2>3. engine.obs \in Observations
    BY <2>1 DEF ObservationHeld
  <2>4. \A p \in PlanPaths : engine.obs[p] \notin {"failed", "indeterminate"}
    <3>1. \A cause : ~Interrupt(cause)
      BY <2>1, <2>2 DEF Interrupt, Sessions
    <3> QED  BY <1>9, <3>1 DEF JudgeObservation
  <2>5. \A p \in PlanPaths : target[p] = Expected(p)
    BY <2>3, <2>4 DEF Observations, Match
  <2> QED  BY <1>2, <2>1, <2>2, <2>5 DEF ObservationHeld, Completing
<1> QED  BY <1>3, <1>4, <1>5, <1>6, <1>7, <1>8, <1>9, SessionMoves

\* A verdict and a cause are kept from where they are found.
LEMMA VerdictAndCauseStep ==
  ASSUME TypeOK, Discipline, Lifecycle, Advances, InOrder, VerdictKnown, CauseSound,
         [Next]_vars
  PROVE  (VerdictKnown /\ CauseSound)'
<1>1. ASSUME engine.pc # "active" \/ journal'.progress = journal.progress, ActivesKnown
      PROVE  ActivesKnown'
  <2> SUFFICES ASSUME NEW p \in Actives
               PROVE  Terminal(ActiveEffect(p))' = Terminal(ActiveEffect(p))
    BY <1>1 DEF ActivesKnown, ActiveEffect
  <2>1. PICK e \in Effects : e = ActiveEffect(p)
    BY PathEffects
  <2>2. e[1] = "publish_active_object"
    BY <2>1 DEF ActiveEffect
  <2>3. journal'.progress[e] = journal.progress[e]
    BY <1>1, <2>2, TurnKinds DEF Advances, Unwalked
  <2>4. Terminal(e)' = Terminal(e)
    BY <2>3, TerminalStays DEF Advances
  <2> QED  BY <2>1, <2>4 DEF ActiveEffect
<1>2. CASE Elsewhere
  BY <1>2 DEF Elsewhere, VerdictKnown, CauseSound, Completing
<1>3. CASE Stays
  <2>1. VerdictKnown'
    BY <1>3 DEF Stays, VerdictKnown
  <2>2. CauseSound'
    <3>1. engine.pc \in Recovering => engine.pc # "active"
      BY DEF Recovering
    <3> QED  BY <1>1, <1>3, <3>1 DEF Stays, CauseSound
  <2> QED  BY <2>1, <2>2
<1>4. CASE Completes
  BY <1>4 DEF Completes, VerdictKnown, CauseSound, Completing, Recovering
<1>5. CASE Recovers
  <2>1. engine.pc # "active" /\ engine'.pc # "seal"
    BY <1>5 DEF Recovers, Recovering
  <2> QED  BY <1>1, <1>5, <2>1 DEF Recovers, VerdictKnown, CauseSound
<1>6. CASE Interrupts
  BY <1>1, <1>6 DEF Interrupts, VerdictKnown, CauseSound
<1>7. CASE Observe
  <2>1. engine \in Sessions /\ engine.pc = "observe"
    BY <1>7, TypedParts DEF Observe, At
  <2>2. engine'.pc = "observe"
    BY <1>7, <2>1 DEF Observe, Sessions
  <2> QED  BY <2>2 DEF VerdictKnown, CauseSound, Recovering
<1>8. CASE Goto("publish_evidence")
  <2>1. engine'.pc = "publish_evidence"
    BY <1>8, TypedParts DEF Goto, Sessions
  <2> QED  BY <2>1 DEF VerdictKnown, CauseSound, Recovering
<1> QED  BY <1>2, <1>3, <1>4, <1>5, <1>6, <1>7, <1>8, SessionMoves

----------------------------------------------------------------------------
(***************************************************************************)
(* Where a receipt is published.                                           *)
(***************************************************************************)
\* The receipt of an attempt whose evidence was published and synchronized, or
\* was not.
Seals ==
  /\ engine.mode # "off" /\ engine.pc = "seal"
  /\ journal' = [journal EXCEPT
                   !.state = engine.verdict.state,
                   !.progress[Seal] = "completed",
                   !.receipt = engine.verdict.outcome,
                   !.evidence = engine.verdict.evidence]
  /\ UNCHANGED world

\* The receipts of preparation, live or reopened, and of rejected publication.
RefusesPreparation ==
  /\ journal.state = "preparing" /\ journal.receipt = "none"
  /\ PublishReceipt("failed_before_target_mutation", "abandoned")
  /\ UNCHANGED world
RefusesRejected ==
  /\ engine.mode # "off"
  /\ \/ FailRejected("indeterminate")
     \/ /\ engine.pc = "rejected"
        /\ \E e \in OneShot : Turn(e) /\ Terminal(e) = "failed"
        /\ FailRejected("failed_before_target_mutation")
     \/ /\ engine.pc = "sync_rejected" /\ ~RejectedStoreDone
        /\ FailRejected("effects_visible_durability_unconfirmed")

\* The steps that keep the receipt there is, by name.
LEMMA ReceiptKept ==
  ASSUME TypeOK
  PROVE  /\ \A s : AppendState(s) => journal'.receipt = journal.receipt
         /\ \A e : \A s : \A event :
              AppendEvent(e, s, event) => journal'.receipt = journal.receipt
         /\ \A pc : Proceed(pc) => journal'.receipt = journal.receipt
         /\ \A s : \A pc : ProceedIn(s, pc) => journal'.receipt = journal.receipt
         /\ \A e : \A s : PublishIntent(e, s) \/ PublishTerminal(e, s)
              => journal'.receipt = journal.receipt
         /\ \A e : RetryIntended(e) => journal'.receipt = journal.receipt
         /\ \A fact : Return(fact) => journal'.receipt = journal.receipt
         /\ \A cause : Interrupt(cause) => journal'.receipt = journal.receipt
         /\ UNCHANGED journal => journal'.receipt = journal.receipt
<1>1. journal \in Journals
  BY TypedParts
<1>2. ASSUME NEW s, AppendState(s) PROVE journal'.receipt = journal.receipt
  BY <1>1, <1>2 DEF AppendState, Journals
<1>3. ASSUME NEW e, NEW s, NEW event, AppendEvent(e, s, event)
      PROVE  journal'.receipt = journal.receipt
  BY <1>1, <1>3 DEF AppendEvent, Journals
<1> QED
  BY <1>2, <1>3 DEF Proceed, ProceedIn, PublishIntent, PublishTerminal, RetryIntended,
                    Return, Interrupt

\* A step publishes a receipt in one of these ways or not at all.
LEMMA ReceiptSteps ==
  ASSUME TypeOK, Discipline, Lifecycle, [Next]_vars
  PROVE  \/ journal'.receipt = journal.receipt
         \/ RefusesPreparation \/ RefusesRejected \/ Seals
         \/ RecoverNothing \/ RecoverUnselected
         \/ ConcludeRecovery \/ ResumeConcludeRecovery
<1> DEFINE Goal == \/ journal'.receipt = journal.receipt
                   \/ RefusesPreparation \/ RefusesRejected \/ Seals
                   \/ RecoverNothing \/ RecoverUnselected
                   \/ ConcludeRecovery \/ ResumeConcludeRecovery
<1>1. ASSUME FailPreparation, engine.mode # "off",
             engine.pc \in {"captures", "payloads", "sync_incoming", "sync_recovery"}
      PROVE  Goal
  BY <1>1, LiveSession DEF FailPreparation, Resolve, RefusesPreparation, Reached
<1>a. CASE Admit
  <2>1. journal \in Journals
    BY TypedParts
  <2> QED  BY <1>a, <2>1 DEF Admit, Journals
<1>b. CASE CaptureOldObjects
  BY <1>1, <1>b, CaptureForms, ReceiptKept DEF CaptureOld, CaptureOldObjects, At
<1>c. CASE StageIncomingPayloads
  BY <1>1, <1>c, PayloadForms, ReceiptKept DEF SealPayloads, StageIncomingPayloads, At
<1>d. CASE SynchronizeIncoming \/ SynchronizeRecovery
  BY <1>1, <1>d, ReceiptKept DEF SynchronizeIncoming, SynchronizeRecovery,
                                 SynchronizePreparation, Synchronize, At
<1>e. CASE BeginMutation
  BY <1>e, ReceiptKept DEF BeginMutation
<1>f. CASE PublishRejected
  <2>1. engine.mode # "off" /\ engine.pc = "rejected"
    BY <1>f DEF PublishRejected, At
  <2>2. ASSUME NEW e \in OneShot, Turn(e), ~Done(e),
               \/ PublishIntent(e, "mutating")
               \/ ExecuteRejected(e)
               \/ PublishTerminal(e, "mutating")
               \/ /\ Idle /\ Terminal(e) \in {"intent", "indeterminate"}
                  /\ FailRejected("indeterminate")
               \/ /\ Idle /\ Terminal(e) = "failed"
                  /\ FailRejected("failed_before_target_mutation")
        PROVE  journal'.receipt = journal.receipt \/ RefusesRejected
    BY <2>1, <2>2, ReceiptKept DEF ExecuteRejected, RefusesRejected
  <2> QED  BY <1>f, <2>2, RejectedForms, ReceiptKept
<1>g. CASE SynchronizeRejected(RejectedPublished) \/ SynchronizeRejected(ResumeAfterRejected)
  <2>1. engine.mode # "off" /\ engine.pc = "sync_rejected"
    BY <1>g DEF SynchronizeRejected, At
  <2>2. RejectedPublished \/ ResumeAfterRejected => journal'.receipt = journal.receipt
    BY ReceiptKept DEF RejectedPublished, ResumeAfterRejected, RestartInterruption
  <2>3. ASSUME RejectedOrder # << >>, AllDomains,
               Terminal(Global("synchronize_rejected_store")) = "failed"
        PROVE  ~RejectedStoreDone
    <3>1. RejectedOrder # << >> <=> DOMAIN RejectedOrder # {}
      <4>1. RejectedOrder \in Seq(PlanPaths)
        BY ScheduleAssumption
      <4> QED  BY <4>1
    <3>2. RejectedOrder # << >> => Rejecteds # {}
      BY <3>1 DEF Rejecteds, Elements
    <3> QED  BY <2>3, <3>2 DEF RejectedStoreDone, Done
  <2>4. \/ RejectedPublished \/ ResumeAfterRejected \/ Synchronize
        \/ \E e : \E s : PublishIntent(e, s) \/ PublishTerminal(e, s)
        \/ \E e : RetryIntended(e)
        \/ FailRejected("indeterminate")
        \/ /\ RejectedOrder # << >> /\ AllDomains
           /\ Terminal(Global("synchronize_rejected_store")) = "failed"
           /\ FailRejected("effects_visible_durability_unconfirmed")
    BY <1>g DEF SynchronizeRejected
  <2> QED  BY <2>1, <2>2, <2>3, <2>4, ReceiptKept DEF Synchronize, RefusesRejected
<1>h. CASE ExecuteActiveEffects
  BY <1>h, ActiveForms, ReceiptKept DEF ExecuteActive
<1>i. CASE SynchronizeActive \/ InterruptSynchronization \/ ResumeInterruptSynchronization
  BY <1>i, ReceiptKept
     DEF SynchronizeActive, InterruptSynchronization, ResumeInterruptSynchronization,
         EffectsVisible, Synchronize
<1>j. CASE ObserveIntent \/ Observe \/ RecordObservation \/ JudgeObservation
  BY <1>j, ReceiptKept DEF ObserveIntent, Observe, RecordObservation, JudgeObservation
<1>k. CASE PublishCompletedEvidence
  <2>1. RecordEvidence => journal'.receipt = journal.receipt
    BY TypedParts DEF RecordEvidence, Journals
  <2> QED  BY <1>k, <2>1, ReceiptKept DEF PublishCompletedEvidence, PublishEvidenceRecord
<1>l. CASE SynchronizeCompletedEvidence
  BY <1>l, ReceiptKept DEF SynchronizeCompletedEvidence, SynchronizeEvidence
<1>m. CASE ResumePublication \/ ResumeSynchronization
  BY <1>m, ReceiptKept DEF ResumePublication, ResumeSynchronization
<1>n. CASE SealTerminalReceipt
  BY <1>n, ReceiptKept DEF SealTerminalReceipt, Seals, At
<1>o. CASE BeginRecovery \/ RecoverCandidates \/ SynchronizeRecovered
  BY <1>o, ReceiptKept
     DEF BeginRecovery, RecoverCandidates, SynchronizeRecovered, Recover, Synchronize
<1>p. CASE Reopen
  <2>1. Resumable => journal.receipt = "none"
    BY ResumableOpen
  <2> QED  BY <1>p, <2>1 DEF Reopen, RefusesPreparation
<1>q. CASE Crash
  BY <1>q DEF Crash
<1>r. CASE UNCHANGED vars
  BY <1>r DEF vars
<1> QED
  BY <1>a, <1>b, <1>c, <1>d, <1>e, <1>f, <1>g, <1>h, <1>i, <1>j, <1>k, <1>l, <1>m,
     <1>n, <1>o, <1>p, <1>q, <1>r
     DEF Next, EngineStep, FreshStep, RestartStep

----------------------------------------------------------------------------
(***************************************************************************)
(* Every receipt is justified.                                             *)
(***************************************************************************)
\* What a receipt and the state it resolves to have to be justified by.
AsFound == \A p \in PlanPaths : target[p] = "before"
KnownResult(e) == Terminal(e) \in {"none", "completed", "failed"}
Justified(outcome, s) ==
  /\ outcome = "completed" => \A p \in PlanPaths : target[p] = Expected(p)
  /\ outcome \in {"failed_fully_recovered", "failed_before_target_mutation"} => AsFound
  /\ s = "abandoned" => shelf = {} /\ AsFound
  /\ outcome # "indeterminate" =>
       \A e \in OneShot : \/ KnownResult(e)
                          \/ /\ outcome = "failed_fully_recovered"
                             /\ e \in On("publish_active_object", Actives)

\* A justified receipt tells the truth about the state it is published in.
LEMMA JustifiedReceipt ==
  ASSUME UNCHANGED <<target, shelf>>, journal'.recovery = journal.recovery,
         \A e \in OneShot : journal'.progress[e] = journal.progress[e],
         Justified(journal'.receipt, journal'.state)
  PROVE  (ReceiptTruthful /\ DeterminateReceipts)'
<1>1. \A e \in OneShot : Terminal(e)' = Terminal(e)
  BY TerminalStays
<1>2. \A p \in PlanPaths : Expected(p)' = Expected(p)
  BY PathEffects DEF Expected, Changed, ActiveEffect
<1>3. ReceiptTruthful'
  BY <1>2 DEF Justified, AsFound, ReceiptTruthful
<1>4. DeterminateReceipts'
  BY <1>1 DEF Justified, KnownResult, DeterminateReceipts
<1> QED  BY <1>3, <1>4

\* A path without an announced active effect is as it was found, and an effect
\* that was not announced has no result to know.
LEMMA Unannounced ==
  ASSUME TypeOK, Discipline, InOrder, ShelfKnown
  PROVE  /\ \A p \in PlanPaths :
              (p \in Actives => ~Intended(ActiveEffect(p))) => target[p] = "before"
         /\ \A e : ~Intended(e) => KnownResult(e)
         /\ \A p \in Rejecteds : ~Intended(RejectedEffect(p)) => p \notin shelf
         /\ (\A p \in Actives : ~Intended(ActiveEffect(p))) =>
              /\ AsFound
              /\ \A p \in Actives : KnownResult(ActiveEffect(p))
              /\ \A i \in DOMAIN ActiveOrder : ~Intended(RecoverEffect(i))
<1>1. \A e : ~Intended(e) => KnownResult(e)
  BY DEF Intended, KnownResult, Terminal
<1>2. \A p \in PlanPaths :
        (p \in Actives => ~Intended(ActiveEffect(p))) => target[p] = "before"
  BY DEF Discipline, Announced, ActiveEffect
<1>3. ASSUME NEW p \in Rejecteds, ~Intended(RejectedEffect(p)) PROVE p \notin shelf
  BY <1>3, PathEffects DEF ShelfKnown, Discipline, Announced
<1>4. ASSUME \A p \in Actives : ~Intended(ActiveEffect(p)), NEW i \in DOMAIN ActiveOrder
      PROVE  ~Intended(RecoverEffect(i))
  <2>1. i \notin Candidates
    BY <1>4 DEF Candidates, Actives, Elements, ActiveEffect, Intended
  <2> QED  BY <2>1 DEF InOrder
<1> QED  BY <1>1, <1>2, <1>3, <1>4 DEF AsFound

\* The one-shot effects, path by path.
LEMMA AllKnown ==
  ASSUME \A p \in Rejecteds : KnownResult(RejectedEffect(p)),
         \A i \in DOMAIN ActiveOrder : KnownResult(RecoverEffect(i))
  PROVE  \A e \in OneShot : \/ KnownResult(e)
                            \/ e \in On("publish_active_object", Actives)
BY DEF OneShot, On, RejectedEffect, RecoverEffect, Actives, Elements

\* With the active effects known as well, all of them are.
LEMMA ActivesAllKnown ==
  ASSUME \A p \in Rejecteds : KnownResult(RejectedEffect(p)),
         \A p \in Actives : KnownResult(ActiveEffect(p)),
         \A i \in DOMAIN ActiveOrder : KnownResult(RecoverEffect(i))
  PROVE  \A e \in OneShot : KnownResult(e)
BY AllKnown DEF On, ActiveEffect

\* A complete rejected phase has put its objects on the shelf, and the shelf
\* holds nothing else.
LEMMA RejectedDoneKnown ==
  ASSUME Discipline, RejectedDone
  PROVE  /\ \A p \in Rejecteds : KnownResult(RejectedEffect(p))
         /\ RejectedVisible \/ Rejecteds = {}
<1>1. \A p \in Rejecteds : KnownResult(RejectedEffect(p))
  BY DEF RejectedDone, RejectedEffect, KnownResult, Done
<1>2. ASSUME NEW p \in Rejecteds PROVE RejectedVisible
  <2>1. journal.progress[RejectedEffect(p)] \in {"none", "intent"} \cup Match
    BY PathEffects DEF Discipline, FactsKept, FactsOf, RejectedEffect
  <2>2. Done(RejectedEffect(p))
    BY DEF RejectedDone, RejectedEffect
  <2>3. journal.progress[RejectedEffect(p)] = "completed"
    BY <2>1, <2>2 DEF Done, Terminal, TerminalEvent, Match
  <2> QED  BY <2>3 DEF RejectedVisible, RejectedEffect
<1> QED  BY <1>1, <1>2

\* What a published receipt leaves alone.
LEMMA PublishedReceipt ==
  ASSUME TypeOK, NEW outcome, NEW s, PublishReceipt(outcome, s), UNCHANGED world
  PROVE  /\ UNCHANGED <<target, shelf>>
         /\ journal'.receipt = outcome /\ journal'.state = s
         /\ journal'.recovery = journal.recovery
         /\ journal'.progress = journal.progress
BY TypedParts DEF PublishReceipt, Journals, world


----------------------------------------------------------------------------
(***************************************************************************)
(* The receipts of preparation, of rejected publication and of completion. *)
(***************************************************************************)
\* A receipt published with the state it resolves to says what is justified.
LEMMA PublishesTruth ==
  ASSUME TypeOK, NEW outcome, NEW s, PublishReceipt(outcome, s), UNCHANGED world,
         Justified(outcome, s)
  PROVE  (ReceiptTruthful /\ DeterminateReceipts)'
<1>1. /\ UNCHANGED <<target, shelf>>
      /\ journal'.receipt = outcome /\ journal'.state = s
      /\ journal'.recovery = journal.recovery
      /\ journal'.progress = journal.progress
  BY PublishedReceipt
<1>2. Justified(journal'.receipt, journal'.state)
  BY <1>1
<1> QED  BY <1>1, <1>2, JustifiedReceipt

\* Preparation ends with the target and the rejected store as they were found.
LEMMA PreparationReceipt ==
  ASSUME TypeOK, Discipline, Guarded, InOrder, ShelfKnown, RefusesPreparation
  PROVE  (ReceiptTruthful /\ DeterminateReceipts)'
<1>1. /\ \A p \in Actives : ~Intended(ActiveEffect(p))
      /\ \A p \in Rejecteds : ~Intended(RejectedEffect(p))
  BY DEF RefusesPreparation, Guarded, ActiveEffect, RejectedEffect
<1>2. shelf = {}
  BY <1>1, Unannounced DEF TypeOK
<1>3. AsFound
  BY <1>1, Unannounced
<1>4. \A e \in OneShot : KnownResult(e)
  BY <1>1, Unannounced, ActivesAllKnown
<1>5. Justified("failed_before_target_mutation", "abandoned")
  BY <1>2, <1>3, <1>4 DEF Justified
<1> QED  BY <1>5, PublishesTruth DEF RefusesPreparation

\* What is retained of a rejected publication.
LEMMA RejectedResults ==
  ASSUME Discipline, NEW p \in Rejecteds
  PROVE  /\ Done(RejectedEffect(p)) <=> journal.progress[RejectedEffect(p)] = "completed"
         /\ Terminal(RejectedEffect(p)) = "failed"
              <=> journal.progress[RejectedEffect(p)] = "failed"
<1>1. journal.progress[RejectedEffect(p)] \in {"none", "intent"} \cup Match
  BY PathEffects DEF Discipline, FactsKept, FactsOf, RejectedEffect
<1>2. ASSUME NEW fact \in Match PROVE TerminalEvent(RejectedEffect(p), fact) = fact
  BY <1>2 DEF TerminalEvent, Match
<1> QED  BY <1>1, <1>2 DEF Done, Terminal, Match

\* Rejected publication ends before any active effect, and is abandoned only
\* when its first effect failed.
LEMMA RejectedReceipt ==
  ASSUME TypeOK, Discipline, Lifecycle, Guarded, InOrder, ShelfKnown, RefusesRejected
  PROVE  (ReceiptTruthful /\ DeterminateReceipts)'
<1>1. CASE FailRejected("indeterminate")
  <2>1. PublishReceipt("indeterminate", "indeterminate") /\ UNCHANGED world
    BY <1>1 DEF FailRejected, Resolve
  <2>2. Justified("indeterminate", "indeterminate")
    BY DEF Justified
  <2> QED  BY <2>1, <2>2, PublishesTruth
<1>2. ASSUME ~RejectedDone \/ ~RejectedStoreDone
      PROVE  /\ AsFound
             /\ \A p \in Actives : KnownResult(ActiveEffect(p))
             /\ \A i \in DOMAIN ActiveOrder : KnownResult(RecoverEffect(i))
  <2>1. \A p \in Actives : ~Intended(ActiveEffect(p))
    BY <1>2 DEF Guarded, ActiveEffect
  <2> QED  BY <2>1, Unannounced
<1>3. CASE /\ engine.mode # "off" /\ engine.pc = "sync_rejected" /\ ~RejectedStoreDone
           /\ FailRejected("effects_visible_durability_unconfirmed")
  <2>1. /\ PublishReceipt("effects_visible_durability_unconfirmed", "effects_visible")
        /\ UNCHANGED world
    BY <1>3 DEF FailRejected, Resolve
  <2>2. RejectedDone
    BY <1>3, LiveSession DEF Reached
  <2>3. \A e \in OneShot : KnownResult(e)
    BY <1>2, <1>3, <2>2, RejectedDoneKnown, ActivesAllKnown
  <2>4. Justified("effects_visible_durability_unconfirmed", "effects_visible")
    BY <2>3 DEF Justified
  <2> QED  BY <2>1, <2>4, PublishesTruth
<1>4. CASE /\ engine.mode # "off" /\ engine.pc = "rejected"
           /\ \E e \in OneShot : Turn(e) /\ Terminal(e) = "failed"
           /\ FailRejected("failed_before_target_mutation")
  <2>1. PICK s \in {"effects_visible", "abandoned"} :
          /\ PublishReceipt("failed_before_target_mutation", s)
          /\ s = "abandoned" => ~RejectedVisible
          /\ UNCHANGED world
    BY <1>4 DEF FailRejected, Resolve
  <2>2. PICK e \in OneShot : Turn(e) /\ Terminal(e) = "failed"
    BY <1>4
  <2>3. PICK i \in DOMAIN RejectedOrder :
          /\ e = RejectedEffect(RejectedOrder[i])
          /\ \A j \in 1 .. i - 1 : Done(RejectedEffect(RejectedOrder[j]))
    BY <1>4, <2>2 DEF Turn, WalkTurn, RejectedEffect
  <2>4. ~Done(e) /\ ~RejectedDone
    BY <1>4, <2>2, WalkedEffects DEF Done
  <2>5. ASSUME NEW k \in DOMAIN RejectedOrder
        PROVE  /\ KnownResult(RejectedEffect(RejectedOrder[k]))
               /\ ~RejectedVisible => RejectedOrder[k] \notin shelf
    <3> DEFINE p == RejectedOrder[k]
    <3>1. p \in Rejecteds
      BY DEF Rejecteds, Elements
    <3>2. CASE k < i
      <4>1. k \in 1 .. i - 1
        BY <3>2, Schedules
      <4>2. Done(RejectedEffect(p))
        BY <2>3, <4>1
      <4>3. RejectedVisible
        BY <3>1, <4>2, RejectedResults DEF RejectedVisible, RejectedEffect
      <4> QED  BY <4>2, <4>3 DEF KnownResult, Done
    <3>3. CASE k = i
      <4>1. Terminal(RejectedEffect(p)) = "failed"
        BY <2>2, <2>3, <3>3
      <4>2. journal.progress[RejectedEffect(p)] = "failed"
        BY <3>1, <4>1, RejectedResults
      <4> QED  BY <4>1, <4>2 DEF KnownResult, ShelfKnown
    <3>4. CASE i < k
      <4>1. ~Intended(RejectedEffect(p))
        BY <2>3, <2>4, <3>4 DEF InOrder, RejectedEffect
      <4> QED  BY <3>1, <4>1, Unannounced
    <3>5. i \in Nat /\ k \in Nat
      BY Schedules
    <3> QED  BY <3>2, <3>3, <3>4, <3>5
  <2>6. /\ \A p \in Rejecteds : KnownResult(RejectedEffect(p))
        /\ ~RejectedVisible => \A p \in Rejecteds : p \notin shelf
    BY <2>5 DEF Rejecteds, Elements
  <2>7. ~RejectedVisible => shelf = {}
    BY <2>6 DEF TypeOK
  <2>8. \A f \in OneShot : KnownResult(f)
    BY <1>2, <2>4, <2>6, ActivesAllKnown
  <2>9. Justified("failed_before_target_mutation", s)
    BY <1>2, <2>1, <2>4, <2>7, <2>8 DEF Justified
  <2> QED  BY <2>1, <2>9, PublishesTruth
<1> QED  BY <1>1, <1>3, <1>4 DEF RefusesRejected

\* Completion ends behind the complete active phase, of which nothing is
\* unknown, and with the target it observed.
LEMMA SealedReceipt ==
  ASSUME TypeOK, Discipline, Lifecycle, RecoveryBegun, ObservationHeld, VerdictKnown,
         Seals
  PROVE  (ReceiptTruthful /\ DeterminateReceipts)'
<1>1. journal.receipt = "none" /\ journal.state = "result_observed"
  BY LiveSession DEF Seals, Reached
<1>2. ActiveDone /\ RejectedDone
  BY <1>1, LiveSession DEF Seals, Vouched
<1>3. \A i \in DOMAIN ActiveOrder : KnownResult(RecoverEffect(i))
  BY <1>1 DEF RecoveryBegun, KnownResult, Intended, Terminal
<1>4. \A p \in Actives : KnownResult(ActiveEffect(p))
  BY <1>2, ActiveDoneKnown DEF ActivesKnown, KnownResult
<1>5. \A e \in OneShot : KnownResult(e)
  BY <1>2, <1>3, <1>4, RejectedDoneKnown, ActivesAllKnown
<1>6. engine.verdict.outcome \in SealedOutcomes /\ engine.verdict.state # "abandoned"
  BY DEF Seals, VerdictKnown, Lifecycle, VerdictReached
<1>7. \A p \in PlanPaths : target[p] = Expected(p)
  BY DEF Seals, ObservationHeld, Completing
<1>8. Justified(engine.verdict.outcome, engine.verdict.state)
  BY <1>5, <1>6, <1>7 DEF Justified, SealedOutcomes
<1>9. /\ journal'.receipt = engine.verdict.outcome
      /\ journal'.state = engine.verdict.state
      /\ journal'.recovery = journal.recovery
      /\ \A e \in Effects : e # Seal => journal'.progress[e] = journal.progress[e]
  BY TypedParts DEF Seals, Journals
<1>10. \A e \in OneShot : journal'.progress[e] = journal.progress[e]
  BY <1>9, DeclaredEffects, SynchronizedDomains
<1>11. Justified(journal'.receipt, journal'.state)
  BY <1>8, <1>9
<1> QED  BY <1>9, <1>10, <1>11, JustifiedReceipt DEF Seals, world

----------------------------------------------------------------------------
(***************************************************************************)
(* The receipts of recovery.                                               *)
(***************************************************************************)
\* What a session in recovery may rely on.
LEMMA RecoverySession ==
  ASSUME Discipline, Lifecycle, engine.mode # "off", engine.pc \in {"recover", "conclude"}
  PROVE  RejectedDone
BY LiveSession DEF Vouched, Reached

\* Of an active effect that is no candidate nothing is unknown, and its path is
\* as it was found; so is the path of a candidate that was restored.
LEMMA PathsRecovered ==
  ASSUME TypeOK, Discipline, InOrder, ShelfKnown, Untouched,
         \A i \in Candidates : target[ActiveOrder[i]] = "before"
  PROVE  AsFound
<1> SUFFICES ASSUME NEW p \in PlanPaths PROVE target[p] = "before"
  BY DEF AsFound
<1>1. CASE p \notin Actives \/ ~Intended(ActiveEffect(p))
  BY <1>1, Unannounced
<1>2. CASE p \in Actives /\ Intended(ActiveEffect(p))
  <2>1. PICK i \in DOMAIN ActiveOrder : p = ActiveOrder[i]
    BY <1>2 DEF Actives, Elements
  <2>2. CASE i \in Candidates
    BY <2>1, <2>2
  <2>3. CASE i \notin Candidates
    <3>1. journal.progress[ActiveEffect(p)]
            \in {"intent"} \cup Match \cup {"conditional_retained"}
      BY <1>2, PathEffects DEF Discipline, FactsKept, FactsOf, ActiveEffect, Intended
    <3>2. journal.progress[ActiveEffect(p)] \notin {"completed", "indeterminate", "intent"}
      BY <2>1, <2>3 DEF Candidates, ActiveEffect
    <3>3. journal.progress[ActiveEffect(p)] \in {"failed", "conditional_retained"}
      BY <3>1, <3>2 DEF Match
    <3> QED  BY <1>2, <3>3 DEF Untouched
  <2> QED  BY <2>2, <2>3
<1> QED  BY <1>1, <1>2

\* Only candidates are recovered.
LEMMA RecoveriesKnown ==
  ASSUME TypeOK, Discipline, InOrder, ShelfKnown,
         \A i \in Candidates : KnownResult(RecoverEffect(i))
  PROVE  \A i \in DOMAIN ActiveOrder : KnownResult(RecoverEffect(i))
BY Unannounced DEF InOrder

\* Without candidates the attempt ends as before its mutation, and is abandoned
\* only when nothing was published to the rejected store either.
LEMMA NothingReceipt ==
  ASSUME TypeOK, Discipline, Lifecycle, InOrder, ShelfKnown, Untouched, RecoverNothing,
         journal'.receipt # journal.receipt
  PROVE  (ReceiptTruthful /\ DeterminateReceipts)'
<1>1. engine.mode # "off" /\ engine.pc = "recover" /\ Candidates = {}
  BY DEF RecoverNothing, At
<1>2. CASE SealRecoveryReceipt("indeterminate")
  <2>1. PublishReceipt("indeterminate", "indeterminate") /\ UNCHANGED world
    BY <1>2 DEF SealRecoveryReceipt, FailureState, Resolve
  <2>2. Justified("indeterminate", "indeterminate")
    BY DEF Justified
  <2> QED  BY <2>1, <2>2, PublishesTruth
<1>3. CASE ~Retained /\ SealRecoveryReceipt("failed_before_target_mutation")
  <2>1. PICK s \in {"effects_visible", "abandoned"} :
          /\ PublishReceipt("failed_before_target_mutation", s)
          /\ s = "abandoned" => ~RejectedVisible
          /\ UNCHANGED world
    BY <1>3 DEF SealRecoveryReceipt, FailureState, Resolve
  <2>2. RejectedDone
    BY <1>1, RecoverySession
  <2>3. AsFound
    BY <1>1, PathsRecovered
  <2>4. \A i \in DOMAIN ActiveOrder : KnownResult(RecoverEffect(i))
    BY <1>1, RecoveriesKnown
  <2>5. ASSUME NEW p \in Actives PROVE KnownResult(ActiveEffect(p))
    <3>1. PICK i \in DOMAIN ActiveOrder : p = ActiveOrder[i]
      BY DEF Actives, Elements
    <3>2. journal.progress[ActiveEffect(p)] \in {"none", "failed"}
      <4>1. journal.progress[ActiveEffect(p)]
              \in {"none", "intent"} \cup Match \cup {"conditional_retained"}
        BY PathEffects DEF Discipline, FactsKept, FactsOf, ActiveEffect
      <4>2. journal.progress[ActiveEffect(p)]
              \notin {"completed", "indeterminate", "intent", "conditional_retained"}
        BY <1>1, <1>3, <3>1 DEF Candidates, Retained, ActiveEffect
      <4> QED  BY <4>1, <4>2 DEF Match
    <3> QED  BY <3>2 DEF KnownResult, Terminal, TerminalEvent
  <2>6. \A e \in OneShot : KnownResult(e)
    BY <2>2, <2>4, <2>5, RejectedDoneKnown, ActivesAllKnown
  <2>7. ~RejectedVisible => shelf = {}
    BY <2>2, RejectedDoneKnown DEF TypeOK
  <2>8. Justified("failed_before_target_mutation", s)
    BY <2>1, <2>3, <2>6, <2>7 DEF Justified
  <2> QED  BY <2>1, <2>8, PublishesTruth
<1>4. CASE UNCHANGED journal
  BY <1>4
<1> QED  BY <1>2, <1>3, <1>4 DEF RecoverNothing

\* A recovery receipt that claims neither full recovery nor a failure before
\* mutation is justified when it leaves nothing unknown.
LEMMA PartialReceipt ==
  ASSUME TypeOK,
         NEW outcome \in {"effects_visible_durability_unconfirmed",
                          "failed_with_partial_effects", "indeterminate"},
         SealRecoveryReceipt(outcome),
         outcome # "indeterminate" => \A e \in OneShot : KnownResult(e)
  PROVE  (ReceiptTruthful /\ DeterminateReceipts)'
<1>1. PICK s \in {"indeterminate", "effects_visible"} : PublishReceipt(outcome, s)
  BY DEF SealRecoveryReceipt, FailureState, Resolve
<1>2. UNCHANGED world
  BY DEF SealRecoveryReceipt, Resolve
<1>3. Justified(outcome, s)
  BY DEF Justified
<1> QED  BY <1>1, <1>2, <1>3, PublishesTruth

\* Recovery that was not selected: nothing is unknown unless the interruption
\* itself was.
LEMMA UnselectedReceipt ==
  ASSUME TypeOK, Discipline, Lifecycle, RecoveryBegun, InOrder, ShelfKnown, CauseSound,
         RecoverUnselected
  PROVE  (ReceiptTruthful /\ DeterminateReceipts)'
<1>1. engine.mode # "off" /\ engine.pc = "recover" /\ ~RecoverySelected
  BY DEF RecoverUnselected, At
<1>2. PICK outcome \in {"effects_visible_durability_unconfirmed",
                        "failed_with_partial_effects", "indeterminate"} :
        /\ SealRecoveryReceipt(outcome)
        /\ outcome # "indeterminate" => engine.cause \notin IndeterminateInterruption
  BY DEF RecoverUnselected, IndeterminateInterruption
<1>3. \A p \in Rejecteds : KnownResult(RejectedEffect(p))
  BY <1>1, RecoverySession, RejectedDoneKnown
<1>4. \A i \in DOMAIN ActiveOrder : KnownResult(RecoverEffect(i))
  BY <1>1, Unannounced DEF RecoveryBegun
<1>5. outcome # "indeterminate" => \A p \in Actives : KnownResult(ActiveEffect(p))
  BY <1>1, <1>2 DEF CauseSound, Recovering, ActivesKnown, KnownResult
<1>6. outcome # "indeterminate" => \A e \in OneShot : KnownResult(e)
  BY <1>3, <1>4, <1>5, ActivesAllKnown
<1> QED  BY <1>2, <1>6, PartialReceipt

\* A recovered candidate whose exact prior state was captured is as it was
\* found.
LEMMA CandidatesRestored ==
  ASSUME Discipline, Restored, AllExact, Unrecovered = {}
  PROVE  \A i \in Candidates : target[ActiveOrder[i]] = "before"
<1> SUFFICES ASSUME NEW i \in Candidates PROVE target[ActiveOrder[i]] = "before"
  OBVIOUS
<1>1. Done(RecoverEffect(i)) /\ ExactRecoveryPossible(ActiveOrder[i])
  BY DEF Unrecovered, AllExact
<1>2. journal.progress[RecoverEffect(i)] \in {"none", "intent"} \cup Match
  BY PathEffects DEF Discipline, FactsKept, FactsOf, RecoverEffect, Candidates
<1>3. journal.progress[RecoverEffect(i)] = "completed"
  BY <1>1, <1>2 DEF Done, Terminal, TerminalEvent, Match
<1> QED  BY <1>1, <1>3 DEF Restored

\* The conclusion of recovery, fresh or reopened: fully recovered only when
\* every candidate was exactly restored, partial only when nothing is unknown.
LEMMA ConcludedReceipt ==
  ASSUME TypeOK, Discipline, Lifecycle, InOrder, ShelfKnown, Untouched, Restored,
         CauseSound, ConcludeRecovery \/ ResumeConcludeRecovery
  PROVE  (ReceiptTruthful /\ DeterminateReceipts)'
<1>1. engine.mode # "off" /\ engine.pc = "conclude"
  BY DEF ConcludeRecovery, ResumeConcludeRecovery, At
<1>2. PICK outcome \in {"failed_fully_recovered", "indeterminate",
                        "failed_with_partial_effects"} :
        /\ SealRecoveryReceipt(outcome)
        /\ outcome = "failed_fully_recovered" => Unrecovered = {} /\ AllExact
        /\ outcome = "failed_with_partial_effects" =>
             engine.cause \notin IndeterminateInterruption /\ ~RecoveryIndeterminate
  BY DEF ConcludeRecovery, ResumeConcludeRecovery
<1>3. \A p \in Rejecteds : KnownResult(RejectedEffect(p))
  BY <1>1, RecoverySession, RejectedDoneKnown
<1>4. CASE outcome = "failed_fully_recovered"
  <2>1. PublishReceipt("failed_fully_recovered", "recovered") /\ UNCHANGED world
    BY <1>2, <1>4 DEF SealRecoveryReceipt, FailureState, Resolve
  <2>2. AsFound
    BY <1>2, <1>4, CandidatesRestored, PathsRecovered
  <2>3. \A i \in DOMAIN ActiveOrder : KnownResult(RecoverEffect(i))
    BY <1>2, <1>4, RecoveriesKnown DEF Unrecovered, KnownResult, Done
  <2>4. \A e \in OneShot : KnownResult(e) \/ e \in On("publish_active_object", Actives)
    BY <1>3, <2>3, AllKnown
  <2>5. Justified("failed_fully_recovered", "recovered")
    BY <2>2, <2>4 DEF Justified
  <2> QED  BY <2>1, <2>5, PublishesTruth
<1>5. CASE outcome # "failed_fully_recovered"
  <2> SUFFICES ASSUME outcome # "indeterminate" PROVE \A e \in OneShot : KnownResult(e)
    BY <1>2, <1>5, PartialReceipt
  <2>1. engine.cause \notin IndeterminateInterruption /\ ~RecoveryIndeterminate
    BY <1>2, <1>5
  <2>2. \A p \in Actives : KnownResult(ActiveEffect(p))
    BY <1>1, <2>1 DEF CauseSound, Recovering, ActivesKnown, KnownResult
  <2>3. \A i \in Candidates : KnownResult(RecoverEffect(i))
    BY <2>1, TerminalValues DEF RecoveryIndeterminate, KnownResult, TerminalKind
  <2>4. \A i \in DOMAIN ActiveOrder : KnownResult(RecoverEffect(i))
    BY <2>3, RecoveriesKnown
  <2> QED  BY <1>3, <2>2, <2>4, ActivesAllKnown
<1> QED  BY <1>4, <1>5

----------------------------------------------------------------------------
(***************************************************************************)
(* Receipts are truthful and determinate.                                  *)
(***************************************************************************)
\* What ties the journal to the world, and a session to both.
ReceiptGrounds ==
  Untouched /\ Restored /\ ShelfKnown /\ ObservationHeld /\ VerdictKnown /\ CauseSound
Receipts == ReceiptTruthful /\ DeterminateReceipts

\* Initially nothing is announced and nothing is published.
LEMMA GroundsInit == Init => ReceiptGrounds /\ Receipts
<1> SUFFICES ASSUME Init PROVE ReceiptGrounds /\ Receipts
  OBVIOUS
<1>1. /\ \A e \in Effects : journal.progress[e] = "none"
      /\ journal.receipt = "none" /\ journal.state = "preparing"
  BY DEF Init
<1>2. engine.pc = "admit" /\ engine.obs = NoObservation
  BY DEF Init, Session
<1>3. Untouched
  BY <1>1, <1>2, PathEffects DEF Untouched
<1>4. Restored
  BY <1>1, <1>2, PathEffects DEF Restored, Candidates
<1>5. ShelfKnown
  BY DEF Init, ShelfKnown
<1>6. ObservationHeld
  BY <1>2 DEF ObservationHeld, Observed, Completing
<1>7. VerdictKnown /\ CauseSound
  BY <1>2 DEF VerdictKnown, CauseSound, Recovering
<1>8. Receipts
  BY <1>1 DEF Receipts, ReceiptTruthful, DeterminateReceipts
<1> QED  BY <1>3, <1>4, <1>5, <1>6, <1>7, <1>8 DEF ReceiptGrounds

\* The grounds are kept by every step.
LEMMA GroundsStep ==
  ASSUME TypeOK, Discipline, Lifecycle, Guarded, RecoveryBegun, InOrder, ReceiptGrounds,
         [Next]_vars
  PROVE  ReceiptGrounds'
<1>1. Advances
  BY DisciplineStep
<1>2. Untouched' /\ Restored' /\ ShelfKnown'
  BY <1>1, UntouchedStep, RestoredStep, ShelfKnownStep DEF ReceiptGrounds
<1>3. ObservationHeld'
  BY <1>1, ObservationStep DEF ReceiptGrounds
<1>4. (VerdictKnown /\ CauseSound)'
  BY <1>1, VerdictAndCauseStep DEF ReceiptGrounds
<1> QED  BY <1>2, <1>3, <1>4 DEF ReceiptGrounds

\* A receipt is published on these grounds, and what it says stays true.
LEMMA ReceiptsStep ==
  ASSUME TypeOK, Discipline, Lifecycle, Guarded, RecoveryBegun, InOrder, ReceiptGrounds,
         Receipts, [Next]_vars
  PROVE  Receipts'
<1>1. Lifecycle'
  BY DisciplineStep, LifecycleStep
<1>2. CASE journal'.receipt = journal.receipt
  <2>1. CASE journal.receipt = "none"
    <3>1. journal'.receipt = "none" /\ journal'.state # "abandoned"
      BY <1>1, <1>2, <2>1 DEF Lifecycle, StateReached, Vouched
    <3> QED  BY <3>1 DEF Receipts, ReceiptTruthful, DeterminateReceipts
  <2>2. CASE journal.receipt # "none"
    <3>1. UNCHANGED <<journal, target, shelf>>
      BY <2>2, ReceiptLast DEF world
    <3>2. \A e : Terminal(e)' = Terminal(e)
      BY <3>1, TerminalStays
    <3>3. \A p \in PlanPaths : Expected(p)' = Expected(p)
      BY <3>1 DEF Expected, Changed
    <3>4. ReceiptTruthful'
      BY <3>1, <3>3 DEF Receipts, ReceiptTruthful
    <3>5. DeterminateReceipts'
      BY <3>1, <3>2 DEF Receipts, DeterminateReceipts
    <3> QED  BY <3>4, <3>5 DEF Receipts
  <2> QED  BY <2>1, <2>2
<1>3. CASE RefusesPreparation \/ RefusesRejected \/ Seals
  BY <1>3, PreparationReceipt, RejectedReceipt, SealedReceipt DEF ReceiptGrounds, Receipts
<1>4. CASE journal'.receipt # journal.receipt /\ RecoverNothing
  BY <1>4, NothingReceipt DEF ReceiptGrounds, Receipts
<1>5. CASE RecoverUnselected \/ ConcludeRecovery \/ ResumeConcludeRecovery
  BY <1>5, UnselectedReceipt, ConcludedReceipt DEF ReceiptGrounds, Receipts
<1> QED  BY <1>2, <1>3, <1>4, <1>5, ReceiptSteps

\* Both hold with the grounds they rest on.
THEOREM ReceiptsHold == Spec => [](ReceiptGrounds /\ Receipts)
<1>1. Init => Guarded /\ RecoveryBegun /\ InOrder /\ ReceiptGrounds /\ Receipts
  BY PreparedInit, OrderInit, GroundsInit
<1>2. /\ TypeOK /\ Discipline /\ Lifecycle /\ Guarded /\ RecoveryBegun /\ InOrder
      /\ ReceiptGrounds /\ Receipts
      /\ [Next]_vars
      => (Guarded /\ RecoveryBegun /\ InOrder /\ ReceiptGrounds /\ Receipts)'
  BY DisciplineStep, LifecycleStep, GuardedStep, OrderKept, GroundsStep, ReceiptsStep
<1> QED  BY <1>1, <1>2, TypeCorrect, DisciplineHolds, LifecycleHolds, PTL DEF Spec

\* A receipt tells the truth about the managed target: a completed attempt left
\* what its effects are expected to leave, full recovery and a failure before
\* mutation left nothing behind, and an abandoned journal left the rejected
\* store unchanged as well, whatever crashed before.
THEOREM ReceiptsTruthful == Spec => []ReceiptTruthful
<1>1. Receipts => ReceiptTruthful
  BY DEF Receipts
<1> QED  BY <1>1, ReceiptsHold, PTL

\* A receipt that does not say indeterminate leaves no effect unknown, except an
\* active effect whose prior state was exactly restored.
THEOREM ReceiptsDeterminate == Spec => []DeterminateReceipts
<1>1. Receipts => DeterminateReceipts
  BY DEF Receipts
<1> QED  BY <1>1, ReceiptsHold, PTL

=============================================================================
