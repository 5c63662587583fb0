-------------------------- MODULE ApplicationEngine --------------------------
(***************************************************************************)
(* An application attempt from admission to its receipt: fresh run,        *)
(* crashes at any point, and as many restarts as it takes.                 *)
(***************************************************************************)
EXTENDS RestartedApplication

EngineStep == FreshStep \/ RestartStep
Next == EngineStep \/ Crash
Spec == Init /\ [][Next]_vars

\* A live process keeps going and the controller keeps reopening a resumable
\* journal; nothing is assumed about crashes.
FairSpec == Spec /\ WF_vars(EngineStep)

----------------------------------------------------------------------------
Thrown ==
  {"none", "unfinished_effects", "possibly_applied_effect",
   "conflicting_payload_facts", "interruption_durability",
   "no_interrupted_effect", "completed_evidence_contradicts_journal"}

\* The journal, the world and the live session keep their C++ shapes.
TypeOK ==
  /\ journal \in [recovery : Recoveries,
                  declared : BOOLEAN, state : JournalState,
                  progress : [Effects -> Progress],
                  receipt : Outcome \cup {"none"},
                  evidence : 0 .. MaxProjections,
                  projection : 0 .. MaxProjections]
  /\ target \in [PlanPaths -> {"before", "after", "other"}]
  /\ shelf \subseteq Rejecteds
  /\ records \in [published : SUBSET (1 .. MaxProjections),
                  durable : SUBSET (1 .. MaxProjections)]
  /\ issued \in [OneShot -> Nat]
  /\ engine \in [mode : {"fresh", "resumed", "off"}, pc : PC,
                 call : {"idle", "issued"} \cup Fact,
                 obs : [PlanPaths -> Match \cup {"none"}],
                 cause : Interruption \cup {"none"},
                 verdict : [outcome : Outcome \cup {"none"},
                            state : JournalState,
                            evidence : 0 .. MaxProjections],
                 projection : 1 .. MaxProjections]
  /\ thrown \in Thrown
  /\ crashes \in 0 .. MaxCrashes

\* Across crashes and restarts no rejected publication, active effect or
\* recovery is issued to the backend a second time: an intent without a
\* terminal event is indeterminate, not retried (resume_rejected_publication,
\* resume_active_execution, resume_recovery).
NeverIssuedTwice == \A e \in OneShot : issued[e] <= 1

\* Whatever the world shows was announced first, and the active namespace is
\* mutated only behind completed captures, confirmed staging durability and
\* the complete rejected phase, whichever session did each of them.
MutationPrepared ==
  /\ \A e \in OneShot : issued[e] > 0 => Intended(e)
  /\ \A p \in PlanPaths : target[p] # "before" =>
       p \in Actives /\ Intended(<<"publish_active_object", p>>)
  /\ (\E p \in Actives : issued[<<"publish_active_object", p>>] > 0) =>
       /\ \A p \in Captures : Done(<<"capture_old_object", p>>)
       /\ \A p \in Payloads : Done(PayloadEffect(p))
       /\ \A k \in {"synchronize_incoming_staging", "synchronize_recovery_staging",
                    "synchronize_rejected_store"} \cap DeclaredKinds :
            Done(Global(k))
       /\ Rejecteds \subseteq shelf

\* A receipt tells the truth about the managed target: a completed attempt left
\* what its effects are expected to leave, full recovery and a failure before
\* mutation left nothing behind, and an abandoned journal left the rejected
\* store unchanged as well.  Of a completion whose durability is unconfirmed
\* nothing is said: it may end before the result is observed.
ReceiptTruthful ==
  /\ journal.receipt = "completed" =>
       \A p \in PlanPaths : target[p] = Expected(p)
  /\ journal.receipt \in {"failed_fully_recovered",
                          "failed_before_target_mutation"} =>
       \A p \in PlanPaths : target[p] = "before"
  /\ journal.state = "abandoned" =>
       shelf = {} /\ \A p \in PlanPaths : target[p] = "before"

\* A receipt that does not say indeterminate leaves nothing unknown: every
\* one-shot effect it covers has a known result, except an active effect whose
\* prior state was exactly restored.
DeterminateReceipts ==
  journal.receipt \notin {"none", "indeterminate"} =>
    \A e \in OneShot :
      \/ Terminal(e) \in {"none", "completed", "failed"}
      \/ /\ journal.receipt = "failed_fully_recovered"
         /\ e \in On("publish_active_object", Actives)

\* Active effects run in schedule order and recovery in the exact reverse, so
\* parents and hard links are done and undone consistently.
OrderedEffects ==
  \A i, j \in DOMAIN ActiveOrder : i < j =>
    /\ issued[<<"publish_active_object", ActiveOrder[j]>>] > 0 =>
         Done(<<"publish_active_object", ActiveOrder[i]>>)
    /\ issued[RecoverEffect(i)] > 0 => j \notin Unrecovered

\* The evidence identity a completed journal carries names a record that was
\* published and is durable, under the projection of the session that sealed
\* it, even when a restart bound it to a new projection.
SealedEvidenceDurable ==
  /\ journal.receipt = "completed" <=> journal.evidence # 0
  /\ journal.evidence # 0 => journal.evidence \in records.durable

\* Every append the engine makes is one the journal validators accept: it
\* follows the lifecycle relation and gives each effect one intent and then
\* one terminal event, through any number of restarts.
JournalAccepts ==
  [][/\ StateMayFollow(journal.state, journal'.state)
     /\ \A e \in Effects : journal'.progress[e] # journal.progress[e] =>
          \/ journal.progress[e] = "none" /\ journal'.progress[e] = "intent"
          \/ journal.progress[e] = "intent" /\ journal'.progress[e] \in Fact
    ]_journal

\* A durable receipt ends the attempt: no later session appends to the journal
\* or touches the target or the stores.
ReceiptFinal == [][journal.receipt = "none"]_<<journal, world>>

\* The attempt has ended: with a receipt, with an indeterminate journal that
\* awaits external resolution, or refused before there was a journal.
Resolved ==
  /\ engine.mode = "off"
  /\ journal.declared => journal.receipt # "none" \/ journal.state = "indeterminate"

\* With finitely many crashes an attempt is resolved, unless a session ends in
\* one of the exceptions that later restarts meet again.
EventuallyResolved == <>(Resolved \/ thrown # "none")

(***************************************************************************)
(* Statements of the documentation that the code does not meet.            *)
(***************************************************************************)
\* Every attempt whose process is restarted reaches a resolution: completed
\* evidence and receipt sealing resume, and a conditionally retained directory
\* is a completed outcome of its attempt.
AttemptResolved == <>Resolved

\* Recovery entered after a failed active effect ends with a receipt although
\* the process crashed in it: recorded recovery results are replay facts.
EffectRecoveryEnds ==
  (/\ journal.state = "recovering"
   /\ \E p \in Actives : Terminal(<<"publish_active_object", p>>) = "failed")
  ~> Resolved

\* Preparation that a restart retries comes to an end.
PreparationEnds ==
  (journal.declared /\ journal.state = "preparing")
  ~> (journal.state # "preparing" \/ journal.receipt # "none")

=============================================================================
