------------------------ MODULE ApplicationEngineProofs ------------------------
(***************************************************************************)
(* What holds of every application attempt, for every schedule, recovery   *)
(* and durability selection and for any number of crashes: the state keeps *)
(* its shape, no effect that leaves the process is issued twice, and a     *)
(* durable receipt ends the attempt.  The inductive invariant says whose   *)
(* turn it is at every position of the engine, and that an effect in       *)
(* flight there is announced and not yet issued.                           *)
(***************************************************************************)
EXTENDS ApplicationEngine, WellFoundedInduction, TLAPS

----------------------------------------------------------------------------
(***************************************************************************)
(* Positions in a schedule.                                                *)
(***************************************************************************)
\* A nonempty set of positions has a first one: what the loops over a
\* schedule find.
LEMMA LeastPosition ==
  ASSUME NEW S \in SUBSET Nat, S # {}
  PROVE  \E i \in S : \A j \in S : i <= j
<1>1. \E i \in S : \A j \in S : ~ (<<j, i>> \in OpToRel(<, Nat))
  BY NatLessThanWellFounded, WFMin, Zenon
<1>2. \A i, j \in Nat : <<j, i>> \in OpToRel(<, Nat) <=> j < i
  BY DEF OpToRel
<1>3. \E i \in S : \A j \in S : ~ (j < i)
  BY <1>1, <1>2, Zenon
<1>4. \A i, j \in Nat : ~ (j < i) => i <= j
  OBVIOUS
<1> QED  BY <1>3, <1>4

\* ... and, in a finite schedule, a last one: what recovery starts from.
LEMMA GreatestPosition ==
  ASSUME NEW n \in Nat, NEW S \in SUBSET (1 .. n), S # {}
  PROVE  \E i \in S : \A j \in S : j <= i
<1> DEFINE R == {m \in Nat : \E i \in S : m = n - i}
<1>1. \A j \in S : n - j \in R
  OBVIOUS
<1>2. PICK r \in R : \A q \in R : r <= q
  BY <1>1, LeastPosition
<1>3. PICK i \in S : r = n - i
  OBVIOUS
<1>4. ASSUME NEW j \in S PROVE j <= i
  <2>1. r <= n - j
    BY <1>1, <1>2
  <2> QED  BY <2>1, <1>3
<1> QED  BY <1>4

\* Every schedule is a sequence of the plan's paths.
LEMMA Schedules ==
  ASSUME NEW order \in {PlanOrder, CaptureOrder, PayloadOrder, RejectedOrder,
                        ActiveOrder}
  PROVE  /\ Len(order) \in Nat /\ DOMAIN order = 1 .. Len(order)
         /\ \A i \in DOMAIN order : order[i] \in PlanPaths
         /\ Elements(order) \subseteq PlanPaths
BY ScheduleAssumption DEF Elements

\* The effects the engine walks over are effects the declaration froze; only
\* rejected publications, active effects and recoveries are one-shot.
LEMMA DeclaredEffects ==
  /\ \A i \in DOMAIN CaptureOrder :
       <<"capture_old_object", CaptureOrder[i]>> \in Effects \ OneShot
  /\ \A i \in DOMAIN PayloadOrder : PayloadEffect(PayloadOrder[i]) \in Effects \ OneShot
  /\ \A i \in DOMAIN RejectedOrder :
       <<"publish_rejected_object", RejectedOrder[i]>> \in OneShot
  /\ \A i \in DOMAIN ActiveOrder :
       <<"publish_active_object", ActiveOrder[i]>> \in OneShot
  /\ \A i \in DOMAIN ActiveOrder : RecoverEffect(i) \in OneShot
  /\ \A p \in PlanPaths : ObserveEffect(p) \in Effects \ OneShot
  /\ \A k \in DeclaredKinds : Global(k) \in Effects \ OneShot
  /\ OneShot \subseteq Effects
BY DEF Effects, OneShot, On, Global, DeclaredKinds, Elements, Captures, Payloads, Rejecteds,
       Actives, PayloadEffect, RecoverEffect, ObserveEffect

\* What an event of an effect says, for any effect.
LEMMA TerminalValues ==
  ASSUME NEW e
  PROVE  /\ Terminal(e) = "none" <=> journal.progress[e] = "none"
         /\ Terminal(e) = "intent" <=> journal.progress[e] = "intent"
         /\ Terminal(e) \in {"none", "intent"} \cup TerminalKind
         /\ Done(e) => journal.progress[e] \notin {"none", "intent"}
BY DEF Terminal, TerminalEvent, Done, TerminalKind

----------------------------------------------------------------------------
(***************************************************************************)
(* Whose turn it is.                                                       *)
(***************************************************************************)
\* In schedule order: everything before the effect completed.
WalkTurn(kind, order, e) ==
  \E i \in DOMAIN order :
    /\ e = <<kind, order[i]>>
    /\ \A j \in 1 .. i - 1 : Done(<<kind, order[j]>>)

\* In recovery, once it has begun: everything scheduled after the effect is
\* recovered.
RecoveryTurn(e) ==
  /\ RecoverySelected /\ journal.state = "recovering"
  /\ \E i \in Candidates :
       /\ e = RecoverEffect(i)
       /\ \A j \in Candidates : j > i => Done(RecoverEffect(j))

\* Positions that walk over a schedule and positions of a single effect.  The
\* payload phase announces all its effects before it calls the backend.
Walks == {"captures", "rejected", "active", "recover"}
Turn(e) ==
  CASE engine.pc = "captures" -> WalkTurn("capture_old_object", CaptureOrder, e)
    [] engine.pc = "rejected" ->
         WalkTurn("publish_rejected_object", RejectedOrder, e)
    [] engine.pc = "active" -> WalkTurn("publish_active_object", ActiveOrder, e)
    [] engine.pc = "recover" -> RecoveryTurn(e)
    [] engine.pc = "sync_incoming" -> e = Global("synchronize_incoming_staging")
    [] engine.pc = "sync_recovery" -> e = Global("synchronize_recovery_staging")
    [] engine.pc = "sync_rejected" -> e = Global("synchronize_rejected_store")
    [] engine.pc = "sync_active" -> e = ActiveSynchronization
    [] engine.pc = "sync_recovered" -> e = RecoveredSynchronization
    [] engine.pc = "publish_evidence" -> e = PublishEvidence
    [] engine.pc = "sync_evidence" -> e = SyncEvidence
    [] OTHER -> FALSE

\* What the backend may report of an effect of a kind.
FactsOf(kind) ==
  CASE kind = "capture_old_object" -> Match \cup {"inexact"}
    [] kind = "stage_incoming_payload" -> Match \cup {"completed_anew"}
    [] kind = "publish_active_object" -> Match \cup {"conditional_retained"}
    [] kind \in {"publish_rejected_object", "recover_active_object",
                 "observe_result", "publish_completed_evidence"} -> Match
    [] kind = "seal_receipt" -> {"completed"}
    [] OTHER -> DurabilityFact

\* The effect whose turn it is, announced and, if it is one-shot, not yet
\* issued; or completed evidence that is published or synchronized again.
InFlight(e) ==
  /\ Turn(e)
  /\ engine.call \in {"issued"} \cup FactsOf(e[1])
  /\ \/ /\ journal.progress[e] = "intent"
        /\ engine.call = "issued" /\ e \in OneShot => issued[e] = 0
     \/ /\ engine.pc \in {"publish_evidence", "sync_evidence"}
        /\ Republish /\ journal.progress[e] \in FactsOf(e[1])

(***************************************************************************)
(* The inductive invariant, in named parts.                                *)
(***************************************************************************)
\* A live session has no receipt yet, one that ended makes no call, and one
\* that seals knows its verdict.
SessionOpen ==
  /\ engine.mode # "off" => journal.receipt = "none"
  /\ engine.mode = "off" => engine.call = "idle"
  /\ engine.obs = NoObservation \/ engine.obs \in [PlanPaths -> Match]
  /\ engine.pc = "sync_recovered" => AllDomains /\ Actives # {}
  /\ engine.pc = "seal" => engine.verdict.outcome \in Outcome

\* What the journal retains of an effect is what its backend may report.
FactsKept ==
  /\ \A e \in Effects :
       journal.progress[e] \in {"none", "intent"} \cup FactsOf(e[1])
  /\ journal.receipt = "none" => journal.progress[Seal] \in {"none", "intent"}
  /\ journal.projection # 0 => journal.progress[PublishEvidence] = "completed"

\* The world shows nothing that was not announced, and nothing twice.
Announced ==
  /\ \A e \in OneShot : issued[e] <= 1 /\ (issued[e] > 0 => Intended(e))
  /\ \A p \in PlanPaths : target[p] # "before" =>
       p \in Actives /\ Intended(<<"publish_active_object", p>>)

\* A call in progress belongs to the effect whose turn it is.
CallOwned ==
  engine.call # "idle" =>
    IF engine.pc = "payloads"
    THEN /\ engine.call \in {"issued"} \cup FactsOf("stage_incoming_payload")
         /\ \A p \in Payloads : Intended(PayloadEffect(p))
    ELSE \E e \in Effects : InFlight(e)

Discipline == SessionOpen /\ FactsKept /\ Announced /\ CallOwned

----------------------------------------------------------------------------
(***************************************************************************)
(* What the steps that loop over a schedule do, with the effect they       *)
(* choose named.                                                           *)
(***************************************************************************)
\* The loop of a phase stops at an effect all of whose predecessors completed.
LEMMA FirstUnfinishedTurn ==
  ASSUME NEW kind,
         NEW order \in {PlanOrder, CaptureOrder, PayloadOrder, RejectedOrder,
                        ActiveOrder},
         Unfinished(kind, order) # {}
  PROVE  \E i \in DOMAIN order :
           /\ FirstUnfinished(kind, order) = <<kind, order[i]>>
           /\ ~Done(<<kind, order[i]>>)
           /\ \A j \in 1 .. i - 1 : Done(<<kind, order[j]>>)
<1>1. Unfinished(kind, order) \in SUBSET Nat
  BY Schedules DEF Unfinished
<1> DEFINE first == CHOOSE i \in Unfinished(kind, order) :
                      \A j \in Unfinished(kind, order) : i <= j
<1>2. first \in Unfinished(kind, order) /\ \A j \in Unfinished(kind, order) : first <= j
  BY <1>1, LeastPosition
<1>3. FirstUnfinished(kind, order) = <<kind, order[first]>>
  BY DEF FirstUnfinished
<1> HIDE DEF first
<1>4. first \in 1 .. Len(order) /\ Len(order) \in Nat /\ DOMAIN order = 1 .. Len(order)
  BY <1>2, Schedules DEF Unfinished
<1>5. ~Done(<<kind, order[first]>>)
  BY <1>2 DEF Unfinished
<1>6. ASSUME NEW j \in 1 .. first - 1 PROVE Done(<<kind, order[j]>>)
  <2>1. j \in DOMAIN order /\ ~(first <= j)
    BY <1>4
  <2> QED  BY <2>1, <1>2 DEF Unfinished
<1> QED  BY <1>3, <1>4, <1>5, <1>6

\* capture_old_objects stops at the capture whose turn it is.
LEMMA CaptureForms ==
  ASSUME CaptureOldObjects
  PROVE  \/ /\ Unfinished("capture_old_object", CaptureOrder) = {}
            /\ Proceed("payloads")
         \/ \E e \in Effects \ OneShot :
              /\ Turn(e) /\ ~Done(e)
              /\ \/ PublishIntent(e, "preparing")
                 \/ RetryIntended(e)
                 \/ CaptureOld
                 \/ PublishTerminal(e, "preparing")
                 \/ FailPreparation
<1> DEFINE e == FirstUnfinished("capture_old_object", CaptureOrder)
<1>1. CASE Unfinished("capture_old_object", CaptureOrder) # {}
  <2>1. PICK i \in DOMAIN CaptureOrder :
          /\ e = <<"capture_old_object", CaptureOrder[i]>>
          /\ ~Done(<<"capture_old_object", CaptureOrder[i]>>)
          /\ \A j \in 1 .. i - 1 : Done(<<"capture_old_object", CaptureOrder[j]>>)
    BY <1>1, FirstUnfinishedTurn
  <2>2. PICK f \in Effects \ OneShot : f = <<"capture_old_object", CaptureOrder[i]>>
    BY DeclaredEffects
  <2>3. Turn(f) /\ ~Done(f)
    BY <2>1, <2>2 DEF Turn, WalkTurn, CaptureOldObjects, At
  <2>4. \/ PublishIntent(e, "preparing") \/ RetryIntended(e) \/ CaptureOld
        \/ PublishTerminal(e, "preparing") \/ FailPreparation
    BY <1>1 DEF CaptureOldObjects
  <2>5. e = f
    BY <2>1, <2>2
  <2> HIDE DEF e
  <2>6. \/ PublishIntent(f, "preparing") \/ RetryIntended(f) \/ CaptureOld
        \/ PublishTerminal(f, "preparing") \/ FailPreparation
    BY <2>4, <2>5
  <2> QED  BY <2>3, <2>6
<1>2. CASE Unfinished("capture_old_object", CaptureOrder) = {}
  BY <1>2 DEF CaptureOldObjects
<1> QED  BY <1>1, <1>2

\* publish_rejected stops at the rejected publication whose turn it is.
LEMMA RejectedForms ==
  ASSUME PublishRejected
  PROVE  \/ /\ Unfinished("publish_rejected_object", RejectedOrder) = {}
            /\ Proceed("sync_rejected")
         \/ \E e \in OneShot :
              /\ Turn(e) /\ ~Done(e)
              /\ \/ PublishIntent(e, "mutating")
                 \/ ExecuteRejected(e)
                 \/ PublishTerminal(e, "mutating")
                 \/ /\ Idle /\ Terminal(e) \in {"intent", "indeterminate"}
                    /\ FailRejected("indeterminate")
                 \/ /\ Idle /\ Terminal(e) = "failed"
                    /\ FailRejected("failed_before_target_mutation")
<1> DEFINE e == FirstUnfinished("publish_rejected_object", RejectedOrder)
           Does(x) == \/ PublishIntent(x, "mutating")
                      \/ ExecuteRejected(x)
                      \/ PublishTerminal(x, "mutating")
                      \/ /\ Idle /\ Terminal(x) \in {"intent", "indeterminate"}
                         /\ FailRejected("indeterminate")
                      \/ /\ Idle /\ Terminal(x) = "failed"
                         /\ FailRejected("failed_before_target_mutation")
<1>1. CASE Unfinished("publish_rejected_object", RejectedOrder) # {}
  <2>1. PICK i \in DOMAIN RejectedOrder :
          /\ e = <<"publish_rejected_object", RejectedOrder[i]>>
          /\ ~Done(<<"publish_rejected_object", RejectedOrder[i]>>)
          /\ \A j \in 1 .. i - 1 : Done(<<"publish_rejected_object", RejectedOrder[j]>>)
    BY <1>1, FirstUnfinishedTurn
  <2>2. PICK f \in OneShot : f = <<"publish_rejected_object", RejectedOrder[i]>>
    BY DeclaredEffects
  <2>3. Turn(f) /\ ~Done(f)
    BY <2>1, <2>2 DEF Turn, WalkTurn, PublishRejected, At
  <2>4. Does(e)
    BY <1>1 DEF PublishRejected
  <2>5. e = f
    BY <2>1, <2>2
  <2> HIDE DEF e
  <2>6. Does(f)
    BY <2>4, <2>5
  <2> QED  BY <2>3, <2>6
<1>2. CASE Unfinished("publish_rejected_object", RejectedOrder) = {}
  BY <1>2 DEF PublishRejected
<1> QED  BY <1>1, <1>2

\* execute_active stops at the active effect whose turn it is.
LEMMA ActiveForms ==
  ASSUME ExecuteActiveEffects
  PROVE  \/ /\ Unfinished("publish_active_object", ActiveOrder) = {}
            /\ Proceed("sync_active")
         \/ \E e \in OneShot :
              /\ Turn(e) /\ ~Done(e)
              /\ \/ PublishIntent(e, "mutating")
                 \/ ExecuteActive(e)
                 \/ PublishTerminal(e, "mutating")
                 \/ /\ Idle /\ Terminal(e) = "failed"
                    /\ Interrupt("effect_failed")
                 \/ /\ Idle /\ Terminal(e) \in {"intent", "indeterminate"}
                    /\ Interrupt("effect_indeterminate")
<1> DEFINE e == FirstUnfinished("publish_active_object", ActiveOrder)
           Does(x) == \/ PublishIntent(x, "mutating")
                      \/ ExecuteActive(x)
                      \/ PublishTerminal(x, "mutating")
                      \/ /\ Idle /\ Terminal(x) = "failed"
                         /\ Interrupt("effect_failed")
                      \/ /\ Idle /\ Terminal(x) \in {"intent", "indeterminate"}
                         /\ Interrupt("effect_indeterminate")
<1>1. CASE Unfinished("publish_active_object", ActiveOrder) # {}
  <2>1. PICK i \in DOMAIN ActiveOrder :
          /\ e = <<"publish_active_object", ActiveOrder[i]>>
          /\ ~Done(<<"publish_active_object", ActiveOrder[i]>>)
          /\ \A j \in 1 .. i - 1 : Done(<<"publish_active_object", ActiveOrder[j]>>)
    BY <1>1, FirstUnfinishedTurn
  <2>2. PICK f \in OneShot : f = <<"publish_active_object", ActiveOrder[i]>>
    BY DeclaredEffects
  <2>3. Turn(f) /\ ~Done(f)
    BY <2>1, <2>2 DEF Turn, WalkTurn, ExecuteActiveEffects, At
  <2>4. Does(e)
    BY <1>1 DEF ExecuteActiveEffects, AnnounceActive
  <2>5. e = f
    BY <2>1, <2>2
  <2> HIDE DEF e
  <2>6. Does(f)
    BY <2>4, <2>5
  <2> QED  BY <2>3, <2>6
<1>2. CASE Unfinished("publish_active_object", ActiveOrder) = {}
  BY <1>2 DEF ExecuteActiveEffects
<1> QED  BY <1>1, <1>2

\* The loop of recover_interrupted starts from the last candidate that is not
\* recovered.
LEMMA NextRecoveryTurn ==
  ASSUME Unrecovered # {}
  PROVE  \E i \in Candidates :
           /\ NextRecovery = RecoverEffect(i) /\ ~Done(RecoverEffect(i))
           /\ \A j \in Candidates : j > i => Done(RecoverEffect(j))
<1>1. /\ Len(ActiveOrder) \in Nat
      /\ Unrecovered \in SUBSET (1 .. Len(ActiveOrder))
  BY Schedules DEF Unrecovered, Candidates
<1> DEFINE last == CHOOSE i \in Unrecovered : \A j \in Unrecovered : j <= i
<1>2. last \in Unrecovered /\ \A j \in Unrecovered : j <= last
  BY <1>1, GreatestPosition
<1>3. NextRecovery = RecoverEffect(last)
  BY DEF NextRecovery
<1> HIDE DEF last
<1>4. last \in Candidates /\ ~Done(RecoverEffect(last))
  BY <1>2 DEF Unrecovered
<1>5. ASSUME NEW j \in Candidates, j > last PROVE Done(RecoverEffect(j))
  <2>1. last \in Nat /\ j \in Nat
    BY <1>2, Schedules DEF Unrecovered, Candidates
  <2> QED  BY <2>1, <1>2, <1>5 DEF Unrecovered
<1> QED  BY <1>3, <1>4, <1>5

\* recover_interrupted takes the candidate whose turn it is, or ends.
LEMMA RecoveryForms ==
  ASSUME RecoverCandidates
  PROVE  \/ /\ Unrecovered = {} /\ Candidates # {}
            /\ Proceed(IF AllDomains THEN "sync_recovered" ELSE "conclude")
         \/ \E e \in OneShot :
              /\ Turn(e) /\ ~Done(e)
              /\ \/ PublishIntent(e, "recovering")
                 \/ Recover(e)
                 \/ PublishTerminal(e, "recovering")
                 \/ Proceed("conclude")
<1> DEFINE e == NextRecovery
           Does(x) == \/ PublishIntent(x, "recovering")
                      \/ Recover(x)
                      \/ PublishTerminal(x, "recovering")
                      \/ Proceed("conclude")
<1>1. CASE Unrecovered # {}
  <2>1. PICK i \in Candidates :
          /\ e = RecoverEffect(i) /\ ~Done(RecoverEffect(i))
          /\ \A j \in Candidates : j > i => Done(RecoverEffect(j))
    BY <1>1, NextRecoveryTurn
  <2>2. PICK f \in OneShot : f = RecoverEffect(i)
    BY DeclaredEffects DEF Candidates
  <2>3. Turn(f) /\ ~Done(f)
    BY <2>1, <2>2 DEF Turn, RecoveryTurn, RecoverCandidates, At
  <2>4. Does(e)
    BY <1>1 DEF RecoverCandidates
  <2>5. e = f
    BY <2>1, <2>2
  <2> HIDE DEF e
  <2>6. Does(f)
    BY <2>4, <2>5
  <2> QED  BY <2>3, <2>6
<1>2. CASE Unrecovered = {}
  BY <1>2 DEF RecoverCandidates
<1> QED  BY <1>1, <1>2

\* stage_incoming_payloads: an intent for a payload without one, one call once
\* all have theirs, a terminal event for a payload without one, or the end of
\* the phase.
LEMMA PayloadForms ==
  ASSUME StageIncomingPayloads
  PROVE  \/ \E p \in Payloads :
              /\ Idle /\ ~Intended(PayloadEffect(p))
              /\ AppendEvent(PayloadEffect(p), "preparing", "intent")
              /\ UNCHANGED <<engine, world, thrown, crashes>>
         \/ /\ \A p \in Payloads : Intended(PayloadEffect(p))
            /\ engine' = [engine EXCEPT !.call = "issued"]
            /\ UNCHANGED <<journal, world, thrown, crashes>>
         \/ SealPayloads
         \/ \E p \in Payloads :
              /\ engine.call \in Fact
              /\ journal.progress[PayloadEffect(p)] \in {"none", "intent"}
              /\ AppendEvent(PayloadEffect(p), "preparing", engine.call)
              /\ UNCHANGED <<engine, world, thrown, crashes>>
         \/ FailPreparation
         \/ /\ \A p \in Payloads : Done(PayloadEffect(p))
            /\ Proceed("sync_incoming")
<1> DEFINE lacking(events) ==
             {i \in DOMAIN PayloadOrder :
                Terminal(PayloadEffect(PayloadOrder[i])) \in events}
           first(indices) ==
             PayloadEffect(PayloadOrder[
               CHOOSE i \in indices : \A j \in indices : i <= j])
           unsealed == lacking({"none", "intent"})
           refused == lacking({"failed", "indeterminate"})
<1>1. ASSUME NEW events, lacking(events) # {}
      PROVE  \E p \in Payloads : /\ first(lacking(events)) = PayloadEffect(p)
                                 /\ Terminal(PayloadEffect(p)) \in events
  <2>1. lacking(events) \in SUBSET Nat
    BY Schedules
  <2> DEFINE i == CHOOSE k \in lacking(events) : \A j \in lacking(events) : k <= j
  <2>2. i \in lacking(events)
    BY <1>1, <2>1, LeastPosition
  <2>3. first(lacking(events)) = PayloadEffect(PayloadOrder[i])
    OBVIOUS
  <2> HIDE DEF i, first
  <2> QED  BY <2>2, <2>3 DEF Payloads, Elements
<1>2. ASSUME NEW events, lacking(events) = {}, NEW p \in Payloads
      PROVE  Terminal(PayloadEffect(p)) \notin events
  BY <1>2 DEF Payloads, Elements
<1>3. \/ /\ Idle /\ lacking({"none"}) # {}
         /\ AppendEvent(first(lacking({"none"})), "preparing", "intent")
         /\ UNCHANGED <<engine, world, thrown, crashes>>
      \/ /\ lacking({"none"}) = {}
         /\ engine' = [engine EXCEPT !.call = "issued"]
         /\ UNCHANGED <<journal, world, thrown, crashes>>
      \/ SealPayloads
      \/ /\ engine.call \in Fact /\ unsealed # {}
         /\ AppendEvent(first(unsealed), "preparing", engine.call)
         /\ UNCHANGED <<engine, world, thrown, crashes>>
      \/ FailPreparation
      \/ refused = {} /\ unsealed = {} /\ Proceed("sync_incoming")
  BY DEF StageIncomingPayloads
<1> HIDE DEF lacking, first
<1>4. CASE /\ Idle /\ lacking({"none"}) # {}
           /\ AppendEvent(first(lacking({"none"})), "preparing", "intent")
           /\ UNCHANGED <<engine, world, thrown, crashes>>
  <2>1. PICK p \in Payloads : /\ first(lacking({"none"})) = PayloadEffect(p)
                              /\ Terminal(PayloadEffect(p)) \in {"none"}
    BY <1>1, <1>4
  <2>2. ~Intended(PayloadEffect(p))
    BY <2>1, TerminalValues DEF Intended
  <2> QED  BY <1>4, <2>1, <2>2
<1>5. CASE /\ lacking({"none"}) = {}
           /\ engine' = [engine EXCEPT !.call = "issued"]
           /\ UNCHANGED <<journal, world, thrown, crashes>>
  <2>1. \A p \in Payloads : Intended(PayloadEffect(p))
    BY <1>2, <1>5, TerminalValues DEF Intended
  <2> QED  BY <1>5, <2>1
<1>6. CASE /\ engine.call \in Fact /\ unsealed # {}
           /\ AppendEvent(first(unsealed), "preparing", engine.call)
           /\ UNCHANGED <<engine, world, thrown, crashes>>
  <2>1. PICK p \in Payloads : /\ first(unsealed) = PayloadEffect(p)
                              /\ Terminal(PayloadEffect(p)) \in {"none", "intent"}
    BY <1>1, <1>6
  <2>2. journal.progress[PayloadEffect(p)] \in {"none", "intent"}
    BY <2>1, TerminalValues
  <2> QED  BY <1>6, <2>1, <2>2
<1>7. CASE refused = {} /\ unsealed = {} /\ Proceed("sync_incoming")
  <2>1. \A p \in Payloads :
          Terminal(PayloadEffect(p))
            \notin {"none", "intent"} \cup {"failed", "indeterminate"}
    BY <1>2, <1>7
  <2>2. \A p \in Payloads : Done(PayloadEffect(p))
    BY <2>1, TerminalValues DEF Done, TerminalKind
  <2> QED  BY <1>7, <2>2
<1> QED  BY <1>3, <1>4, <1>5, <1>6, <1>7

\* complete_application walks over the plan's paths in plan order.
LEMMA FirstPathMember ==
  ASSUME NEW paths, paths \cap PlanPaths # {}
  PROVE  FirstPath(paths) \in paths \cap PlanPaths
<1> DEFINE S == {i \in DOMAIN PlanOrder : PlanOrder[i] \in paths}
<1>1. S \in SUBSET Nat /\ S # {}
  BY Schedules DEF PlanPaths, Elements
<1>2. \E i \in S : \A j \in S : i <= j
  BY <1>1, LeastPosition
<1>3. \E i \in DOMAIN PlanOrder :
        /\ PlanOrder[i] \in paths
        /\ \A j \in DOMAIN PlanOrder : PlanOrder[j] \in paths => i <= j
  BY <1>2
<1> QED  BY <1>3 DEF FirstPath, PlanPaths, Elements

\* The observation intent is for a path that has none.
LEMMA ObserveIntentForm ==
  ASSUME ObserveIntent
  PROVE  \E p \in PlanPaths :
           /\ ~Intended(ObserveEffect(p))
           /\ AppendEvent(ObserveEffect(p), "effects_visible", "intent")
           /\ UNCHANGED <<engine, world, thrown, crashes>>
<1> DEFINE fresh == {p \in PlanPaths : ~Intended(ObserveEffect(p))}
<1>1. FirstPath(fresh) \in fresh
  BY FirstPathMember DEF ObserveIntent
<1>2. /\ AppendEvent(ObserveEffect(FirstPath(fresh)), "effects_visible", "intent")
      /\ UNCHANGED <<engine, world, thrown, crashes>>
  BY DEF ObserveIntent
<1> HIDE DEF fresh
<1>3. PICK p \in fresh : p = FirstPath(fresh)
  BY <1>1
<1>4. AppendEvent(ObserveEffect(p), "effects_visible", "intent")
  BY <1>2, <1>3
<1> QED  BY <1>2, <1>3, <1>4 DEF fresh

\* The recorded observation is of a path that is not judged yet, and a restart
\* adds its intent first.
LEMMA RecordObservationForm ==
  ASSUME RecordObservation
  PROVE  \E p \in PlanPaths :
           /\ journal.progress[ObserveEffect(p)] \in {"none", "intent"}
           /\ AppendEvent(ObserveEffect(p), "effects_visible",
                          IF Intended(ObserveEffect(p)) THEN engine.obs[p]
                          ELSE "intent")
           /\ UNCHANGED <<engine, world, thrown, crashes>>
<1>1. FirstPath(Unjudged) \in Unjudged
  BY FirstPathMember DEF RecordObservation, Unjudged
<1>2. PICK p \in Unjudged : p = FirstPath(Unjudged)
  BY <1>1
<1>3. journal.progress[ObserveEffect(p)] \in {"none", "intent"}
  BY TerminalValues DEF Unjudged
<1>4. /\ AppendEvent(ObserveEffect(FirstPath(Unjudged)), "effects_visible",
                     IF Intended(ObserveEffect(FirstPath(Unjudged)))
                     THEN engine.obs[FirstPath(Unjudged)] ELSE "intent")
      /\ UNCHANGED <<engine, world, thrown, crashes>>
  BY DEF RecordObservation
<1>5. AppendEvent(ObserveEffect(p), "effects_visible",
                  IF Intended(ObserveEffect(p)) THEN engine.obs[p] ELSE "intent")
  BY <1>2, <1>4
<1> QED  BY <1>3, <1>4, <1>5 DEF Unjudged

----------------------------------------------------------------------------
(***************************************************************************)
(* Type correctness.                                                       *)
(***************************************************************************)
Journals == [recovery : Recoveries, declared : BOOLEAN, state : JournalState,
             progress : [Effects -> Progress],
             receipt : Outcome \cup {"none"},
             evidence : 0 .. MaxProjections, projection : 0 .. MaxProjections]
Verdicts == [outcome : Outcome \cup {"none"}, state : JournalState,
             evidence : 0 .. MaxProjections]
Sessions == [mode : {"fresh", "resumed", "off"}, pc : PC,
             call : {"idle", "issued"} \cup Fact,
             obs : [PlanPaths -> Match \cup {"none"}],
             cause : Interruption \cup {"none"}, verdict : Verdicts,
             projection : 1 .. MaxProjections]

\* The journal keeps its shape under the updates the steps make.
LEMMA TypedJournals ==
  ASSUME NEW g \in Journals, NEW s \in JournalState
  PROVE  /\ [g EXCEPT !.state = s] \in Journals
         /\ [g EXCEPT !.declared = TRUE] \in Journals
         /\ \A outcome \in Outcome \cup {"none"} :
              [g EXCEPT !.state = s, !.receipt = outcome] \in Journals
         /\ \A e : \A event \in Progress :
              [g EXCEPT !.state = s, !.progress[e] = event] \in Journals
         /\ \A e : \A event \in Progress, v \in 0 .. MaxProjections :
              [g EXCEPT !.state = s, !.progress[e] = event,
                        !.projection = v] \in Journals
         /\ \A e : \A event \in Progress, v \in 0 .. MaxProjections,
               outcome \in Outcome \cup {"none"} :
              [g EXCEPT !.state = s, !.progress[e] = event,
                        !.receipt = outcome, !.evidence = v] \in Journals
BY DEF Journals

\* ... and so does the session, whichever fields a step sets.
LEMMA TypedSessions ==
  ASSUME NEW s \in Sessions, NEW pc \in PC
  PROVE  /\ [s EXCEPT !.pc = pc, !.call = "idle"] \in Sessions
         /\ \A call \in {"idle", "issued"} \cup Fact :
              [s EXCEPT !.call = call] \in Sessions
         /\ \A cause \in Interruption \cup {"none"} :
              /\ [s EXCEPT !.pc = pc, !.call = "idle", !.cause = cause,
                           !.obs = NoObservation] \in Sessions
              /\ [s EXCEPT !.pc = pc, !.cause = cause] \in Sessions
         /\ \A verdict \in Verdicts :
              [s EXCEPT !.pc = pc, !.call = "idle", !.verdict = verdict] \in Sessions
         /\ \A mode \in {"fresh", "resumed", "off"}, v \in 1 .. MaxProjections :
              Session(mode, pc, v) \in Sessions
<1>1. NoObservation \in [PlanPaths -> Match \cup {"none"}]
  BY DEF NoObservation
<1>2. NoVerdict \in Verdicts
  BY BoundsAssumption DEF NoVerdict, Verdicts, JournalState
<1>3. \A mode \in {"fresh", "resumed", "off"}, v \in 1 .. MaxProjections :
        Session(mode, pc, v) \in Sessions
  BY <1>1, <1>2 DEF Session, Sessions
<1> QED  BY <1>1, <1>3 DEF Sessions

\* What TypeOK says of the journal and the session, and of the rest.
LEMMA TypedParts ==
  TypeOK <=> /\ journal \in Journals /\ engine \in Sessions
             /\ target \in [PlanPaths -> {"before", "after", "other"}]
             /\ shelf \subseteq Rejecteds
             /\ records \in [published : SUBSET (1 .. MaxProjections),
                             durable : SUBSET (1 .. MaxProjections)]
             /\ issued \in [OneShot -> Nat]
             /\ thrown \in Thrown /\ crashes \in 0 .. MaxCrashes
BY Zenon DEF TypeOK, Journals, Sessions, Verdicts

\* The common steps of a session keep the types, whatever they are about.
LEMMA TypedSteps ==
  ASSUME TypeOK, NEW s \in JournalState, NEW pc \in PC
  PROVE  /\ Proceed(pc) => TypeOK'
         /\ ProceedIn(s, pc) => TypeOK'
         /\ \A outcome \in Outcome : Resolve(outcome, s) => TypeOK'
         /\ \A e : PublishIntent(e, s) => TypeOK'
         /\ \A e : RetryIntended(e) => TypeOK'
         /\ \A e : PublishTerminal(e, s) => TypeOK'
         /\ \A e : \A event \in Progress :
              AppendEvent(e, s, event) => journal' \in Journals
         /\ \A fact \in Fact : Return(fact) => journal' \in Journals
                                               /\ engine' \in Sessions
         /\ Stop => engine' \in Sessions
<1>1. journal \in Journals /\ engine \in Sessions
  BY TypedParts
<1>2. "idle" \in {"idle", "issued"} \cup Fact /\ "issued" \in {"idle", "issued"} \cup Fact
      /\ Fact \subseteq {"idle", "issued"} \cup Fact
      /\ "intent" \in Progress /\ Fact \subseteq Progress
      /\ "stopped" \in PC /\ engine.projection \in 1 .. MaxProjections
  BY <1>1 DEF Progress, PC, Sessions
<1>3. ASSUME NEW e, NEW event \in Progress, AppendEvent(e, s, event)
      PROVE  journal' \in Journals
  <2>1. [journal.progress EXCEPT ![e] = event] \in [Effects -> Progress]
    BY <1>1 DEF Journals
  <2>2. [journal EXCEPT !.state = s, !.progress = [journal.progress EXCEPT ![e] = event]]
          \in Journals
    BY <1>1, <2>1 DEF Journals
  <2> QED  BY <2>2, <1>3 DEF AppendEvent
<1>4. Stop => engine' \in Sessions
  BY <1>2, TypedSessions, <1>1 DEF Stop
<1>5. Goto(pc) => engine' \in Sessions
  <2>1. [engine EXCEPT !.pc = pc, !.call = "idle"] \in Sessions
    BY <1>1, TypedSessions
  <2> QED  BY <2>1 DEF Goto
<1>6. ASSUME NEW outcome \in Outcome, PublishReceipt(outcome, s)
      PROVE  journal' \in Journals
  <2>1. [journal EXCEPT !.state = s, !.receipt = outcome] \in Journals
    BY <1>1, TypedJournals
  <2> QED  BY <2>1, <1>6 DEF PublishReceipt
<1>7. AppendState(s) => journal' \in Journals
  BY <1>1, TypedJournals DEF AppendState
<1>8. \A call \in {"idle", "issued"} \cup Fact :
        [engine EXCEPT !.call = call] \in Sessions
  BY <1>1, TypedSessions
<1>9. ASSUME journal' \in Journals, engine' \in Sessions,
             UNCHANGED <<world, thrown, crashes>>
      PROVE  TypeOK'
  BY <1>9, TypedParts DEF world, TypeOK, Journals, Sessions, Verdicts
<1>10. Proceed(pc) => TypeOK'
  BY <1>1, <1>5, <1>9 DEF Proceed
<1>11. ProceedIn(s, pc) => TypeOK'
  BY <1>5, <1>7, <1>9 DEF ProceedIn
<1>12. \A outcome \in Outcome : Resolve(outcome, s) => TypeOK'
  BY <1>4, <1>6, <1>9 DEF Resolve, PublishReceipt
<1>13. ASSUME NEW e, PublishIntent(e, s) PROVE TypeOK'
  <2>1. journal' \in Journals
    BY <1>2, <1>3, <1>13 DEF PublishIntent
  <2> QED  BY <1>2, <1>8, <1>9, <1>13, <2>1 DEF PublishIntent
<1>14. \A e : RetryIntended(e) => TypeOK'
  BY <1>1, <1>2, <1>8, <1>9 DEF RetryIntended
<1>15. ASSUME NEW e, PublishTerminal(e, s) PROVE TypeOK'
  <2>1. journal' \in Journals
    BY <1>2, <1>3, <1>15 DEF PublishTerminal
  <2> QED  BY <1>2, <1>8, <1>9, <1>15, <2>1 DEF PublishTerminal
<1>16. \A fact \in Fact : Return(fact) => journal' \in Journals /\ engine' \in Sessions
  BY <1>1, <1>2, <1>8 DEF Return
<1> QED  BY <1>3, <1>4, <1>10, <1>11, <1>12, <1>13, <1>14, <1>15, <1>16

\* The receipts of failed preparation, rejected publication and recovery.
LEMMA TypedReceipts ==
  ASSUME TypeOK
  PROVE  /\ FailPreparation => TypeOK'
         /\ \A outcome \in {"failed_before_target_mutation", "indeterminate",
                            "effects_visible_durability_unconfirmed"} :
              FailRejected(outcome) => TypeOK'
         /\ \A outcome \in Outcome : SealRecoveryReceipt(outcome) => TypeOK'
<1>1. {"abandoned", "indeterminate", "effects_visible", "recovered"} \subseteq JournalState
  BY DEF JournalState
<1>2. "stopped" \in PC /\ {"failed_before_target_mutation", "indeterminate",
        "effects_visible_durability_unconfirmed"} \subseteq Outcome
  BY DEF PC, Outcome
<1>3. FailPreparation => TypeOK'
  BY <1>1, <1>2, TypedSteps DEF FailPreparation
<1>4. ASSUME NEW outcome \in {"failed_before_target_mutation", "indeterminate",
                              "effects_visible_durability_unconfirmed"},
             FailRejected(outcome)
      PROVE  TypeOK'
  <2>1. PICK s \in JournalState : Resolve(outcome, s)
    BY <1>1, <1>4 DEF FailRejected
  <2> QED  BY <1>2, <2>1, TypedSteps
<1>5. ASSUME NEW outcome \in Outcome, SealRecoveryReceipt(outcome) PROVE TypeOK'
  <2>1. PICK s \in JournalState : Resolve(outcome, s)
    BY <1>1, <1>5 DEF SealRecoveryReceipt, FailureState
  <2> QED  BY <1>2, <2>1, TypedSteps
<1> QED  BY <1>3, <1>4, <1>5

\* An attempt begins in a state of these shapes.
LEMMA TypeInit == Init => TypeOK
<1> SUFFICES ASSUME Init PROVE TypeOK
  OBVIOUS
<1>1. 0 \in 0 .. MaxProjections /\ 1 \in 1 .. MaxProjections /\ 0 \in 0 .. MaxCrashes
  BY BoundsAssumption
<1>2. journal \in Journals
  BY <1>1 DEF Init, Journals, JournalState, Progress
<1>3. "fresh" \in {"fresh", "resumed", "off"} /\ "admit" \in PC
  BY DEF PC
<1>4. [engine EXCEPT !.call = "idle"] = engine
  BY DEF Init, Session
<1>5. engine \in Sessions
  <2>1. NoVerdict \in Verdicts
    BY <1>1 DEF NoVerdict, Verdicts, JournalState
  <2>2. NoObservation \in [PlanPaths -> Match \cup {"none"}]
    BY DEF NoObservation
  <2> QED  BY <1>1, <1>3, <2>1, <2>2 DEF Init, Session, Sessions
<1> QED  BY <1>1, <1>2, <1>5, TypedParts DEF Init, Thrown

\* Every step of a session and every crash keeps the types.
LEMMA TypeStep == TypeOK /\ [Next]_vars => TypeOK'
<1> SUFFICES ASSUME TypeOK, [Next]_vars PROVE TypeOK'
  OBVIOUS
<1>1. journal \in Journals /\ engine \in Sessions
  BY TypedParts
<1>2. /\ {"preparing", "prepared", "mutating", "effects_visible",
          "result_observed", "recovery_pending", "recovering", "indeterminate",
          "abandoned", "application_completed"} \subseteq JournalState
      /\ \A pc \in {"admit", "captures", "payloads", "sync_incoming",
                    "sync_recovery", "rejected", "sync_rejected", "active",
                    "sync_active", "observe", "publish_evidence",
                    "sync_evidence", "seal", "recover", "sync_recovered",
                    "conclude", "stopped"} : pc \in PC
      /\ "intent" \in Progress /\ Fact \subseteq Progress
      /\ engine.projection \in 1 .. MaxProjections
      /\ Match \subseteq Fact /\ DurabilityFact \subseteq Fact
      /\ OperationFact \subseteq Fact
  BY <1>1 DEF JournalState, PC, Progress, Match, Fact, OperationFact, Sessions
<1>3. ASSUME journal' \in Journals, engine' \in Sessions,
             target' \in [PlanPaths -> {"before", "after", "other"}],
             shelf' \subseteq Rejecteds,
             records' \in [published : SUBSET (1 .. MaxProjections),
                           durable : SUBSET (1 .. MaxProjections)],
             issued' \in [OneShot -> Nat],
             thrown' \in Thrown, crashes' \in 0 .. MaxCrashes
      PROVE  TypeOK'
  BY <1>3 DEF TypeOK, Journals, Sessions, Verdicts
<1>4. ASSUME journal' \in Journals, engine' \in Sessions, UNCHANGED <<world, crashes>>,
             thrown' \in Thrown
      PROVE  TypeOK'
  BY <1>3, <1>4, TypedParts DEF world
<1>5. ASSUME NEW why \in Thrown, Raise(why), journal' \in Journals,
             UNCHANGED <<world, crashes>>
      PROVE  TypeOK'
  BY <1>4, <1>5, <1>2, TypedSteps DEF Raise
<1>6. thrown \in Thrown
  BY TypedParts
<1>7. ASSUME NEW cause \in Interruption, Interrupt(cause) PROVE TypeOK'
  <2>1. journal' \in Journals
    BY <1>1, <1>2, <1>7, TypedJournals DEF Interrupt, AppendState
  <2>2. engine' \in Sessions
    BY <1>1, <1>2, <1>7, TypedSessions DEF Interrupt
  <2> QED  BY <1>4, <1>6, <1>7, <2>1, <2>2 DEF Interrupt
<1>8. ASSUME NEW verdict \in Verdicts, SealWith(verdict) PROVE engine' \in Sessions
  BY <1>1, <1>2, <1>8, TypedSessions DEF SealWith
<1>9. \A event : EvidenceVerdict(event) \in Verdicts
  BY <1>2, BoundsAssumption DEF EvidenceVerdict, Verdicts, Outcome
<1>10. CompletedVerdict \in Verdicts
  BY <1>2, BoundsAssumption DEF CompletedVerdict, Verdicts, Outcome
<1>11. ASSUME Synchronize PROVE TypeOK'
  BY <1>2, <1>4, <1>6, <1>11, TypedSteps DEF Synchronize, Return
<1>12. ASSUME NEW call \in {"issued"} \cup Fact,
              engine' = [engine EXCEPT !.call = call]
       PROVE  engine' \in Sessions
  BY <1>1, <1>2, <1>12, TypedSessions
<1>13. ASSUME NEW e, NEW s \in JournalState, NEW event \in Progress,
              AppendEvent(e, s, event)
       PROVE  journal' \in Journals
  BY <1>1, <1>13 DEF AppendEvent, Journals
<1>14. ASSUME NEW e, Issue(e) PROVE issued' \in [OneShot -> Nat]
  <2>1. issued \in [OneShot -> Nat]
    BY TypedParts
  <2>2. issued' = [f \in OneShot |-> IF f = e THEN issued[f] + 1 ELSE issued[f]]
    BY <1>14, <2>1 DEF Issue
  <2>3. \A f \in OneShot : issued[f] \in Nat /\ issued[f] + 1 \in Nat
    BY <2>1
  <2> QED  BY <2>2, <2>3
<1>15. \A pc \in PC : [engine EXCEPT !.pc = pc, !.call = "idle"] \in Sessions
  BY <1>1, TypedSessions
<1>a. CASE Admit
  <2>1. journal' \in Journals
    BY <1>1, <1>2, <1>a, TypedJournals DEF Admit
  <2>2. "captures" \in PC /\ "preparing" \in JournalState
    BY DEF PC, JournalState
  <2>3. engine' \in Sessions
    <3>1. CASE Goto("captures")
      BY <1>15, <2>2, <3>1 DEF Goto
    <3>2. CASE Stop
      BY <2>2, <3>2, TypedSteps
    <3> QED  BY <1>a, <3>1, <3>2 DEF Admit
  <2> QED  BY <1>4, <1>6, <1>a, <2>1, <2>3 DEF Admit
<1>b. CASE CaptureOldObjects
  <2>1. ASSUME CaptureOld PROVE TypeOK'
    BY <1>2, <1>4, <1>6, <2>1, TypedSteps DEF CaptureOld, Return, OperationFact
  <2> QED  BY <1>b, <1>2, <2>1, CaptureForms, TypedSteps, TypedReceipts
<1>c. CASE StageIncomingPayloads
  <2>1. ASSUME SealPayloads PROVE TypeOK'
    BY <1>2, <1>4, <1>6, <2>1, TypedSteps DEF SealPayloads, Return, OperationFact
  <2>2. ASSUME NEW p \in Payloads, NEW event \in Progress,
               AppendEvent(PayloadEffect(p), "preparing", event),
               UNCHANGED <<engine, world, thrown, crashes>>
        PROVE  TypeOK'
    <3>1. journal' \in Journals
      BY <1>2, <1>13, <2>2
    <3> QED  BY <1>1, <1>4, <1>6, <2>2, <3>1
  <2>3. ASSUME engine' = [engine EXCEPT !.call = "issued"],
               UNCHANGED <<journal, world, thrown, crashes>>
        PROVE  TypeOK'
    BY <1>1, <1>4, <1>6, <1>12, <2>3
  <2> QED  BY <1>c, <1>2, <2>1, <2>2, <2>3, PayloadForms, TypedSteps, TypedReceipts
<1>d. CASE SynchronizeIncoming
  BY <1>d, <1>2, <1>11, TypedSteps, TypedReceipts
     DEF SynchronizeIncoming, SynchronizePreparation
<1>e. CASE SynchronizeRecovery
  BY <1>e, <1>2, <1>11, TypedSteps, TypedReceipts
     DEF SynchronizeRecovery, SynchronizePreparation
<1>f. CASE BeginMutation
  BY <1>f, <1>2, TypedSteps DEF BeginMutation
<1>g. CASE PublishRejected
  <2>1. ASSUME NEW i \in DOMAIN RejectedOrder, NEW e,
               e = <<"publish_rejected_object", RejectedOrder[i]>>, ExecuteRejected(e)
        PROVE  TypeOK'
    <3>1. journal' \in Journals /\ engine' \in Sessions
      BY <1>2, <2>1, TypedSteps DEF ExecuteRejected, OperationFact
    <3>2. e[2] \in Rejecteds
      BY <2>1 DEF Rejecteds, Elements
    <3>3. shelf' \subseteq Rejecteds
      BY <2>1, <3>2, TypedParts DEF ExecuteRejected
    <3>4. issued' \in [OneShot -> Nat]
      BY <1>14, <2>1 DEF ExecuteRejected
    <3> QED  BY <1>3, <2>1, <3>1, <3>3, <3>4, TypedParts DEF ExecuteRejected, Return
  <2>2. ASSUME NEW e, Turn(e), ExecuteRejected(e) PROVE TypeOK'
    BY <1>g, <2>1, <2>2 DEF Turn, WalkTurn, PublishRejected, At
  <2> QED  BY <1>g, <1>2, <2>2, RejectedForms, TypedSteps, TypedReceipts
<1>h. CASE SynchronizeRejected(RejectedPublished)
  BY <1>h, <1>2, <1>11, TypedSteps, TypedReceipts
     DEF SynchronizeRejected, RejectedPublished
<1>i. CASE ExecuteActiveEffects
  <2>1. ASSUME NEW e, ExecuteActive(e) PROVE TypeOK'
    <3>1. journal' \in Journals /\ engine' \in Sessions
      BY <1>2, <2>1, TypedSteps DEF ExecuteActive, OperationFact
    <3>2. target' \in [PlanPaths -> {"before", "after", "other"}]
      BY <2>1, TypedParts DEF ExecuteActive
    <3>3. issued' \in [OneShot -> Nat]
      BY <1>14, <2>1 DEF ExecuteActive
    <3> QED  BY <1>3, <2>1, <3>1, <3>2, <3>3, TypedParts DEF ExecuteActive, Return
  <2>2. {"effect_failed", "effect_indeterminate"} \subseteq Interruption
    BY DEF Interruption
  <2> QED  BY <1>i, <1>2, <1>7, <2>1, <2>2, ActiveForms, TypedSteps
<1>j. CASE SynchronizeActive
  BY <1>j, <1>2, <1>11, TypedSteps DEF SynchronizeActive, EffectsVisible
<1>k. CASE InterruptSynchronization
  BY <1>k, <1>7 DEF InterruptSynchronization, Interruption
<1>l. CASE ObserveIntent
  <2>1. PICK p \in PlanPaths :
          AppendEvent(ObserveEffect(p), "effects_visible", "intent")
    BY <1>l, ObserveIntentForm
  <2>2. journal' \in Journals
    BY <1>2, <1>13, <2>1
  <2> QED  BY <1>1, <1>4, <1>6, <1>l, <2>2 DEF ObserveIntent
<1>m. CASE Observe
  <2>1. PICK obs \in Observations : engine' = [engine EXCEPT !.obs = obs]
    BY <1>m DEF Observe
  <2>2. obs \in [PlanPaths -> Match \cup {"none"}]
    BY DEF Observations
  <2>3. engine' \in Sessions
    BY <1>1, <2>1, <2>2 DEF Sessions
  <2> QED  BY <1>1, <1>4, <1>6, <1>m, <2>3 DEF Observe
<1>n. CASE RecordObservation
  <2>1. PICK p \in PlanPaths :
          /\ AppendEvent(ObserveEffect(p), "effects_visible",
                         IF Intended(ObserveEffect(p)) THEN engine.obs[p] ELSE "intent")
          /\ UNCHANGED <<engine, world, thrown, crashes>>
    BY <1>n, RecordObservationForm
  <2>2. engine.obs[p] \in Progress
    BY <1>1, <1>2 DEF Sessions, Progress
  <2>3. PICK event \in Progress : AppendEvent(ObserveEffect(p), "effects_visible", event)
    BY <1>2, <2>1, <2>2
  <2>4. journal' \in Journals
    BY <1>2, <1>13, <2>3
  <2> QED  BY <1>1, <1>4, <1>6, <2>1, <2>4
<1>o. CASE JudgeObservation
  BY <1>o, <1>2, <1>7, TypedSteps DEF JudgeObservation, Interruption
<1>p. CASE PublishCompletedEvidence
  <2>1. ASSUME PublishEvidenceRecord PROVE TypeOK'
    <3>1. journal' \in Journals /\ engine' \in Sessions
      BY <1>2, <2>1, TypedSteps DEF PublishEvidenceRecord, OperationFact
    <3>2. records' \in [published : SUBSET (1 .. MaxProjections),
                        durable : SUBSET (1 .. MaxProjections)]
      BY <1>2, <2>1, TypedParts DEF PublishEvidenceRecord
    <3> QED  BY <1>3, <2>1, <3>1, <3>2, TypedParts DEF PublishEvidenceRecord, Return
  <2>2. ASSUME RecordEvidence PROVE TypeOK'
    <3> DEFINE v == IF engine.call = "completed" THEN engine.projection ELSE 0
    <3>1. v \in 0 .. MaxProjections /\ engine.call \in Progress
      BY <1>2, <2>2, BoundsAssumption DEF RecordEvidence
    <3>2. journal' = [journal EXCEPT !.state = "result_observed",
                                     !.progress[PublishEvidence] = engine.call,
                                     !.projection = v]
      BY <2>2 DEF RecordEvidence
    <3> HIDE DEF v
    <3>3. journal' \in Journals
      BY <1>1, <1>2, <3>1, <3>2 DEF Journals
    <3>4. Goto("sync_evidence") \/ SealWith(EvidenceVerdict(engine.call))
      BY <2>2 DEF RecordEvidence
    <3>5. Goto("sync_evidence") => engine' \in Sessions
      BY <1>2, <1>15 DEF Goto
    <3>6. SealWith(EvidenceVerdict(engine.call)) => engine' \in Sessions
      BY <1>8, <1>9
    <3> QED  BY <1>4, <1>6, <2>2, <3>3, <3>4, <3>5, <3>6 DEF RecordEvidence
  <2> QED  BY <1>p, <1>2, <2>1, <2>2, TypedSteps DEF PublishCompletedEvidence
<1>16. ASSUME NEW event, EvidenceSynchronized(event) PROVE engine' \in Sessions
  BY <1>8, <1>9, <1>10, <1>16 DEF EvidenceSynchronized
<1>q. CASE SynchronizeCompletedEvidence
  <2>1. ASSUME SynchronizeEvidence PROVE TypeOK'
    <3>1. journal' \in Journals /\ engine' \in Sessions
      BY <1>2, <2>1, TypedSteps DEF SynchronizeEvidence
    <3>2. records' \in [published : SUBSET (1 .. MaxProjections),
                        durable : SUBSET (1 .. MaxProjections)]
      BY <2>1, TypedParts DEF SynchronizeEvidence
    <3> QED  BY <1>3, <2>1, <3>1, <3>2, TypedParts DEF SynchronizeEvidence, Return
  <2>2. ASSUME engine.call \in Fact,
               AppendEvent(SyncEvidence, "result_observed", engine.call),
               EvidenceSynchronized(TerminalEvent(SyncEvidence, engine.call)),
               UNCHANGED <<world, thrown, crashes>>
        PROVE  TypeOK'
    <3>1. journal' \in Journals
      BY <1>2, <1>13, <2>2
    <3>2. engine' \in Sessions
      BY <1>16, <2>2
    <3> QED  BY <1>4, <1>6, <2>2, <3>1, <3>2
  <2> QED  BY <1>q, <1>2, <2>1, <2>2, TypedSteps DEF SynchronizeCompletedEvidence
<1>r. CASE SealTerminalReceipt
  <2>1. CASE AppendEvent(Seal, journal.state, "intent")
             /\ UNCHANGED <<engine, world, thrown, crashes>>
    <3>1. journal.state \in JournalState
      BY <1>1 DEF Journals
    <3>2. journal' \in Journals
      BY <1>2, <1>13, <2>1, <3>1
    <3> QED  BY <1>1, <1>4, <1>6, <2>1, <3>2
  <2>2. CASE /\ journal' = [journal EXCEPT !.state = engine.verdict.state,
                                           !.progress[Seal] = "completed",
                                           !.receipt = engine.verdict.outcome,
                                           !.evidence = engine.verdict.evidence]
             /\ Stop
             /\ UNCHANGED <<world, thrown, crashes>>
    <3>1. /\ engine.verdict.state \in JournalState
          /\ engine.verdict.outcome \in Outcome \cup {"none"}
          /\ engine.verdict.evidence \in 0 .. MaxProjections
          /\ "completed" \in Progress
      BY <1>1, <1>2 DEF Sessions, Verdicts, Match
    <3>2. journal' \in Journals
      BY <1>1, <2>2, <3>1 DEF Journals
    <3>3. engine' \in Sessions
      BY <1>2, <2>2, TypedSteps
    <3> QED  BY <1>4, <1>6, <2>2, <3>2, <3>3
  <2>3. CASE Raise("unfinished_effects") /\ UNCHANGED <<journal, world, crashes>>
    BY <1>1, <1>5, <2>3 DEF Thrown
  <2> QED  BY <1>r, <2>1, <2>2, <2>3 DEF SealTerminalReceipt
<1>17. {"failed_before_target_mutation", "indeterminate",
        "effects_visible_durability_unconfirmed", "failed_with_partial_effects",
        "failed_fully_recovered"} \subseteq Outcome
  BY DEF Outcome
<1>s. CASE RecoverNothing
  <2>1. CASE Raise("possibly_applied_effect") /\ UNCHANGED <<journal, world, crashes>>
    BY <1>1, <1>5, <2>1 DEF Thrown
  <2> QED  BY <1>s, <1>17, <2>1, TypedReceipts DEF RecoverNothing
<1>t. CASE RecoverUnselected
  <2>1. PICK outcome \in Outcome : SealRecoveryReceipt(outcome)
    BY <1>t, <1>17 DEF RecoverUnselected
  <2> QED  BY <2>1, TypedReceipts
<1>u. CASE BeginRecovery
  BY <1>u, <1>2, TypedSteps DEF BeginRecovery
<1>v. CASE RecoverCandidates
  <2>1. ASSUME NEW e, Recover(e) PROVE TypeOK'
    <3>1. journal' \in Journals /\ engine' \in Sessions
      BY <1>2, <2>1, TypedSteps DEF Recover, OperationFact
    <3>2. target' \in [PlanPaths -> {"before", "after", "other"}]
      BY <2>1, TypedParts DEF Recover
    <3>3. issued' \in [OneShot -> Nat]
      BY <1>14, <2>1 DEF Recover
    <3> QED  BY <1>3, <2>1, <3>1, <3>2, <3>3, TypedParts DEF Recover, Return
  <2>2. Proceed(IF AllDomains THEN "sync_recovered" ELSE "conclude") => TypeOK'
    BY <1>2, TypedSteps
  <2> QED  BY <1>v, <1>2, <2>1, <2>2, RecoveryForms, TypedSteps
<1>w. CASE SynchronizeRecovered
  BY <1>w, <1>2, <1>11, TypedSteps DEF SynchronizeRecovered
<1>x. CASE ConcludeRecovery
  <2>1. PICK outcome \in Outcome : SealRecoveryReceipt(outcome)
    BY <1>x, <1>17 DEF ConcludeRecovery
  <2> QED  BY <2>1, TypedReceipts
<1>18. ASSUME NEW mode \in {"resumed"}, NEW pc \in PC, NEW v \in 1 .. MaxProjections
       PROVE  Session(mode, pc, v) \in Sessions
  BY <1>1, TypedSessions
<1>y. CASE Reopen
  <2>1. CASE Raise("conflicting_payload_facts") /\ UNCHANGED <<journal, world, crashes>>
    BY <1>1, <1>5, <2>1 DEF Thrown
  <2>2. CASE /\ \/ \E v \in 1 .. MaxProjections :
                     engine' = Session("resumed", "rejected", v)
                \/ \E v \in 1 .. MaxProjections :
                     engine' = Session("resumed", "captures", v)
             /\ thrown' = "none" /\ UNCHANGED <<journal, world, crashes>>
    <3>1. engine' \in Sessions
      BY <1>2, <1>18, <2>2
    <3> QED  BY <1>1, <1>4, <2>2, <3>1 DEF Thrown
  <2>3. CASE /\ PublishReceipt("failed_before_target_mutation", "abandoned")
             /\ thrown' = "none" /\ UNCHANGED <<world, crashes>>
    <3>1. journal' \in Journals
      BY <1>1, <1>2, <1>17, <2>3, TypedJournals DEF PublishReceipt
    <3>2. engine' \in Sessions
      BY <1>2, <2>3, TypedSteps DEF PublishReceipt
    <3> QED  BY <1>4, <2>3, <3>1, <3>2 DEF Thrown
  <2> QED  BY <1>y, <2>1, <2>2, <2>3 DEF Reopen
<1>z. CASE SynchronizeRejected(ResumeAfterRejected)
  <2>1. ASSUME RestartInterruption PROVE TypeOK'
    <3>1. RestartCause \in Interruption \cup {"none"}
      <4>1. RestartCause \in {"effect_failed", "effect_indeterminate",
              "durability_unconfirmed", "durability_indeterminate",
              "result_observation_mismatch", "result_observation_indeterminate", "none"}
        BY Zenon DEF RestartCause
      <4> QED  BY <4>1 DEF Interruption
    <3>2. CASE Raise("no_interrupted_effect") /\ UNCHANGED <<journal, world, crashes>>
      BY <1>1, <1>5, <3>2 DEF Thrown
    <3>3. CASE /\ \/ UNCHANGED journal
                  \/ \E s \in {"indeterminate", "recovery_pending"} : AppendState(s)
               /\ UNCHANGED <<world, crashes>>
               /\ \/ /\ engine' = [engine EXCEPT !.pc = "recover",
                                                 !.cause = RestartCause]
                     /\ UNCHANGED thrown
                  \/ Raise("interruption_durability")
      <4>1. journal' \in Journals
        <5>1. ASSUME NEW s \in {"indeterminate", "recovery_pending"}, AppendState(s)
              PROVE  journal' \in Journals
          <6>1. s \in JournalState
            BY DEF JournalState
          <6>2. [journal EXCEPT !.state = s] \in Journals
            BY <1>1, <6>1, TypedJournals
          <6> QED  BY <5>1, <6>2 DEF AppendState
        <5> QED  BY <1>1, <3>3, <5>1
      <4>2. CASE Raise("interruption_durability")
        BY <1>5, <3>3, <4>1, <4>2 DEF Thrown
      <4>3. CASE /\ engine' = [engine EXCEPT !.pc = "recover", !.cause = RestartCause]
                 /\ UNCHANGED thrown
        <5>1. engine' \in Sessions
          BY <1>1, <1>2, <3>1, <4>3, TypedSessions
        <5> QED  BY <1>4, <1>6, <3>3, <4>1, <4>3, <5>1
      <4> QED  BY <3>3, <4>2, <4>3
    <3> QED  BY <2>1, <3>2, <3>3 DEF RestartInterruption
  <2>2. ResumeAfterRejected => TypeOK'
    BY <1>2, <2>1, TypedSteps DEF ResumeAfterRejected
  <2> QED  BY <1>z, <1>2, <1>11, <2>2, TypedSteps, TypedReceipts DEF SynchronizeRejected
<1>A. CASE ResumeInterruptSynchronization
  <2>1. CASE \E cause \in {"durability_indeterminate", "durability_unconfirmed"} :
               Interrupt(cause)
    BY <1>7, <2>1 DEF Interruption
  <2>2. CASE /\ AppendState("recovery_pending") /\ Raise("interruption_durability")
             /\ UNCHANGED <<world, crashes>>
    <3>1. journal' \in Journals
      BY <1>1, <1>2, <2>2, TypedJournals DEF AppendState
    <3> QED  BY <1>5, <2>2, <3>1 DEF Thrown
  <2> QED  BY <1>A, <2>1, <2>2 DEF ResumeInterruptSynchronization
<1>B. CASE ResumeConcludeRecovery
  <2>1. PICK outcome \in Outcome : SealRecoveryReceipt(outcome)
    BY <1>B, <1>17 DEF ResumeConcludeRecovery
  <2> QED  BY <2>1, TypedReceipts
<1>C. CASE ResumePublication
  <2>1. CASE /\ Raise("completed_evidence_contradicts_journal")
             /\ UNCHANGED <<journal, world, crashes>>
    BY <1>1, <1>5, <2>1 DEF Thrown
  <2>2. CASE /\ engine' = [engine EXCEPT !.call = "issued"]
             /\ UNCHANGED <<journal, world, thrown, crashes>>
    BY <1>1, <1>4, <1>6, <1>12, <2>2
  <2>3. CASE /\ SealWith(EvidenceVerdict(engine.call))
             /\ UNCHANGED <<journal, world, thrown, crashes>>
    BY <1>1, <1>4, <1>6, <1>8, <1>9, <2>3
  <2> QED  BY <1>C, <1>2, <2>1, <2>2, <2>3, TypedSteps DEF ResumePublication
<1>D. CASE ResumeSynchronization
  <2>1. engine' \in Sessions
    BY <1>D, <1>12, <1>16 DEF ResumeSynchronization
  <2> QED  BY <1>1, <1>4, <1>6, <1>D, <2>1 DEF ResumeSynchronization
<1>E. CASE Crash
  <2>1. engine' \in Sessions
    BY <1>2, <1>E, TypedSteps DEF Crash
  <2>2. crashes' \in 0 .. MaxCrashes
    BY <1>E, TypedParts, BoundsAssumption DEF Crash
  <2> QED  BY <1>1, <1>3, <1>E, <2>1, <2>2, TypedParts DEF Crash, world
<1>F. CASE UNCHANGED vars
  BY <1>F, <1>3, TypedParts DEF vars
<1> QED
  BY <1>a, <1>b, <1>c, <1>d, <1>e, <1>f, <1>g, <1>h, <1>i, <1>j, <1>k, <1>l,
     <1>m, <1>n, <1>o, <1>p, <1>q, <1>r, <1>s, <1>t, <1>u, <1>v, <1>w, <1>x,
     <1>y, <1>z, <1>A, <1>B, <1>C, <1>D, <1>E, <1>F
     DEF Next, EngineStep, FreshStep, RestartStep

\* In every behaviour the journal, the world and the live session keep the
\* shapes the C++ types give them: no append stores a state, an event or a
\* receipt outcome the journal does not know.
THEOREM TypeCorrect == Spec => []TypeOK
<1>1. Init => TypeOK
  BY TypeInit
<1>2. TypeOK /\ [Next]_vars => TypeOK'
  BY TypeStep
<1> QED  BY <1>1, <1>2, PTL DEF Spec

----------------------------------------------------------------------------
(***************************************************************************)
(* What a step may do to the journal's effects, and what it leaves.        *)
(***************************************************************************)
\* Effects that are recorded without having been called one by one.
Unwalked == {"stage_incoming_payload", "observe_result", "seal_receipt"}

\* Only a live session records an event, for the effect whose turn it is: one
\* intent and then one terminal event, the answer to its call.  The recovery
\* the execution control selects never changes.
Advances ==
  /\ journal'.recovery = journal.recovery
  /\ \A e \in Effects : journal'.progress[e] # journal.progress[e] =>
       /\ engine.mode # "off" /\ (Turn(e) \/ e[1] \in Unwalked)
       /\ \/ journal.progress[e] = "none" /\ journal'.progress[e] = "intent"
          \/ /\ journal.progress[e] = "intent" /\ journal'.progress[e] \in Fact
             /\ journal'.progress[e] = engine.call \/ e[1] \in Unwalked

\* An append changes one effect and the state, nothing else.
LEMMA AppendedEvent ==
  ASSUME TypeOK, NEW e \in Effects, NEW s, NEW event, AppendEvent(e, s, event)
  PROVE  /\ \A f \in Effects : journal'.progress[f] =
                                 IF f = e THEN event ELSE journal.progress[f]
         /\ journal'.recovery = journal.recovery
         /\ journal'.receipt = journal.receipt
         /\ journal'.projection = journal.projection
         /\ journal'.evidence = journal.evidence
         /\ journal'.declared = journal.declared
         /\ journal'.state = s
<1>1. journal \in Journals
  BY TypedParts
<1> QED  BY <1>1 DEF AppendEvent, Journals

\* What is said of an effect depends on its progress and the selected recovery.
LEMMA TerminalStays ==
  ASSUME NEW e, journal'.recovery = journal.recovery,
         journal'.progress[e] = journal.progress[e]
  PROVE  Terminal(e)' = Terminal(e) /\ Done(e)' = Done(e)
BY DEF Terminal, TerminalEvent, Done, Recovery, ForRecovery

\* A completed effect stays completed.
LEMMA DoneStays ==
  ASSUME Advances, NEW e \in Effects, Done(e)
  PROVE  Done(e)' /\ journal'.progress[e] = journal.progress[e]
<1>1. journal'.progress[e] = journal.progress[e]
  BY TerminalValues DEF Advances
<1> QED  BY <1>1, TerminalStays DEF Advances

\* Which effects recovery undoes depends on the active effects alone.
LEMMA CandidatesStay ==
  ASSUME \A i \in DOMAIN ActiveOrder :
           journal'.progress[<<"publish_active_object", ActiveOrder[i]>>]
             = journal.progress[<<"publish_active_object", ActiveOrder[i]>>]
  PROVE  Candidates' = Candidates
BY DEF Candidates

----------------------------------------------------------------------------
(***************************************************************************)
(* Turns.                                                                  *)
(***************************************************************************)
\* At most one unfinished effect has its turn.
LEMMA TurnUnique ==
  ASSUME NEW e, NEW f, Turn(e), Turn(f),
         engine.pc \in Walks => ~Done(e) /\ ~Done(f)
  PROVE  e = f
<1>1. ASSUME NEW kind,
             NEW order \in {PlanOrder, CaptureOrder, PayloadOrder, RejectedOrder,
                            ActiveOrder},
             WalkTurn(kind, order, e), WalkTurn(kind, order, f), ~Done(e), ~Done(f)
      PROVE  e = f
  <2>1. PICK i \in DOMAIN order :
          /\ e = <<kind, order[i]>>
          /\ \A j \in 1 .. i - 1 : Done(<<kind, order[j]>>)
    BY <1>1 DEF WalkTurn
  <2>2. PICK k \in DOMAIN order :
          /\ f = <<kind, order[k]>>
          /\ \A j \in 1 .. k - 1 : Done(<<kind, order[j]>>)
    BY <1>1 DEF WalkTurn
  <2>3. i \in 1 .. Len(order) /\ k \in 1 .. Len(order) /\ Len(order) \in Nat
    BY Schedules
  <2>4. ~(k \in 1 .. i - 1) /\ ~(i \in 1 .. k - 1)
    BY <1>1, <2>1, <2>2
  <2>5. i = k
    BY <2>3, <2>4
  <2> QED  BY <2>1, <2>2, <2>5
<1>2. ASSUME RecoveryTurn(e), RecoveryTurn(f), ~Done(e), ~Done(f)
      PROVE  e = f
  <2>1. PICK i \in Candidates :
          /\ e = RecoverEffect(i)
          /\ \A j \in Candidates : j > i => Done(RecoverEffect(j))
    BY <1>2 DEF RecoveryTurn
  <2>2. PICK k \in Candidates :
          /\ f = RecoverEffect(k)
          /\ \A j \in Candidates : j > k => Done(RecoverEffect(j))
    BY <1>2 DEF RecoveryTurn
  <2>3. i \in Nat /\ k \in Nat
    BY Schedules DEF Candidates
  <2>4. ~(k > i) /\ ~(i > k)
    BY <1>2, <2>1, <2>2
  <2>5. i = k
    BY <2>3, <2>4
  <2> QED  BY <2>1, <2>2, <2>5
<1>3. CASE engine.pc = "captures"
  BY <1>1, <1>3 DEF Turn, Walks
<1>4. CASE engine.pc = "rejected"
  BY <1>1, <1>4 DEF Turn, Walks
<1>5. CASE engine.pc = "active"
  BY <1>1, <1>5 DEF Turn, Walks
<1>6. CASE engine.pc = "recover"
  BY <1>2, <1>6 DEF Turn, Walks
<1> QED  BY <1>3, <1>4, <1>5, <1>6 DEF Turn

\* A turn lasts while its position does; in recovery, as long as the active
\* effects are left alone.
LEMMA TurnStays ==
  ASSUME Advances, NEW e, Turn(e), engine'.pc = engine.pc,
         engine.pc = "recover" =>
           Candidates' = Candidates /\ journal'.state = journal.state
  PROVE  Turn(e)'
<1>1. CASE engine.pc = "captures"
  <2>1. PICK i \in DOMAIN CaptureOrder :
          /\ e = <<"capture_old_object", CaptureOrder[i]>>
          /\ \A j \in 1 .. i - 1 : Done(<<"capture_old_object", CaptureOrder[j]>>)
    BY <1>1 DEF Turn, WalkTurn
  <2>2. ASSUME NEW j \in 1 .. i - 1 PROVE Done(<<"capture_old_object", CaptureOrder[j]>>)'
    <3>1. j \in DOMAIN CaptureOrder
      BY Schedules
    <3> QED  BY <2>1, <3>1, DeclaredEffects, DoneStays
  <2> QED  BY <1>1, <2>1, <2>2 DEF Turn, WalkTurn
<1>2. CASE engine.pc = "rejected"
  <2>1. PICK i \in DOMAIN RejectedOrder :
          /\ e = <<"publish_rejected_object", RejectedOrder[i]>>
          /\ \A j \in 1 .. i - 1 : Done(<<"publish_rejected_object", RejectedOrder[j]>>)
    BY <1>2 DEF Turn, WalkTurn
  <2>2. ASSUME NEW j \in 1 .. i - 1
        PROVE  Done(<<"publish_rejected_object", RejectedOrder[j]>>)'
    <3>1. j \in DOMAIN RejectedOrder
      BY Schedules
    <3> QED  BY <2>1, <3>1, DeclaredEffects, DoneStays
  <2> QED  BY <1>2, <2>1, <2>2 DEF Turn, WalkTurn
<1>3. CASE engine.pc = "active"
  <2>1. PICK i \in DOMAIN ActiveOrder :
          /\ e = <<"publish_active_object", ActiveOrder[i]>>
          /\ \A j \in 1 .. i - 1 : Done(<<"publish_active_object", ActiveOrder[j]>>)
    BY <1>3 DEF Turn, WalkTurn
  <2>2. ASSUME NEW j \in 1 .. i - 1
        PROVE  Done(<<"publish_active_object", ActiveOrder[j]>>)'
    <3>1. j \in DOMAIN ActiveOrder
      BY Schedules
    <3> QED  BY <2>1, <3>1, DeclaredEffects, DoneStays
  <2> QED  BY <1>3, <2>1, <2>2 DEF Turn, WalkTurn
<1>4. CASE engine.pc = "recover"
  <2>1. PICK i \in Candidates :
          /\ e = RecoverEffect(i)
          /\ \A j \in Candidates : j > i => Done(RecoverEffect(j))
    BY <1>4 DEF Turn, RecoveryTurn
  <2>2. ASSUME NEW j \in Candidates, j > i PROVE Done(RecoverEffect(j))'
    BY <2>1, <2>2, DeclaredEffects, DoneStays DEF Candidates
  <2>3. RecoveryTurn(e)'
    BY <1>4, <2>1, <2>2 DEF Turn, RecoveryTurn, RecoverEffect, RecoverySelected, Recovery,
                            Advances
  <2> QED  BY <1>4, <2>3 DEF Turn
<1> QED
  BY <1>1, <1>2, <1>3, <1>4
     DEF Turn, ActiveSynchronization, RecoveredSynchronization, PublishEvidence,
         SyncEvidence, Global

\* Positions where nothing is called.
LEMMA NoCall ==
  ASSUME Discipline,
         engine.pc \in {"admit", "observe", "seal", "conclude", "stopped"}
  PROVE  engine.call = "idle"
BY DEF Discipline, CallOwned, InFlight, Turn

----------------------------------------------------------------------------
(***************************************************************************)
(* The steps a session is made of, whatever effect they are about.         *)
(***************************************************************************)
\* A step that makes no call and changes no effect: a session ends, moves on
\* or publishes a state or a receipt.
LEMMA QuietStep ==
  ASSUME Discipline, UNCHANGED world,
         journal'.recovery = journal.recovery,
         journal'.progress = journal.progress,
         journal'.projection = journal.projection,
         journal'.receipt = "none" => journal.receipt = "none",
         engine'.call = "idle",
         engine'.mode # "off" => journal'.receipt = "none",
         engine'.obs \in {engine.obs, NoObservation} \cup [PlanPaths -> Match],
         engine'.pc = "sync_recovered" => AllDomains /\ Actives # {},
         engine'.pc = "seal" => engine'.verdict.outcome \in Outcome
  PROVE  Discipline' /\ Advances
<1>1. SessionOpen'
  BY DEF Discipline, SessionOpen, NoObservation
<1>2. FactsKept'
  BY DEF Discipline, FactsKept, Seal, PublishEvidence
<1>3. Announced'
  BY DEF Discipline, Announced, Intended, world
<1>4. CallOwned' /\ Advances
  BY DEF CallOwned, Advances
<1> QED  BY <1>1, <1>2, <1>3, <1>4 DEF Discipline

\* The quiet steps by name.
LEMMA QuietSteps ==
  ASSUME TypeOK, Discipline, engine.mode # "off"
  PROVE  /\ \A pc \in PC \ {"seal"} :
              Proceed(pc) /\ (pc = "sync_recovered" => AllDomains /\ Actives # {})
                => Discipline' /\ Advances
         /\ \A s : \A pc \in PC \ {"sync_recovered", "seal"} :
              ProceedIn(s, pc) => Discipline' /\ Advances
         /\ \A s : \A outcome \in Outcome : Resolve(outcome, s) => Discipline' /\ Advances
         /\ \A cause : Interrupt(cause) => Discipline' /\ Advances
         /\ \A why : Raise(why) /\ UNCHANGED <<journal, world>>
              => Discipline' /\ Advances
         /\ \A why, s : Raise(why) /\ AppendState(s) /\ UNCHANGED world
              => Discipline' /\ Advances
<1>1. journal \in Journals /\ engine \in Sessions
  BY TypedParts
<1>2. journal.receipt = "none"
  BY DEF Discipline, SessionOpen
<1>3. ASSUME Stop
      PROVE  /\ engine'.call = "idle" /\ engine'.mode = "off"
             /\ engine'.obs = NoObservation /\ engine'.pc = "stopped"
  BY <1>3 DEF Stop, Session
<1>4. ASSUME NEW pc, Goto(pc)
      PROVE  /\ engine'.call = "idle" /\ engine'.mode = engine.mode
             /\ engine'.obs = engine.obs /\ engine'.pc = pc
  BY <1>1, <1>4 DEF Goto, Sessions
<1>5. ASSUME NEW s, AppendState(s)
      PROVE  /\ journal'.recovery = journal.recovery
             /\ journal'.progress = journal.progress
             /\ journal'.projection = journal.projection
             /\ journal'.receipt = journal.receipt
  BY <1>1, <1>5 DEF AppendState, Journals
<1>6. ASSUME NEW pc \in PC \ {"seal"}, Proceed(pc),
             pc = "sync_recovered" => AllDomains /\ Actives # {}
      PROVE  Discipline' /\ Advances
  <2>1. UNCHANGED <<journal, world>> /\ Goto(pc)
    BY <1>6 DEF Proceed
  <2> QED  BY <1>2, <1>4, <1>6, <2>1, QuietStep
<1>7. ASSUME NEW s, NEW pc \in PC \ {"sync_recovered", "seal"}, ProceedIn(s, pc)
      PROVE  Discipline' /\ Advances
  <2>1. AppendState(s) /\ UNCHANGED world /\ Goto(pc)
    BY <1>7 DEF ProceedIn
  <2> QED  BY <1>2, <1>4, <1>5, <1>7, <2>1, QuietStep
<1>8. ASSUME NEW outcome \in Outcome, NEW s, Resolve(outcome, s)
      PROVE  Discipline' /\ Advances
  <2>1. /\ journal' = [journal EXCEPT !.state = s, !.receipt = outcome]
        /\ Stop /\ UNCHANGED world
    BY <1>8 DEF Resolve, PublishReceipt
  <2>2. /\ journal'.recovery = journal.recovery
        /\ journal'.progress = journal.progress
        /\ journal'.projection = journal.projection
    BY <1>1, <2>1 DEF Journals
  <2> QED  BY <1>2, <1>3, <2>1, <2>2, QuietStep
<1>9. ASSUME NEW cause, Interrupt(cause) PROVE Discipline' /\ Advances
  <2>1. /\ engine' = [engine EXCEPT !.pc = "recover", !.call = "idle",
                                    !.cause = cause, !.obs = NoObservation]
        /\ UNCHANGED world
    BY <1>9 DEF Interrupt
  <2>2. PICK s : AppendState(s)
    BY <1>9 DEF Interrupt
  <2>3. /\ engine'.call = "idle" /\ engine'.mode = engine.mode
        /\ engine'.obs = NoObservation /\ engine'.pc = "recover"
    BY <1>1, <2>1 DEF Sessions
  <2> QED  BY <1>2, <1>5, <2>1, <2>2, <2>3, QuietStep
<1>10. ASSUME NEW why, Raise(why), UNCHANGED <<journal, world>>
       PROVE  Discipline' /\ Advances
  <2>1. Stop
    BY <1>10 DEF Raise
  <2> QED  BY <1>2, <1>3, <1>10, <2>1, QuietStep
<1>11. ASSUME NEW why, NEW s, Raise(why), AppendState(s), UNCHANGED world
       PROVE  Discipline' /\ Advances
  <2>1. Stop
    BY <1>11 DEF Raise
  <2> QED  BY <1>2, <1>3, <1>5, <1>11, <2>1, QuietStep
<1> QED  BY <1>6, <1>7, <1>8, <1>9, <1>10, <1>11

\* An append of the right event for an effect.
LEMMA AppendStep ==
  ASSUME TypeOK, Discipline, engine.mode # "off",
         NEW e \in Effects, NEW s, NEW event,
         AppendEvent(e, s, event), UNCHANGED world,
         Turn(e) \/ e[1] \in Unwalked,
         event \in {"intent", engine.call} \/ e[1] \in Unwalked,
         \/ journal.progress[e] = "none" /\ event = "intent"
         \/ journal.progress[e] = "intent" /\ event \in Fact \cap FactsOf(e[1]),
         e = Seal => event = "intent",
         SessionOpen', Advances => CallOwned'
  PROVE  Discipline' /\ Advances
<1>1. \A f \in Effects : journal'.progress[f] =
                           IF f = e THEN event ELSE journal.progress[f]
  BY AppendedEvent
<1>2. /\ journal'.recovery = journal.recovery
      /\ journal'.receipt = journal.receipt
      /\ journal'.projection = journal.projection
  BY AppendedEvent
<1>3. Advances
  BY <1>1, <1>2 DEF Advances
<1>4. Seal \in Effects /\ PublishEvidence \in Effects
  BY DeclaredEffects DEF Seal, PublishEvidence, DeclaredKinds
<1>5. FactsKept'
  <2>1. \A f \in Effects :
          journal'.progress[f] \in {"none", "intent"} \cup FactsOf(f[1])
    BY <1>1 DEF Discipline, FactsKept
  <2>2. journal.receipt = "none" => journal'.progress[Seal] \in {"none", "intent"}
    BY <1>1, <1>4 DEF Discipline, FactsKept
  <2>3. journal.projection # 0 => journal'.progress[PublishEvidence] = "completed"
    BY <1>1, <1>4 DEF Discipline, FactsKept
  <2> QED  BY <1>2, <2>1, <2>2, <2>3 DEF FactsKept, Seal, PublishEvidence
<1>6. \A f \in Effects : Intended(f) => Intended(f)'
  BY <1>1 DEF Intended, Fact, OperationFact, DurabilityFact
<1>7. Announced'
  BY <1>6, DeclaredEffects DEF Announced, Discipline, world, Intended, Effects, On, OneShot
<1> QED  BY <1>3, <1>5, <1>7 DEF Discipline

\* PublishIntent: the call that follows belongs to the effect just announced.
LEMMA IntentStep ==
  ASSUME TypeOK, Discipline, engine.mode # "off",
         NEW e \in Effects, NEW s, Turn(e), PublishIntent(e, s),
         engine.pc = "recover" => s = "recovering"
  PROVE  Discipline' /\ Advances
<1>1. /\ AppendEvent(e, s, "intent") /\ UNCHANGED world
      /\ engine' = [engine EXCEPT !.call = "issued"]
      /\ journal.progress[e] = "none"
  BY DEF PublishIntent, Intended
<1>2. engine \in Sessions /\ issued \in [OneShot -> Nat]
  BY TypedParts
<1>3. /\ engine'.call = "issued" /\ engine'.mode = engine.mode
      /\ engine'.obs = engine.obs /\ engine'.pc = engine.pc
      /\ engine'.verdict = engine.verdict
  BY <1>1, <1>2 DEF Sessions
<1>4. journal'.receipt = journal.receipt /\ journal'.progress[e] = "intent"
  BY <1>1, AppendedEvent
<1>5. SessionOpen'
  BY <1>3, <1>4 DEF Discipline, SessionOpen, NoObservation
<1>6. ASSUME Advances PROVE CallOwned'
  <2>1. engine.pc # "payloads"
    BY DEF Turn
  <2>2. ASSUME engine.pc = "recover"
        PROVE  Candidates' = Candidates /\ journal'.state = journal.state
    <3>1. PICK i \in DOMAIN ActiveOrder : e = RecoverEffect(i)
      BY <2>2 DEF Turn, RecoveryTurn, Candidates
    <3>2. \A j \in DOMAIN ActiveOrder : <<"publish_active_object", ActiveOrder[j]>> # e
      BY <3>1 DEF RecoverEffect
    <3>3. journal'.state = journal.state
      BY <1>1, <2>2, AppendedEvent DEF Turn, RecoveryTurn
    <3> QED  BY <1>1, <3>2, <3>3, AppendedEvent, DeclaredEffects, CandidatesStay
  <2>3. Turn(e)'
    BY <1>3, <1>6, <2>2, TurnStays
  <2>4. e \in OneShot => issued'[e] = 0
    BY <1>1, <1>2 DEF Discipline, Announced, Intended, world
  <2>5. InFlight(e)'
    BY <1>3, <1>4, <2>3, <2>4 DEF InFlight
  <2> QED  BY <1>3, <2>1, <2>5 DEF CallOwned
<1>7. e = Seal => "intent" = "intent"
  OBVIOUS
<1> QED  BY <1>1, <1>5, <1>6, <1>7, AppendStep

\* RetryIntended: a restart calls again under the intent it finds.
LEMMA RetryStep ==
  ASSUME TypeOK, Discipline, engine.mode # "off",
         NEW e \in Effects \ OneShot, Turn(e), RetryIntended(e)
  PROVE  Discipline' /\ Advances
<1>1. /\ engine' = [engine EXCEPT !.call = "issued"]
      /\ UNCHANGED <<journal, world>> /\ journal.progress[e] = "intent"
  BY DEF RetryIntended
<1>2. engine \in Sessions
  BY TypedParts
<1>3. /\ engine'.call = "issued" /\ engine'.mode = engine.mode
      /\ engine'.obs = engine.obs /\ engine'.pc = engine.pc
      /\ engine'.verdict = engine.verdict
  BY <1>1, <1>2 DEF Sessions
<1>4. Advances
  BY <1>1 DEF Advances
<1>5. Turn(e)'
  BY <1>1, <1>3, <1>4, TurnStays DEF Candidates
<1>6. engine'.pc # "payloads"
  BY <1>3 DEF Turn
<1>7. InFlight(e)'
  BY <1>1, <1>3, <1>5 DEF InFlight
<1>8. CallOwned'
  BY <1>6, <1>7 DEF CallOwned
<1>9. SessionOpen' /\ FactsKept' /\ Announced'
  BY <1>1, <1>3 DEF Discipline, SessionOpen, FactsKept, Announced, NoObservation,
                    Intended, world, Seal, PublishEvidence
<1> QED  BY <1>4, <1>8, <1>9 DEF Discipline

\* Return: the answer to the call in progress, with what the backend did.
LEMMA ReturnStep ==
  ASSUME TypeOK, Discipline, engine.mode # "off", engine.pc # "payloads",
         NEW fact \in Fact, Return(fact), Announced',
         \A e \in Effects : Turn(e) => fact \in FactsOf(e[1])
  PROVE  Discipline' /\ Advances
<1>1. /\ engine' = [engine EXCEPT !.call = fact] /\ UNCHANGED journal
      /\ engine.call = "issued"
  BY DEF Return
<1>2. engine \in Sessions
  BY TypedParts
<1>3. /\ engine'.call = fact /\ engine'.mode = engine.mode
      /\ engine'.obs = engine.obs /\ engine'.pc = engine.pc
      /\ engine'.verdict = engine.verdict
      /\ engine'.projection = engine.projection
  BY <1>1, <1>2 DEF Sessions
<1>4. Advances
  BY <1>1 DEF Advances
<1>5. PICK e \in Effects : InFlight(e)
  BY <1>1 DEF Discipline, CallOwned
<1>6. Turn(e) /\ fact \in FactsOf(e[1])
  BY <1>5 DEF InFlight
<1>7. Turn(e)'
  BY <1>1, <1>3, <1>4, <1>6, TurnStays DEF Candidates
<1>8. fact # "issued"
  BY DEF Fact, OperationFact, DurabilityFact
<1>9. InFlight(e)'
  BY <1>1, <1>3, <1>5, <1>6, <1>7, <1>8 DEF InFlight, Republish
<1>10. CallOwned'
  BY <1>3, <1>9 DEF CallOwned
<1>11. SessionOpen' /\ FactsKept'
  BY <1>1, <1>3 DEF Discipline, SessionOpen, FactsKept, NoObservation, Seal,
                    PublishEvidence
<1> QED  BY <1>4, <1>10, <1>11 DEF Discipline

\* The effect an answer is recorded for is the one that was called.
LEMMA EffectCalled ==
  ASSUME Discipline, engine.call # "idle", NEW e, Turn(e),
         engine.pc \in Walks => ~Done(e),
         engine.pc \notin {"publish_evidence", "sync_evidence"}
  PROVE  /\ e \in Effects /\ journal.progress[e] = "intent"
         /\ engine.call \in {"issued"} \cup FactsOf(e[1])
         /\ engine.call = "issued" /\ e \in OneShot => issued[e] = 0
<1>1. engine.pc # "payloads"
  BY DEF Turn
<1>2. PICK f \in Effects : InFlight(f)
  BY <1>1 DEF Discipline, CallOwned
<1>3. journal.progress[f] = "intent" /\ Turn(f)
  BY <1>2 DEF InFlight
<1>4. ~Done(f)
  BY <1>3, TerminalValues
<1>5. e = f
  BY <1>3, <1>4, TurnUnique
<1> QED  BY <1>2, <1>3, <1>5 DEF InFlight

\* PublishTerminal: the recorded answer frees the position.
LEMMA TerminalStep ==
  ASSUME TypeOK, Discipline, engine.mode # "off",
         NEW e, NEW s, Turn(e), engine.pc \in Walks => ~Done(e),
         engine.pc \notin {"publish_evidence", "sync_evidence"},
         PublishTerminal(e, s)
  PROVE  Discipline' /\ Advances
<1>1. /\ AppendEvent(e, s, engine.call) /\ UNCHANGED world
      /\ engine' = [engine EXCEPT !.call = "idle"]
      /\ engine.call \in Fact
  BY DEF PublishTerminal
<1>2. engine.call \notin {"idle", "issued"}
  BY <1>1 DEF Fact, OperationFact, DurabilityFact
<1>3. /\ e \in Effects /\ journal.progress[e] = "intent"
      /\ engine.call \in FactsOf(e[1])
  BY <1>2, EffectCalled
<1>4. engine \in Sessions
  BY TypedParts
<1>5. /\ engine'.call = "idle" /\ engine'.mode = engine.mode
      /\ engine'.obs = engine.obs /\ engine'.pc = engine.pc
      /\ engine'.verdict = engine.verdict
  BY <1>1, <1>4 DEF Sessions
<1>6. journal'.receipt = journal.receipt
  BY <1>1, <1>3, AppendedEvent
<1>7. SessionOpen' /\ CallOwned'
  BY <1>5, <1>6 DEF Discipline, SessionOpen, CallOwned, NoObservation
<1>8. e # Seal
  BY DEF Turn, Seal, Global, WalkTurn, RecoveryTurn, RecoverEffect, PublishEvidence,
         SyncEvidence, ActiveSynchronization, RecoveredSynchronization
<1> QED  BY <1>1, <1>3, <1>7, <1>8, AppendStep

\* Synchronize answers at every position that synchronizes a domain.
LEMMA SynchronizeStep ==
  ASSUME TypeOK, Discipline, engine.mode # "off", Synchronize,
         engine.pc \in {"sync_incoming", "sync_recovery", "sync_rejected",
                        "sync_active", "sync_recovered"}
  PROVE  Discipline' /\ Advances
<1>1. PICK fact \in DurabilityFact : Return(fact)
  BY DEF Synchronize
<1>2. fact \in Fact
  BY DEF Fact
<1>3. \A e \in Effects : Turn(e) => fact \in FactsOf(e[1])
  BY DEF Turn, FactsOf, Global, ActiveSynchronization, RecoveredSynchronization
<1>4. UNCHANGED <<journal, world>>
  BY <1>1 DEF Synchronize, Return
<1>5. Announced'
  BY <1>4 DEF Discipline, Announced, Intended, world
<1> QED  BY <1>1, <1>2, <1>3, <1>5, ReturnStep

----------------------------------------------------------------------------
(***************************************************************************)
(* The invariant is inductive, and every step advances effects in order.   *)
(***************************************************************************)
\* Which domains an attempt synchronizes at all.
LEMMA SynchronizedDomains ==
  /\ Payloads # {} => Global("synchronize_incoming_staging") \in Effects \ OneShot
  /\ Captures # {} => Global("synchronize_recovery_staging") \in Effects \ OneShot
  /\ RejectedOrder # << >> /\ AllDomains
       <=> Global("synchronize_rejected_store") \in Effects
  /\ AllDomains /\ Actives # {} =>
       /\ ActiveSynchronization \in Effects \ OneShot
       /\ RecoveredSynchronization \in Effects \ OneShot
  /\ {PublishEvidence, SyncEvidence, Seal} \subseteq Effects \ OneShot
  /\ Global("synchronize_rejected_store") \notin OneShot
<1>1. RejectedOrder # << >> <=> Rejecteds # {}
  <2>1. RejectedOrder \in Seq(PlanPaths)
    BY ScheduleAssumption
  <2>2. RejectedOrder # << >> <=> DOMAIN RejectedOrder # {}
    BY <2>1
  <2> QED  BY <2>2 DEF Rejecteds, Elements
<1>2. Global("synchronize_rejected_store") \in Effects =>
        "synchronize_rejected_store" \in DeclaredKinds
  BY DEF Effects, Global, On
<1>3. Global("synchronize_rejected_store") \notin OneShot
  BY DEF OneShot, Global, On
<1>4. "synchronize_rejected_store" \in DeclaredKinds <=> Rejecteds # {} /\ AllDomains
  BY DEF DeclaredKinds
<1>5. RejectedOrder # << >> /\ AllDomains
        <=> Global("synchronize_rejected_store") \in Effects
  BY <1>1, <1>2, <1>4, DeclaredEffects
<1> QED
  BY <1>3, <1>5, DeclaredEffects
     DEF DeclaredKinds, ActiveSynchronization, RecoveredSynchronization,
         PublishEvidence, SyncEvidence, Seal

\* The initial state of an attempt.
LEMMA DisciplineInit == Init => Discipline
<1> SUFFICES ASSUME Init PROVE Discipline
  OBVIOUS
<1>1. {PublishEvidence, SyncEvidence, Seal} \subseteq Effects
  BY SynchronizedDomains
<1>2. FactsKept
  BY <1>1 DEF Init, FactsKept
<1>3. SessionOpen /\ Announced /\ CallOwned
  BY DEF Init, Session, SessionOpen, Announced, CallOwned
<1> QED  BY <1>2, <1>3 DEF Discipline

\* Preparation up to the staging domains.
LEMMA PreparationDiscipline ==
  ASSUME TypeOK, Discipline,
         \/ Admit \/ CaptureOldObjects \/ StageIncomingPayloads
         \/ SynchronizeIncoming \/ SynchronizeRecovery \/ BeginMutation
  PROVE  Discipline' /\ Advances
<1>1. journal \in Journals /\ engine \in Sessions
  BY TypedParts
<1>2. \A pc \in {"captures", "payloads", "sync_incoming", "sync_recovery",
                 "rejected"} : pc \in PC \ {"sync_recovered", "seal"}
  BY DEF PC
<1>3. engine.mode # "off" => (FailPreparation => Discipline' /\ Advances)
  BY QuietSteps DEF FailPreparation, Outcome
<1>a. CASE Admit
  <2>1. /\ journal'.recovery = journal.recovery
        /\ journal'.progress = journal.progress
        /\ journal'.projection = journal.projection
        /\ journal'.receipt = journal.receipt
    BY <1>1, <1>a DEF Admit, Journals
  <2>2. /\ engine'.call = "idle" /\ engine'.pc \in {"captures", "stopped"}
        /\ engine'.obs \in {engine.obs, NoObservation}
    <3>1. CASE Goto("captures")
      BY <1>1, <3>1 DEF Goto, Sessions
    <3>2. CASE Stop
      BY <3>2 DEF Stop, Session
    <3> QED  BY <1>a, <3>1, <3>2 DEF Admit
  <2> QED  BY <1>a, <2>1, <2>2, QuietStep DEF Admit, At, Discipline, SessionOpen
<1>b. CASE CaptureOldObjects
  <2>1. engine.mode # "off" /\ engine.pc = "captures"
    BY <1>b DEF CaptureOldObjects, At
  <2>2. ASSUME CaptureOld PROVE Discipline' /\ Advances
    <3>1. PICK fact \in {"completed", "inexact", "failed", "indeterminate"} : Return(fact)
      BY <2>2 DEF CaptureOld
    <3>2. fact \in Fact /\ \A e \in Effects : Turn(e) => fact \in FactsOf(e[1])
      BY <2>1 DEF Turn, WalkTurn, FactsOf, Fact, OperationFact, Match
    <3>3. UNCHANGED <<journal, world>>
      BY <2>2, <3>1 DEF CaptureOld, Return
    <3>4. Announced'
      BY <3>3 DEF Discipline, Announced, Intended, world
    <3> QED  BY <2>1, <3>1, <3>2, <3>4, ReturnStep
  <2>3. CASE Proceed("payloads")
    BY <1>2, <2>1, <2>3, QuietSteps
  <2>4. ASSUME NEW e \in Effects \ OneShot, Turn(e), ~Done(e),
               \/ PublishIntent(e, "preparing") \/ RetryIntended(e)
               \/ PublishTerminal(e, "preparing")
        PROVE  Discipline' /\ Advances
    BY <2>1, <2>4, IntentStep, RetryStep, TerminalStep
  <2> QED  BY <1>b, <1>3, <2>1, <2>2, <2>3, <2>4, CaptureForms
<1>c. CASE StageIncomingPayloads
  <2>1. engine.mode # "off" /\ engine.pc = "payloads"
    BY <1>c DEF StageIncomingPayloads, At
  <2>2. \A p \in Payloads : PayloadEffect(p) \in Effects \ OneShot
    BY DeclaredEffects DEF Payloads, Elements
  <2>3. /\ Seal \notin {PayloadEffect(p) : p \in Payloads}
        /\ \A p : PayloadEffect(p)[1] \in Unwalked
    BY DEF Seal, Global, PayloadEffect, Unwalked
  <2>4. CASE \E p \in Payloads :
               /\ Idle /\ ~Intended(PayloadEffect(p))
               /\ AppendEvent(PayloadEffect(p), "preparing", "intent")
               /\ UNCHANGED <<engine, world, thrown, crashes>>
    <3>1. PICK p \in Payloads :
            /\ Idle /\ ~Intended(PayloadEffect(p))
            /\ AppendEvent(PayloadEffect(p), "preparing", "intent")
            /\ UNCHANGED <<engine, world, thrown, crashes>>
      BY <2>4
    <3>2. journal'.receipt = journal.receipt
      BY <2>2, <3>1, AppendedEvent
    <3>3. SessionOpen' /\ CallOwned'
      BY <3>1, <3>2 DEF Discipline, SessionOpen, CallOwned, Idle, NoObservation
    <3> QED  BY <2>1, <2>2, <2>3, <3>1, <3>3, AppendStep DEF Intended
  <2>5. CASE /\ \A p \in Payloads : Intended(PayloadEffect(p))
             /\ engine' = [engine EXCEPT !.call = "issued"]
             /\ UNCHANGED <<journal, world, thrown, crashes>>
    <3>1. /\ engine'.call = "issued" /\ engine'.mode = engine.mode
          /\ engine'.obs = engine.obs /\ engine'.pc = engine.pc
      BY <1>1, <2>5 DEF Sessions
    <3>2. CallOwned'
      BY <2>1, <2>5, <3>1 DEF CallOwned, Intended, PayloadEffect
    <3>3. SessionOpen' /\ FactsKept' /\ Announced' /\ Advances
      BY <2>1, <2>5, <3>1 DEF Discipline, SessionOpen, FactsKept, Announced, Advances,
           NoObservation, Intended, world, Seal, PublishEvidence
    <3> QED  BY <3>2, <3>3 DEF Discipline
  <2>6. CASE SealPayloads
    <3>1. PICK fact \in {"completed", "completed_anew", "failed", "indeterminate"} :
            Return(fact)
      BY <2>6 DEF SealPayloads
    <3>2. /\ engine' = [engine EXCEPT !.call = fact] /\ engine.call = "issued"
          /\ UNCHANGED <<journal, world>>
      BY <2>6, <3>1 DEF SealPayloads, Return
    <3>3. /\ engine'.call = fact /\ engine'.mode = engine.mode
          /\ engine'.obs = engine.obs /\ engine'.pc = engine.pc
      BY <1>1, <3>2 DEF Sessions
    <3>4. fact \in FactsOf("stage_incoming_payload")
      BY DEF FactsOf, Match
    <3>5. CallOwned'
      BY <2>1, <3>2, <3>3, <3>4 DEF Discipline, CallOwned, Intended, PayloadEffect
    <3>6. SessionOpen' /\ FactsKept' /\ Announced' /\ Advances
      BY <2>1, <3>2, <3>3 DEF Discipline, SessionOpen, FactsKept, Announced, Advances,
           NoObservation, Intended, world, Seal, PublishEvidence
    <3> QED  BY <3>5, <3>6 DEF Discipline
  <2>7. CASE \E p \in Payloads :
               /\ engine.call \in Fact
               /\ journal.progress[PayloadEffect(p)] \in {"none", "intent"}
               /\ AppendEvent(PayloadEffect(p), "preparing", engine.call)
               /\ UNCHANGED <<engine, world, thrown, crashes>>
    <3>1. PICK p \in Payloads :
            /\ engine.call \in Fact
            /\ journal.progress[PayloadEffect(p)] \in {"none", "intent"}
            /\ AppendEvent(PayloadEffect(p), "preparing", engine.call)
            /\ UNCHANGED <<engine, world, thrown, crashes>>
      BY <2>7
    <3>2. engine.call \notin {"idle", "issued"}
      BY <3>1 DEF Fact, OperationFact, DurabilityFact
    <3>3. /\ engine.call \in FactsOf("stage_incoming_payload")
          /\ \A q \in Payloads : Intended(PayloadEffect(q))
      BY <2>1, <3>2 DEF Discipline, CallOwned
    <3>4. journal.progress[PayloadEffect(p)] = "intent"
      BY <3>1, <3>3 DEF Intended
    <3>5. journal'.receipt = journal.receipt
      BY <2>2, <3>1, AppendedEvent
    <3>6. SessionOpen'
      BY <3>1, <3>5 DEF Discipline, SessionOpen, NoObservation
    <3>7. \A q \in Payloads : Intended(PayloadEffect(q))'
      <4>1. ASSUME NEW q \in Payloads
            PROVE  journal'.progress[PayloadEffect(q)]
                     \in {engine.call, journal.progress[PayloadEffect(q)]}
        BY <2>2, <3>1, AppendedEvent
      <4>2. engine.call # "none"
        BY <3>1 DEF Fact, OperationFact, DurabilityFact
      <4> QED  BY <3>3, <4>1, <4>2 DEF Intended, PayloadEffect
    <3>8. CallOwned'
      BY <2>1, <3>1, <3>3, <3>7 DEF CallOwned
    <3>9. PayloadEffect(p)[1] = "stage_incoming_payload"
      BY DEF PayloadEffect
    <3> QED  BY <2>1, <2>2, <2>3, <3>1, <3>3, <3>4, <3>6, <3>8, <3>9, AppendStep
  <2>8. CASE Proceed("sync_incoming")
    BY <1>2, <2>1, <2>8, QuietSteps
  <2> QED
    BY <1>c, <1>3, <2>1, <2>4, <2>5, <2>6, <2>7, <2>8, PayloadForms
<1>d. CASE SynchronizeIncoming
  <2> DEFINE e == Global("synchronize_incoming_staging")
  <2>1. engine.mode # "off" /\ engine.pc = "sync_incoming"
    BY <1>d DEF SynchronizeIncoming, At
  <2>2. Turn(e)
    BY <2>1 DEF Turn
  <2>3. CASE Proceed("sync_recovery")
    BY <1>2, <2>1, <2>3, QuietSteps
  <2>4. CASE Payloads # {}
    <3>1. e \in Effects \ OneShot
      BY <2>4, SynchronizedDomains
    <3>2. ASSUME PublishIntent(e, "preparing") \/ RetryIntended(e)
                 \/ PublishTerminal(e, "preparing")
          PROVE  Discipline' /\ Advances
      BY <2>1, <2>2, <3>1, <3>2, IntentStep, RetryStep, TerminalStep DEF Walks
    <3> QED  BY <1>d, <1>3, <2>1, <2>3, <2>4, <3>2, SynchronizeStep
             DEF SynchronizeIncoming, SynchronizePreparation
  <2> QED  BY <1>d, <2>3, <2>4 DEF SynchronizeIncoming, SynchronizePreparation
<1>e. CASE SynchronizeRecovery
  <2> DEFINE e == Global("synchronize_recovery_staging")
  <2>1. engine.mode # "off" /\ engine.pc = "sync_recovery"
    BY <1>e DEF SynchronizeRecovery, At
  <2>2. Turn(e)
    BY <2>1 DEF Turn
  <2>3. CASE ProceedIn("prepared", "rejected")
    BY <1>2, <2>1, <2>3, QuietSteps
  <2>4. CASE Captures # {}
    <3>1. e \in Effects \ OneShot
      BY <2>4, SynchronizedDomains
    <3>2. ASSUME PublishIntent(e, "preparing") \/ RetryIntended(e)
                 \/ PublishTerminal(e, "preparing")
          PROVE  Discipline' /\ Advances
      BY <2>1, <2>2, <3>1, <3>2, IntentStep, RetryStep, TerminalStep DEF Walks
    <3> QED  BY <1>e, <1>3, <2>1, <2>3, <2>4, <3>2, SynchronizeStep
             DEF SynchronizeRecovery, SynchronizePreparation
  <2> QED  BY <1>e, <2>3, <2>4 DEF SynchronizeRecovery, SynchronizePreparation
<1>f. CASE BeginMutation
  BY <1>2, <1>f, QuietSteps DEF BeginMutation, At
<1> QED  BY <1>a, <1>b, <1>c, <1>d, <1>e, <1>f

\* A receipt that recovery or rejected publication ends with is quiet.
LEMMA ReceiptsQuiet ==
  ASSUME TypeOK, Discipline, engine.mode # "off"
  PROVE  /\ \A outcome \in Outcome : FailRejected(outcome) => Discipline' /\ Advances
         /\ \A outcome \in Outcome :
              SealRecoveryReceipt(outcome) => Discipline' /\ Advances
<1>1. ASSUME NEW outcome \in Outcome, FailRejected(outcome)
      PROVE  Discipline' /\ Advances
  <2>1. PICK s : Resolve(outcome, s)
    BY <1>1 DEF FailRejected
  <2> QED  BY <2>1, QuietSteps
<1>2. ASSUME NEW outcome \in Outcome, SealRecoveryReceipt(outcome)
      PROVE  Discipline' /\ Advances
  <2>1. PICK s : Resolve(outcome, s)
    BY <1>2 DEF SealRecoveryReceipt
  <2> QED  BY <2>1, QuietSteps
<1> QED  BY <1>1, <1>2

\* restart_interruption leaves the position it was called from, without a call
\* in progress.
LEMMA RestartInterruptionQuiet ==
  ASSUME TypeOK, Discipline, engine.mode # "off", engine.call = "idle",
         RestartInterruption
  PROVE  Discipline' /\ Advances
<1>1. journal \in Journals /\ engine \in Sessions
  BY TypedParts
<1>2. CASE Raise("no_interrupted_effect") /\ UNCHANGED <<journal, world, crashes>>
  BY <1>2, QuietSteps
<1>3. CASE /\ UNCHANGED journal \/ \E s : AppendState(s)
           /\ UNCHANGED world
           /\ engine' = [engine EXCEPT !.pc = "recover", !.cause = RestartCause]
  <2>1. /\ journal'.recovery = journal.recovery
        /\ journal'.progress = journal.progress
        /\ journal'.projection = journal.projection
        /\ journal'.receipt = journal.receipt
    BY <1>1, <1>3 DEF AppendState, Journals
  <2>2. /\ engine'.call = "idle" /\ engine'.mode = engine.mode
        /\ engine'.obs = engine.obs /\ engine'.pc = "recover"
    BY <1>1, <1>3 DEF Sessions
  <2> QED  BY <1>3, <2>1, <2>2, QuietStep DEF Discipline, SessionOpen
<1>4. CASE /\ UNCHANGED journal \/ \E s : AppendState(s)
           /\ UNCHANGED world /\ Raise("interruption_durability")
  BY <1>4, QuietSteps
<1> QED  BY <1>2, <1>3, <1>4 DEF RestartInterruption

\* Rejected publication, fresh or resumed.
LEMMA RejectedDiscipline ==
  ASSUME TypeOK, Discipline,
         \/ PublishRejected
         \/ SynchronizeRejected(RejectedPublished)
         \/ SynchronizeRejected(ResumeAfterRejected)
  PROVE  Discipline' /\ Advances
<1>1. journal \in Journals /\ engine \in Sessions /\ issued \in [OneShot -> Nat]
  BY TypedParts
<1>2. {"sync_rejected", "active"} \subseteq PC \ {"sync_recovered", "seal"}
  BY DEF PC
<1>3. {"indeterminate", "failed_before_target_mutation",
       "effects_visible_durability_unconfirmed"} \subseteq Outcome
  BY DEF Outcome
<1>a. CASE PublishRejected
  <2>1. engine.mode # "off" /\ engine.pc = "rejected"
    BY <1>a DEF PublishRejected, At
  <2>2. ASSUME NEW e \in OneShot, Turn(e), ~Done(e), ExecuteRejected(e)
        PROVE  Discipline' /\ Advances
    <3>1. PICK fact \in {"completed", "failed", "indeterminate"} : Return(fact)
      BY <2>2 DEF ExecuteRejected
    <3>2. fact \in Fact /\ \A f \in Effects : Turn(f) => fact \in FactsOf(f[1])
      BY <2>1 DEF Turn, WalkTurn, FactsOf, Fact, OperationFact, Match
    <3>3. engine.call = "issued" /\ UNCHANGED journal
      BY <3>1 DEF Return
    <3>4. journal.progress[e] = "intent" /\ issued[e] = 0
      BY <2>1, <2>2, <3>3, EffectCalled
    <3>5. \A f \in OneShot : issued'[f] = IF f = e THEN 1 ELSE issued[f]
      BY <1>1, <2>2, <3>4 DEF ExecuteRejected, Issue
    <3>6. UNCHANGED target
      BY <2>2 DEF ExecuteRejected
    <3>7. Announced'
      BY <3>3, <3>4, <3>5, <3>6 DEF Discipline, Announced, Intended
    <3> QED  BY <2>1, <3>1, <3>2, <3>7, ReturnStep
  <2>3. ASSUME NEW e \in OneShot, Turn(e), ~Done(e),
               PublishIntent(e, "mutating") \/ PublishTerminal(e, "mutating")
        PROVE  Discipline' /\ Advances
    BY <2>1, <2>3, DeclaredEffects, IntentStep, TerminalStep
  <2>4. CASE Proceed("sync_rejected")
    BY <1>2, <2>1, <2>4, QuietSteps
  <2> QED  BY <1>a, <1>3, <2>1, <2>2, <2>3, <2>4, RejectedForms, ReceiptsQuiet
<1>b. ASSUME NEW published \in BOOLEAN,
             published => RejectedPublished \/ ResumeAfterRejected,
             At("sync_rejected"),
             LET e == Global("synchronize_rejected_store")
                 skip == RejectedOrder = << >> \/ ~AllDomains
             IN  \/ skip /\ published
                 \/ /\ ~skip
                    /\ \/ PublishIntent(e, "mutating")
                       \/ RetryIntended(e)
                       \/ Synchronize
                       \/ PublishTerminal(e, "mutating")
                       \/ /\ Idle /\ Terminal(e) = "indeterminate"
                          /\ FailRejected("indeterminate")
                       \/ /\ Idle /\ Terminal(e) = "failed"
                          /\ FailRejected("effects_visible_durability_unconfirmed")
                       \/ Idle /\ Done(e) /\ published
      PROVE  Discipline' /\ Advances
  <2> DEFINE e == Global("synchronize_rejected_store")
             skip == RejectedOrder = << >> \/ ~AllDomains
  <2>1. engine.mode # "off" /\ engine.pc = "sync_rejected"
    BY <1>b DEF At
  <2>2. Turn(e)
    BY <2>1 DEF Turn
  <2>3. skip => engine.call = "idle"
    <3>1. \A f \in Effects : InFlight(f) => f = e
      BY <2>1 DEF InFlight, Turn
    <3> QED  BY <2>1, <3>1, SynchronizedDomains DEF Discipline, CallOwned
  <2>4. ASSUME engine.call = "idle", published PROVE Discipline' /\ Advances
    BY <1>2, <1>b, <2>1, <2>4, QuietSteps, RestartInterruptionQuiet
       DEF RejectedPublished, ResumeAfterRejected
  <2>5. CASE ~skip
    <3>1. e \in Effects \ OneShot
      BY <2>5, SynchronizedDomains
    <3>2. ASSUME PublishIntent(e, "mutating") \/ RetryIntended(e)
                 \/ PublishTerminal(e, "mutating")
          PROVE  Discipline' /\ Advances
      BY <2>1, <2>2, <3>1, <3>2, IntentStep, RetryStep, TerminalStep DEF Walks
    <3> QED
      BY <1>b, <1>3, <2>1, <2>4, <2>5, <3>2, SynchronizeStep, ReceiptsQuiet DEF Idle
  <2> QED  BY <1>b, <2>3, <2>4, <2>5
<1>c. CASE SynchronizeRejected(RejectedPublished)
  BY <1>c, <1>b DEF SynchronizeRejected
<1>d. CASE SynchronizeRejected(ResumeAfterRejected)
  BY <1>d, <1>b DEF SynchronizeRejected
<1> QED  BY <1>a, <1>c, <1>d

\* Active execution and its synchronization, fresh or resumed.
LEMMA ActiveDiscipline ==
  ASSUME TypeOK, Discipline,
         \/ ExecuteActiveEffects \/ SynchronizeActive
         \/ InterruptSynchronization \/ ResumeInterruptSynchronization
  PROVE  Discipline' /\ Advances
<1>1. /\ journal \in Journals /\ engine \in Sessions /\ issued \in [OneShot -> Nat]
      /\ target \in [PlanPaths -> {"before", "after", "other"}]
  BY TypedParts
<1>2. {"sync_active", "observe"} \subseteq PC \ {"sync_recovered", "seal"}
  BY DEF PC
<1>a. CASE ExecuteActiveEffects
  <2>1. engine.mode # "off" /\ engine.pc = "active"
    BY <1>a DEF ExecuteActiveEffects, At
  <2>2. ASSUME NEW e \in OneShot, Turn(e), ~Done(e), ExecuteActive(e)
        PROVE  Discipline' /\ Advances
    <3>1. PICK i \in DOMAIN ActiveOrder : e = <<"publish_active_object", ActiveOrder[i]>>
      BY <2>1, <2>2 DEF Turn, WalkTurn
    <3>2. PICK fact \in {"completed", "failed", "indeterminate", "conditional_retained"},
               now \in {"before", "after", "other"} :
            Return(fact) /\ target' = [target EXCEPT ![e[2]] = now]
      BY <2>2 DEF ExecuteActive
    <3>3. fact \in Fact /\ \A f \in Effects : Turn(f) => fact \in FactsOf(f[1])
      BY <2>1 DEF Turn, WalkTurn, FactsOf, Fact, OperationFact, Match
    <3>4. engine.call = "issued" /\ UNCHANGED journal
      BY <3>2 DEF Return
    <3>5. journal.progress[e] = "intent" /\ issued[e] = 0
      BY <2>1, <2>2, <3>4, EffectCalled
    <3>6. \A f \in OneShot : issued'[f] = IF f = e THEN 1 ELSE issued[f]
      BY <1>1, <2>2, <3>5 DEF ExecuteActive, Issue
    <3>7. \A p \in PlanPaths : target'[p] = IF p = ActiveOrder[i] THEN now ELSE target[p]
      BY <1>1, <3>1, <3>2
    <3>8. ActiveOrder[i] \in Actives
      BY DEF Actives, Elements
    <3>9. Announced'
      BY <3>1, <3>4, <3>5, <3>6, <3>7, <3>8 DEF Discipline, Announced, Intended
    <3> QED  BY <2>1, <3>2, <3>3, <3>9, ReturnStep
  <2>3. ASSUME NEW e \in OneShot, Turn(e), ~Done(e),
               PublishIntent(e, "mutating") \/ PublishTerminal(e, "mutating")
        PROVE  Discipline' /\ Advances
    BY <2>1, <2>3, DeclaredEffects, IntentStep, TerminalStep
  <2>4. CASE Proceed("sync_active")
    BY <1>2, <2>1, <2>4, QuietSteps
  <2> QED  BY <1>a, <2>1, <2>2, <2>3, <2>4, ActiveForms, QuietSteps
<1>b. CASE SynchronizeActive
  <2> DEFINE e == ActiveSynchronization
  <2>1. engine.mode # "off" /\ engine.pc = "sync_active"
    BY <1>b DEF SynchronizeActive, At
  <2>2. Turn(e)
    BY <2>1 DEF Turn
  <2>3. CASE EffectsVisible
    BY <1>2, <2>1, <2>3, QuietSteps DEF EffectsVisible
  <2>4. CASE ~SkipActiveSynchronization
    <3>1. e \in Effects \ OneShot
      BY <2>4, SynchronizedDomains DEF SkipActiveSynchronization
    <3>2. ASSUME PublishIntent(e, "mutating") \/ RetryIntended(e)
                 \/ PublishTerminal(e, "mutating")
          PROVE  Discipline' /\ Advances
      BY <2>1, <2>2, <3>1, <3>2, IntentStep, RetryStep, TerminalStep DEF Walks
    <3> QED  BY <1>b, <2>1, <2>3, <2>4, <3>2, SynchronizeStep DEF SynchronizeActive
  <2> QED  BY <1>b, <2>3, <2>4 DEF SynchronizeActive
<1>c. CASE InterruptSynchronization
  BY <1>c, QuietSteps DEF InterruptSynchronization, At
<1>d. CASE ResumeInterruptSynchronization
  <2>1. engine.mode # "off"
    BY <1>d DEF ResumeInterruptSynchronization, At
  <2>2. CASE \E cause : Interrupt(cause)
    BY <2>1, <2>2, QuietSteps
  <2>3. CASE /\ AppendState("recovery_pending") /\ Raise("interruption_durability")
             /\ UNCHANGED <<world, crashes>>
    BY <2>1, <2>3, QuietSteps
  <2> QED  BY <1>d, <2>2, <2>3 DEF ResumeInterruptSynchronization
<1> QED  BY <1>a, <1>b, <1>c, <1>d

\* Sealing: the session moves to its verdict without a call in progress.
LEMMA SealWithQuiet ==
  ASSUME TypeOK, Discipline, engine.mode # "off", NEW verdict \in Verdicts,
         verdict.outcome \in Outcome, SealWith(verdict)
  PROVE  /\ engine'.call = "idle" /\ engine'.mode = engine.mode
         /\ engine'.obs = engine.obs /\ engine'.pc = "seal"
         /\ engine'.verdict.outcome \in Outcome
         /\ UNCHANGED <<journal, world>> => Discipline' /\ Advances
<1>1. engine \in Sessions
  BY TypedParts
<1>2. /\ engine'.call = "idle" /\ engine'.mode = engine.mode
      /\ engine'.obs = engine.obs /\ engine'.pc = "seal"
      /\ engine'.verdict.outcome \in Outcome
  BY <1>1 DEF SealWith, Sessions
<1> QED  BY <1>2, QuietStep DEF Discipline, SessionOpen

\* The verdicts of completion name an outcome.
LEMMA VerdictOutcomes ==
  ASSUME TypeOK
  PROVE  /\ \A event : /\ EvidenceVerdict(event) \in Verdicts
                       /\ EvidenceVerdict(event).outcome \in Outcome
         /\ CompletedVerdict \in Verdicts /\ CompletedVerdict.outcome \in Outcome
<1>1. engine.projection \in 1 .. MaxProjections
  BY TypedParts DEF Sessions
<1>2. \A event : /\ EvidenceVerdict(event) \in Verdicts
                 /\ EvidenceVerdict(event).outcome \in Outcome
  BY BoundsAssumption DEF EvidenceVerdict, Verdicts, Outcome, JournalState
<1>3. CompletedVerdict \in Verdicts /\ CompletedVerdict.outcome \in Outcome
  BY <1>1, BoundsAssumption DEF CompletedVerdict, Verdicts, Outcome, JournalState
<1> QED  BY <1>2, <1>3

\* Observation of the result, fresh or resumed.
LEMMA ObservationDiscipline ==
  ASSUME TypeOK, Discipline,
         ObserveIntent \/ Observe \/ RecordObservation \/ JudgeObservation
  PROVE  Discipline' /\ Advances
<1>1. journal \in Journals /\ engine \in Sessions
  BY TypedParts
<1>2. engine.mode # "off" /\ engine.pc = "observe"
  BY DEF ObserveIntent, Observe, RecordObservation, JudgeObservation, At
<1>3. engine.call = "idle"
  BY <1>2, NoCall
<1>4. ASSUME NEW p \in PlanPaths, NEW event,
             AppendEvent(ObserveEffect(p), "effects_visible", event),
             UNCHANGED <<engine, world>>,
             \/ journal.progress[ObserveEffect(p)] = "none" /\ event = "intent"
             \/ journal.progress[ObserveEffect(p)] = "intent" /\ event \in Match
      PROVE  Discipline' /\ Advances
  <2>1. ObserveEffect(p) \in Effects
    BY DeclaredEffects
  <2>2. event \in Match => event \in Fact \cap FactsOf(ObserveEffect(p)[1])
    BY DEF FactsOf, ObserveEffect, Match, Fact, OperationFact
  <2>3. ObserveEffect(p) # Seal /\ ObserveEffect(p)[1] \in Unwalked
    BY DEF ObserveEffect, Seal, Global, Unwalked
  <2>4. journal'.receipt = journal.receipt
    BY <1>4, <2>1, AppendedEvent
  <2>5. SessionOpen' /\ CallOwned'
    BY <1>3, <1>4, <2>4 DEF Discipline, SessionOpen, CallOwned, NoObservation
  <2> QED  BY <1>2, <1>4, <2>1, <2>2, <2>3, <2>5, AppendStep
<1>a. CASE ObserveIntent
  BY <1>a, <1>4, ObserveIntentForm DEF Intended
<1>b. CASE Observe
  <2>1. PICK obs \in Observations : engine' = [engine EXCEPT !.obs = obs]
    BY <1>b DEF Observe
  <2>2. obs \in [PlanPaths -> Match]
    BY DEF Observations
  <2>3. /\ engine'.call = "idle" /\ engine'.mode = engine.mode
        /\ engine'.obs = obs /\ engine'.pc = engine.pc
    BY <1>1, <1>3, <2>1 DEF Sessions
  <2> QED  BY <1>b, <1>2, <2>2, <2>3, QuietStep DEF Observe, Discipline, SessionOpen
<1>c. CASE RecordObservation
  <2>1. PICK p \in PlanPaths :
          /\ journal.progress[ObserveEffect(p)] \in {"none", "intent"}
          /\ AppendEvent(ObserveEffect(p), "effects_visible",
                         IF Intended(ObserveEffect(p)) THEN engine.obs[p] ELSE "intent")
          /\ UNCHANGED <<engine, world, thrown, crashes>>
    BY <1>c, RecordObservationForm
  <2>2. engine.obs \in [PlanPaths -> Match]
    BY <1>c DEF RecordObservation, Observed, Discipline, SessionOpen
  <2>3. CASE Intended(ObserveEffect(p))
    BY <1>4, <2>1, <2>2, <2>3 DEF Intended
  <2>4. CASE ~Intended(ObserveEffect(p))
    BY <1>4, <2>1, <2>4 DEF Intended
  <2> QED  BY <2>3, <2>4
<1>d. CASE JudgeObservation
  <2>1. "publish_evidence" \in PC \ {"sync_recovered", "seal"}
    BY DEF PC
  <2> QED  BY <1>d, <1>2, <2>1, QuietSteps DEF JudgeObservation
<1> QED  BY <1>a, <1>b, <1>c, <1>d

\* Publication of completed evidence, fresh or resumed.
LEMMA PublicationDiscipline ==
  ASSUME TypeOK, Discipline, PublishCompletedEvidence \/ ResumePublication
  PROVE  Discipline' /\ Advances
<1>1. journal \in Journals /\ engine \in Sessions
  BY TypedParts
<1>2. engine.mode # "off" /\ engine.pc = "publish_evidence"
  BY DEF PublishCompletedEvidence, ResumePublication, At
<1>3. PublishEvidence \in Effects \ OneShot /\ Seal \in Effects
  BY SynchronizedDomains
<1>4. Turn(PublishEvidence)
  BY <1>2 DEF Turn
<1>5. \A e \in Effects : Turn(e) => e = PublishEvidence
  BY <1>2 DEF Turn
<1>6. FactsOf(PublishEvidence[1]) = Match
  BY DEF FactsOf, PublishEvidence, Global
<1>7. "sync_evidence" \in PC \ {"sync_recovered", "seal"}
  BY DEF PC
<1>a. CASE PublishIntent(PublishEvidence, "result_observed")
           \/ RetryIntended(PublishEvidence)
  BY <1>a, <1>2, <1>3, <1>4, IntentStep, RetryStep
<1>b. CASE PublishEvidenceRecord
  <2>1. PICK fact \in {"completed", "failed", "indeterminate"} : Return(fact)
    BY <1>b DEF PublishEvidenceRecord
  <2>2. fact \in Fact /\ \A e \in Effects : Turn(e) => fact \in FactsOf(e[1])
    BY <1>5, <1>6 DEF Fact, OperationFact, Match
  <2>3. UNCHANGED <<journal, target, issued>>
    BY <1>b, <2>1 DEF PublishEvidenceRecord, Return
  <2>4. Announced'
    BY <2>3 DEF Discipline, Announced, Intended
  <2> QED  BY <1>2, <2>1, <2>2, <2>4, ReturnStep
<1>c. CASE RecordEvidence
  <2> DEFINE v == IF engine.call = "completed" THEN engine.projection ELSE 0
  <2>1. /\ engine.call \in Fact /\ ~Republish /\ UNCHANGED world
        /\ journal' = [journal EXCEPT !.state = "result_observed",
                                      !.progress[PublishEvidence] = engine.call,
                                      !.projection = v]
    BY <1>c DEF RecordEvidence
  <2>2. v # 0 => engine.call = "completed"
    OBVIOUS
  <2> HIDE DEF v
  <2>3. engine.call # "idle" /\ engine.call # "issued" /\ engine.call # "none"
    BY <2>1 DEF Fact, OperationFact, DurabilityFact
  <2>4. /\ journal.progress[PublishEvidence] = "intent"
        /\ engine.call \in FactsOf(PublishEvidence[1])
    BY <1>2, <1>5, <2>1, <2>3 DEF Discipline, CallOwned, InFlight
  <2>5. /\ \A e \in Effects : journal'.progress[e] =
             IF e = PublishEvidence THEN engine.call ELSE journal.progress[e]
        /\ journal'.recovery = journal.recovery
        /\ journal'.receipt = journal.receipt /\ journal'.projection = v
    BY <1>1, <1>3, <2>1 DEF Journals
  <2>6. Advances
    BY <1>2, <1>4, <2>1, <2>4, <2>5 DEF Advances
  <2>7. FactsKept'
    <3>1. \A e \in Effects :
            journal'.progress[e] \in {"none", "intent"} \cup FactsOf(e[1])
      BY <2>4, <2>5 DEF Discipline, FactsKept
    <3>2. PublishEvidence # Seal
      BY DEF PublishEvidence, Seal, Global
    <3>3. journal'.receipt = "none" => journal'.progress[Seal] \in {"none", "intent"}
      BY <1>3, <2>5, <3>2 DEF Discipline, FactsKept
    <3>4. journal'.projection # 0 => journal'.progress[PublishEvidence] = "completed"
      BY <1>3, <2>2, <2>5
    <3> QED  BY <3>1, <3>3, <3>4 DEF FactsKept, PublishEvidence, Seal
  <2>8. \A f \in Effects : Intended(f) => Intended(f)'
    BY <2>3, <2>5 DEF Intended
  <2>9. Announced'
    BY <2>1, <2>8, DeclaredEffects
       DEF Announced, Discipline, world, Intended, Effects, On, OneShot
  <2>10. /\ engine'.call = "idle" /\ engine'.mode = engine.mode
         /\ engine'.obs = engine.obs /\ engine'.pc # "sync_recovered"
         /\ engine'.pc = "seal" => engine'.verdict.outcome \in Outcome
    <3>1. CASE Goto("sync_evidence")
      BY <1>1, <3>1 DEF Goto, Sessions
    <3>2. CASE SealWith(EvidenceVerdict(engine.call))
      BY <1>2, <3>2, SealWithQuiet, VerdictOutcomes
    <3> QED  BY <1>c, <3>1, <3>2 DEF RecordEvidence
  <2>11. SessionOpen' /\ CallOwned'
    BY <2>5, <2>10 DEF Discipline, SessionOpen, CallOwned, NoObservation
  <2> QED  BY <2>6, <2>7, <2>9, <2>11 DEF Discipline
<1>d. CASE ResumePublication
  <2>1. CASE Raise("completed_evidence_contradicts_journal")
             /\ UNCHANGED <<journal, world, crashes>>
    BY <1>2, <2>1, QuietSteps
  <2>2. CASE Proceed("sync_evidence")
    BY <1>2, <1>7, <2>2, QuietSteps
  <2>3. CASE /\ Republish /\ engine' = [engine EXCEPT !.call = "issued"]
             /\ UNCHANGED <<journal, world, thrown, crashes>>
    <3>1. /\ engine'.call = "issued" /\ engine'.mode = engine.mode
          /\ engine'.obs = engine.obs /\ engine'.pc = engine.pc
          /\ engine'.projection = engine.projection
      BY <1>1, <2>3 DEF Sessions
    <3>2. Advances
      BY <2>3 DEF Advances
    <3>3. Turn(PublishEvidence)'
      BY <1>2, <3>1 DEF Turn, PublishEvidence, Global
    <3>4. journal.progress[PublishEvidence] \in FactsOf(PublishEvidence[1])
      BY <1>d, <1>3, TerminalValues
         DEF ResumePublication, TerminalKind, Discipline, FactsKept
    <3>5. InFlight(PublishEvidence)'
      BY <1>2, <2>3, <3>1, <3>3, <3>4 DEF InFlight, Republish, PublishEvidence
    <3>6. CallOwned'
      BY <1>2, <1>3, <3>1, <3>5 DEF CallOwned, PublishEvidence
    <3>7. SessionOpen' /\ FactsKept' /\ Announced'
      BY <1>2, <2>3, <3>1 DEF Discipline, SessionOpen, FactsKept, Announced,
           NoObservation, Intended, world, Seal, PublishEvidence
    <3> QED  BY <3>2, <3>6, <3>7 DEF Discipline
  <2>4. CASE /\ SealWith(EvidenceVerdict(engine.call))
             /\ UNCHANGED <<journal, world, thrown, crashes>>
    BY <1>2, <2>4, SealWithQuiet, VerdictOutcomes
  <2> QED  BY <1>d, <2>1, <2>2, <2>3, <2>4 DEF ResumePublication
<1> QED  BY <1>a, <1>b, <1>c, <1>d DEF PublishCompletedEvidence

\* Synchronization of completed evidence, fresh or resumed.
LEMMA EvidenceSyncDiscipline ==
  ASSUME TypeOK, Discipline, SynchronizeCompletedEvidence \/ ResumeSynchronization
  PROVE  Discipline' /\ Advances
<1>1. journal \in Journals /\ engine \in Sessions
  BY TypedParts
<1>2. engine.mode # "off" /\ engine.pc = "sync_evidence"
  BY DEF SynchronizeCompletedEvidence, ResumeSynchronization, At
<1>3. SyncEvidence \in Effects \ OneShot
  BY SynchronizedDomains
<1>4. Turn(SyncEvidence)
  BY <1>2 DEF Turn
<1>5. \A e \in Effects : Turn(e) => e = SyncEvidence
  BY <1>2 DEF Turn
<1>6. FactsOf(SyncEvidence[1]) = DurabilityFact
  BY DEF FactsOf, SyncEvidence, Global
<1>7. ASSUME NEW event, EvidenceSynchronized(event)
      PROVE  /\ engine'.call = "idle" /\ engine'.mode = engine.mode
             /\ engine'.obs = engine.obs /\ engine'.pc = "seal"
             /\ engine'.verdict.outcome \in Outcome
             /\ UNCHANGED <<journal, world>> => Discipline' /\ Advances
  BY <1>2, <1>7, SealWithQuiet, VerdictOutcomes DEF EvidenceSynchronized
<1>a. CASE PublishIntent(SyncEvidence, "result_observed") \/ RetryIntended(SyncEvidence)
  BY <1>a, <1>2, <1>3, <1>4, IntentStep, RetryStep
<1>b. CASE SynchronizeEvidence
  <2>1. PICK fact \in DurabilityFact : Return(fact)
    BY <1>b DEF SynchronizeEvidence
  <2>2. fact \in Fact /\ \A e \in Effects : Turn(e) => fact \in FactsOf(e[1])
    BY <1>5, <1>6 DEF Fact
  <2>3. UNCHANGED <<journal, target, issued>>
    BY <1>b, <2>1 DEF SynchronizeEvidence, Return
  <2>4. Announced'
    BY <2>3 DEF Discipline, Announced, Intended
  <2> QED  BY <1>2, <2>1, <2>2, <2>4, ReturnStep
<1>c. CASE /\ engine.call \in Fact
           /\ journal.progress[SyncEvidence] = "intent"
           /\ AppendEvent(SyncEvidence, "result_observed", engine.call)
           /\ EvidenceSynchronized(TerminalEvent(SyncEvidence, engine.call))
           /\ UNCHANGED <<world, thrown, crashes>>
  <2>1. engine.call # "idle" /\ engine.call # "issued"
    BY <1>c DEF Fact, OperationFact, DurabilityFact
  <2>2. engine.call \in FactsOf(SyncEvidence[1])
    BY <1>2, <1>5, <2>1 DEF Discipline, CallOwned, InFlight
  <2>3. journal'.receipt = journal.receipt
    BY <1>3, <1>c, AppendedEvent
  <2>4. SessionOpen' /\ CallOwned'
    BY <1>7, <1>c, <2>3 DEF Discipline, SessionOpen, CallOwned, NoObservation
  <2>5. SyncEvidence # Seal
    BY DEF SyncEvidence, Seal, Global
  <2> QED  BY <1>2, <1>3, <1>4, <1>c, <2>2, <2>4, <2>5, AppendStep
<1>d. CASE ResumeSynchronization
  <2>1. CASE \E event : EvidenceSynchronized(event)
    BY <1>7, <1>d, <2>1 DEF ResumeSynchronization
  <2>2. CASE Republish /\ engine' = [engine EXCEPT !.call = "issued"]
    <3>0. UNCHANGED <<journal, world>>
      BY <1>d DEF ResumeSynchronization
    <3>1. /\ engine'.call = "issued" /\ engine'.mode = engine.mode
          /\ engine'.obs = engine.obs /\ engine'.pc = engine.pc
          /\ engine'.projection = engine.projection
      BY <1>1, <2>2 DEF Sessions
    <3>2. Advances
      BY <3>0 DEF Advances
    <3>3. Turn(SyncEvidence)'
      BY <1>2, <3>1 DEF Turn, SyncEvidence, Global
    <3>4. journal.progress[SyncEvidence] \in FactsOf(SyncEvidence[1])
      BY <1>d, <1>3, TerminalValues
         DEF ResumeSynchronization, TerminalKind, Discipline, FactsKept
    <3>5. InFlight(SyncEvidence)'
      BY <1>2, <2>2, <3>0, <3>1, <3>3, <3>4 DEF InFlight, Republish, SyncEvidence
    <3>6. CallOwned'
      BY <1>2, <1>3, <3>1, <3>5 DEF CallOwned, SyncEvidence
    <3>7. SessionOpen' /\ FactsKept' /\ Announced'
      BY <1>2, <3>0, <3>1 DEF Discipline, SessionOpen, FactsKept, Announced,
           NoObservation, Intended, world, Seal, PublishEvidence
    <3> QED  BY <3>2, <3>6, <3>7 DEF Discipline
  <2> QED  BY <1>d, <2>1, <2>2 DEF ResumeSynchronization
<1> QED  BY <1>a, <1>b, <1>c, <1>d DEF SynchronizeCompletedEvidence

\* Sealing: the intent, then one terminal step that ends the session.
LEMMA SealDiscipline ==
  ASSUME TypeOK, Discipline, SealTerminalReceipt
  PROVE  Discipline' /\ Advances
<1>1. journal \in Journals /\ engine \in Sessions
  BY TypedParts
<1>2. engine.mode # "off" /\ engine.pc = "seal" /\ engine.call = "idle"
  BY NoCall DEF SealTerminalReceipt, At
<1>3. Seal \in Effects \ OneShot /\ PublishEvidence \in Effects
  BY SynchronizedDomains
<1>4. engine.verdict.outcome \in Outcome /\ journal.receipt = "none"
  BY <1>2 DEF Discipline, SessionOpen
<1>5. FactsOf(Seal[1]) = {"completed"} /\ Seal[1] \in Unwalked
  BY DEF FactsOf, Seal, Global, Unwalked
<1>a. CASE /\ ~Intended(Seal) /\ AppendEvent(Seal, journal.state, "intent")
           /\ UNCHANGED <<engine, world, thrown, crashes>>
  <2>1. journal'.receipt = journal.receipt
    BY <1>3, <1>a, AppendedEvent
  <2>2. SessionOpen' /\ CallOwned'
    BY <1>2, <1>a, <2>1 DEF Discipline, SessionOpen, CallOwned, NoObservation
  <2> QED  BY <1>2, <1>3, <1>5, <1>a, <2>2, AppendStep DEF Intended
<1>b. CASE /\ Intended(Seal)
           /\ journal' = [journal EXCEPT !.state = engine.verdict.state,
                                         !.progress[Seal] = "completed",
                                         !.receipt = engine.verdict.outcome,
                                         !.evidence = engine.verdict.evidence]
           /\ Stop /\ UNCHANGED <<world, thrown, crashes>>
  <2>1. /\ \A e \in Effects : journal'.progress[e] =
             IF e = Seal THEN "completed" ELSE journal.progress[e]
        /\ journal'.recovery = journal.recovery
        /\ journal'.projection = journal.projection
        /\ journal'.receipt = engine.verdict.outcome
    BY <1>1, <1>3, <1>b DEF Journals
  <2>2. journal.progress[Seal] = "intent"
    BY <1>4, <1>b DEF Discipline, FactsKept, Intended
  <2>3. "completed" \in Fact
    BY DEF Fact, OperationFact
  <2>4. Advances
    BY <1>2, <1>5, <2>1, <2>2, <2>3 DEF Advances
  <2>5. journal'.receipt # "none"
    BY <1>4, <2>1 DEF Outcome
  <2>6. PublishEvidence # Seal
    BY DEF PublishEvidence, Seal, Global
  <2>7. FactsKept'
    <3>1. \A e \in Effects :
            journal'.progress[e] \in {"none", "intent"} \cup FactsOf(e[1])
      BY <1>5, <2>1 DEF Discipline, FactsKept
    <3>2. journal'.projection # 0 => journal'.progress[PublishEvidence] = "completed"
      BY <1>3, <2>1, <2>6 DEF Discipline, FactsKept
    <3> QED  BY <2>5, <3>1, <3>2 DEF FactsKept, PublishEvidence, Seal
  <2>8. \A f \in Effects : Intended(f) => Intended(f)'
    BY <2>1 DEF Intended
  <2>9. Announced'
    BY <1>b, <2>8, DeclaredEffects
       DEF Announced, Discipline, world, Intended, Effects, On, OneShot
  <2>10. SessionOpen' /\ CallOwned'
    BY <1>b DEF Stop, Session, SessionOpen, CallOwned
  <2> QED  BY <2>4, <2>7, <2>9, <2>10 DEF Discipline
<1>c. CASE Raise("unfinished_effects") /\ UNCHANGED <<journal, world, crashes>>
  BY <1>2, <1>c, QuietSteps
<1> QED  BY <1>a, <1>b, <1>c DEF SealTerminalReceipt

\* Recovery up to its candidates: nothing to recover, not selected, or begun.
LEMMA RecoveryEntryDiscipline ==
  ASSUME TypeOK, Discipline, RecoverNothing \/ RecoverUnselected \/ BeginRecovery
  PROVE  Discipline' /\ Advances
<1>1. engine.mode # "off"
  BY DEF RecoverNothing, RecoverUnselected, BeginRecovery, At
<1>2. "recover" \in PC \ {"sync_recovered", "seal"}
  BY DEF PC
<1>3. {"indeterminate", "failed_before_target_mutation",
       "effects_visible_durability_unconfirmed", "failed_with_partial_effects"}
        \subseteq Outcome
  BY DEF Outcome
<1>a. CASE RecoverNothing
  BY <1>1, <1>3, <1>a, ReceiptsQuiet, QuietSteps DEF RecoverNothing
<1>b. CASE RecoverUnselected
  <2>1. \E outcome \in Outcome : SealRecoveryReceipt(outcome)
    BY <1>3, <1>b DEF RecoverUnselected
  <2> QED  BY <1>1, <2>1, ReceiptsQuiet
<1>c. CASE BeginRecovery
  BY <1>1, <1>2, <1>c, QuietSteps DEF BeginRecovery
<1> QED  BY <1>a, <1>b, <1>c

\* One candidate at a time, and the recovered namespace.
LEMMA RecoveryDiscipline ==
  ASSUME TypeOK, Discipline, RecoverCandidates \/ SynchronizeRecovered
  PROVE  Discipline' /\ Advances
<1>1. /\ journal \in Journals /\ engine \in Sessions /\ issued \in [OneShot -> Nat]
      /\ target \in [PlanPaths -> {"before", "after", "other"}]
  BY TypedParts
<1>2. "conclude" \in PC \ {"sync_recovered", "seal"} /\ "sync_recovered" \in PC \ {"seal"}
  BY DEF PC
<1>a. CASE RecoverCandidates
  <2>1. engine.mode # "off" /\ engine.pc = "recover"
    BY <1>a DEF RecoverCandidates, At
  <2>2. ASSUME NEW e \in OneShot, Turn(e), ~Done(e), Recover(e)
        PROVE  Discipline' /\ Advances
    <3>1. PICK i \in Candidates : e = RecoverEffect(i)
      BY <2>1, <2>2 DEF Turn, RecoveryTurn
    <3>2. PICK fact \in {"completed", "failed", "indeterminate"},
               now \in {"before", "after", "other"} :
            Return(fact) /\ target' = [target EXCEPT ![e[2]] = now]
      BY <2>2 DEF Recover
    <3>3. fact \in Fact /\ \A f \in Effects : Turn(f) => fact \in FactsOf(f[1])
      BY <2>1 DEF Turn, RecoveryTurn, RecoverEffect, FactsOf, Fact, OperationFact, Match
    <3>4. engine.call = "issued" /\ UNCHANGED journal
      BY <3>2 DEF Return
    <3>5. journal.progress[e] = "intent" /\ issued[e] = 0
      BY <2>1, <2>2, <3>4, EffectCalled
    <3>6. \A f \in OneShot : issued'[f] = IF f = e THEN 1 ELSE issued[f]
      BY <1>1, <2>2, <3>5 DEF Recover, Issue
    <3>7. \A p \in PlanPaths : target'[p] = IF p = ActiveOrder[i] THEN now ELSE target[p]
      BY <1>1, <3>1, <3>2 DEF RecoverEffect
    <3>8. ActiveOrder[i] \in Actives
      BY DEF Actives, Elements, Candidates
    <3>9. Intended(<<"publish_active_object", ActiveOrder[i]>>)
      BY DEF Candidates, Intended
    <3>10. Announced'
      BY <3>4, <3>5, <3>6, <3>7, <3>8, <3>9 DEF Discipline, Announced, Intended
    <3> QED  BY <2>1, <3>2, <3>3, <3>10, ReturnStep
  <2>3. ASSUME NEW e \in OneShot, Turn(e), ~Done(e),
               PublishIntent(e, "recovering") \/ PublishTerminal(e, "recovering")
        PROVE  Discipline' /\ Advances
    BY <2>1, <2>3, DeclaredEffects, IntentStep, TerminalStep
  <2>4. Candidates # {} => Actives # {}
    BY DEF Candidates, Actives, Elements
  <2>5. Proceed("conclude") => Discipline' /\ Advances
    BY <1>2, <2>1, QuietSteps
  <2>6. AllDomains /\ Candidates # {} /\ Proceed("sync_recovered")
          => Discipline' /\ Advances
    BY <1>2, <2>1, <2>4, QuietSteps
  <2> QED  BY <1>a, <2>2, <2>3, <2>5, <2>6, RecoveryForms
<1>b. CASE SynchronizeRecovered
  <2> DEFINE e == RecoveredSynchronization
  <2>1. engine.mode # "off" /\ engine.pc = "sync_recovered"
    BY <1>b DEF SynchronizeRecovered, At
  <2>2. Turn(e)
    BY <2>1 DEF Turn
  <2>3. e \in Effects \ OneShot
    BY <2>1, SynchronizedDomains DEF Discipline, SessionOpen
  <2>4. CASE PublishIntent(e, "recovering") \/ PublishTerminal(e, "recovering")
    BY <2>1, <2>2, <2>3, <2>4, IntentStep, TerminalStep DEF Walks
  <2>5. CASE Proceed("conclude")
    BY <1>2, <2>1, <2>5, QuietSteps
  <2> QED  BY <1>b, <2>1, <2>4, <2>5, SynchronizeStep DEF SynchronizeRecovered
<1> QED  BY <1>a, <1>b

\* The receipt recovery ends with, fresh or resumed.
LEMMA ConclusionDiscipline ==
  ASSUME TypeOK, Discipline, ConcludeRecovery \/ ResumeConcludeRecovery
  PROVE  Discipline' /\ Advances
<1>1. engine.mode # "off"
  BY DEF ConcludeRecovery, ResumeConcludeRecovery, At
<1>2. {"failed_fully_recovered", "indeterminate", "failed_with_partial_effects"}
        \subseteq Outcome
  BY DEF Outcome
<1>3. \E outcome \in Outcome : SealRecoveryReceipt(outcome)
  <2>1. CASE ConcludeRecovery
    BY <1>2, <2>1 DEF ConcludeRecovery
  <2>2. CASE ResumeConcludeRecovery
    BY <1>2, <2>2 DEF ResumeConcludeRecovery
  <2> QED  BY <2>1, <2>2
<1> QED  BY <1>1, <1>3, ReceiptsQuiet

\* A journal is reopened only while it has no receipt.
LEMMA ResumableOpen == Resumable => journal.receipt = "none"
BY DEF Resumable, Disposition

\* A session ends in a crash, or one begins at a retained journal.
LEMMA ProcessDiscipline ==
  ASSUME TypeOK, Discipline, Reopen \/ Crash
  PROVE  Discipline' /\ Advances
<1>1. journal \in Journals /\ engine \in Sessions
  BY TypedParts
<1>2. ASSUME Stop
      PROVE  /\ engine'.call = "idle" /\ engine'.mode = "off"
             /\ engine'.obs = NoObservation /\ engine'.pc = "stopped"
  BY <1>2 DEF Stop, Session
<1>a. CASE Crash
  BY <1>2, <1>a, QuietStep DEF Crash
<1>b. CASE Reopen
  <2>1. journal.receipt = "none"
    BY <1>b, ResumableOpen DEF Reopen
  <2>2. ASSUME NEW pc \in {"rejected", "captures"}, NEW v,
               engine' = Session("resumed", pc, v), UNCHANGED journal
        PROVE  Discipline' /\ Advances
    <3>1. /\ engine'.call = "idle" /\ engine'.obs = NoObservation
          /\ engine'.pc \notin {"sync_recovered", "seal"}
      BY <2>2 DEF Session
    <3>2. UNCHANGED world
      BY <1>b DEF Reopen
    <3> QED  BY <2>1, <2>2, <3>1, <3>2, QuietStep
  <2>3. CASE UNCHANGED journal /\ Stop
    BY <1>2, <1>b, <2>3, QuietStep DEF Reopen
  <2>4. CASE PublishReceipt("failed_before_target_mutation", "abandoned")
    <3>1. /\ journal'.recovery = journal.recovery
          /\ journal'.progress = journal.progress
          /\ journal'.projection = journal.projection
      BY <1>1, <2>4 DEF PublishReceipt, Journals
    <3> QED  BY <1>2, <1>b, <2>1, <2>4, <3>1, QuietStep DEF PublishReceipt, Reopen
  <2> QED  BY <1>b, <2>2, <2>3, <2>4 DEF Reopen, Raise
<1> QED  BY <1>a, <1>b

\* Nothing happens.
LEMMA StutterDiscipline ==
  ASSUME TypeOK, Discipline, UNCHANGED vars
  PROVE  Discipline' /\ Advances
<1>1. Announced' /\ FactsKept' /\ SessionOpen' /\ Advances
  BY DEF vars, Discipline, Announced, FactsKept, SessionOpen, Advances, Intended, Seal,
         PublishEvidence, NoObservation
<1>2. \A e : Turn(e) => Turn(e)'
  BY TurnStays, <1>1 DEF vars, Candidates
<1>3. \A e : InFlight(e) => InFlight(e)'
  BY <1>2 DEF vars, InFlight, Republish
<1>4. CallOwned'
  BY <1>3 DEF vars, Discipline, CallOwned, Intended, PayloadEffect
<1> QED  BY <1>1, <1>4 DEF Discipline

\* Every step, whatever session takes it, keeps the discipline and moves every
\* effect at most one event further.
LEMMA DisciplineStep ==
  TypeOK /\ Discipline /\ [Next]_vars => Discipline' /\ Advances
<1> SUFFICES ASSUME TypeOK, Discipline, [Next]_vars PROVE Discipline' /\ Advances
  OBVIOUS
<1>1. CASE \/ Admit \/ CaptureOldObjects \/ StageIncomingPayloads
           \/ SynchronizeIncoming \/ SynchronizeRecovery \/ BeginMutation
  BY <1>1, PreparationDiscipline
<1>2. CASE \/ PublishRejected
           \/ SynchronizeRejected(RejectedPublished)
           \/ SynchronizeRejected(ResumeAfterRejected)
  BY <1>2, RejectedDiscipline
<1>3. CASE \/ ExecuteActiveEffects \/ SynchronizeActive
           \/ InterruptSynchronization \/ ResumeInterruptSynchronization
  BY <1>3, ActiveDiscipline
<1>4. CASE ObserveIntent \/ Observe \/ RecordObservation \/ JudgeObservation
  BY <1>4, ObservationDiscipline
<1>5. CASE PublishCompletedEvidence \/ ResumePublication
  BY <1>5, PublicationDiscipline
<1>6. CASE SynchronizeCompletedEvidence \/ ResumeSynchronization
  BY <1>6, EvidenceSyncDiscipline
<1>7. CASE SealTerminalReceipt
  BY <1>7, SealDiscipline
<1>8. CASE RecoverNothing \/ RecoverUnselected \/ BeginRecovery
  BY <1>8, RecoveryEntryDiscipline
<1>9. CASE RecoverCandidates \/ SynchronizeRecovered
  BY <1>9, RecoveryDiscipline
<1>10. CASE ConcludeRecovery \/ ResumeConcludeRecovery
  BY <1>10, ConclusionDiscipline
<1>11. CASE Reopen \/ Crash
  BY <1>11, ProcessDiscipline
<1>12. CASE UNCHANGED vars
  BY <1>12, StutterDiscipline
<1> QED
  BY <1>1, <1>2, <1>3, <1>4, <1>5, <1>6, <1>7, <1>8, <1>9, <1>10, <1>11, <1>12
     DEF Next, EngineStep, FreshStep, RestartStep

----------------------------------------------------------------------------
(***************************************************************************)
(* The theorems.                                                           *)
(***************************************************************************)
\* At every moment of every attempt the call in progress belongs to the effect
\* whose turn it is, its intent is in the journal, and a one-shot effect in
\* flight has not reached the backend before.
THEOREM DisciplineHolds == Spec => []Discipline
<1>1. Init => Discipline
  BY DisciplineInit
<1>2. TypeOK /\ Discipline /\ [Next]_vars => Discipline'
  BY DisciplineStep
<1> QED  BY <1>1, <1>2, TypeCorrect, PTL DEF Spec

\* No rejected publication, active effect or recovery reaches the backend a
\* second time, however often the process dies between the intent, the call
\* and the recorded answer.
THEOREM IssuedOnce == Spec => []NeverIssuedTwice
<1>1. Discipline => NeverIssuedTwice
  BY DEF Discipline, Announced, NeverIssuedTwice
<1> QED  BY <1>1, DisciplineHolds, PTL

\* Once there is a receipt nothing is appended and nothing is called.
LEMMA ReceiptLast ==
  ASSUME Discipline, [Next]_vars
  PROVE  journal.receipt = "none" \/ UNCHANGED <<journal, world>>
<1>1. engine.mode # "off" => journal.receipt = "none"
  BY DEF Discipline, SessionOpen
<1>2. CASE Reopen
  BY <1>2, ResumableOpen DEF Reopen
<1>3. CASE Crash
  BY <1>1, <1>3 DEF Crash
<1>4. CASE FreshStep
  BY <1>1, <1>4
     DEF FreshStep, At, Admit, CaptureOldObjects, StageIncomingPayloads,
         SynchronizeIncoming, SynchronizeRecovery, BeginMutation, PublishRejected,
         SynchronizeRejected, ExecuteActiveEffects, SynchronizeActive,
         InterruptSynchronization, ObserveIntent, Observe, RecordObservation,
         JudgeObservation, PublishCompletedEvidence, SynchronizeCompletedEvidence,
         SealTerminalReceipt, RecoverNothing, RecoverUnselected, BeginRecovery,
         RecoverCandidates, SynchronizeRecovered, ConcludeRecovery
<1>5. CASE \/ SynchronizeRejected(ResumeAfterRejected)
           \/ ResumeInterruptSynchronization \/ ResumeConcludeRecovery
           \/ ResumePublication \/ ResumeSynchronization
  BY <1>1, <1>5
     DEF At, SynchronizeRejected, ResumeInterruptSynchronization,
         ResumeConcludeRecovery, ResumePublication, ResumeSynchronization
<1> QED  BY <1>2, <1>3, <1>4, <1>5 DEF Next, EngineStep, RestartStep, vars, world

\* A durable receipt ends the attempt: no session, live or reopened, appends to
\* the journal or touches the target, the rejected store or the evidence after
\* it.
THEOREM ReceiptEndsAttempt == Spec => ReceiptFinal
<1>1. Discipline /\ [Next]_vars => [journal.receipt = "none"]_<<journal, world>>
  BY ReceiptLast
<1> QED  BY <1>1, DisciplineHolds, PTL DEF Spec, ReceiptFinal

=============================================================================
