-------------------------- MODULE ApplicationReceipt --------------------------
(***************************************************************************)
(* What a receipt says: the durability profile an attempt accumulates, the *)
(* consequence of every path, and the constructors of result.cpp and of    *)
(* the phase objects, which refuse values the engine should not have       *)
(* built.  One step is one effect with its terminal event.  Beside the     *)
(* live profile stand the two a restart reads off the journal: the restart *)
(* view and what the resumed phases rebuild.                               *)
(***************************************************************************)
EXTENDS Naturals, Sequences, FiniteSets

CONSTANT PathCount   \* the plan's paths are 1 .. PathCount, in schedule order

ASSUME CountAssumption == PathCount \in Nat \ {0}

Paths == 1 .. PathCount
NoPath == 0

Domain == {"journal", "incoming_staging", "recovery_staging",
           "active_namespace", "rejected_object_store", "completed_evidence"}
Status == {"not_attempted", "visible", "confirmed", "unconfirmed",
           "indeterminate"}
Synchronized == Status \ {"not_attempted"}
Operated == {"completed", "failed", "indeterminate"}

(***************************************************************************)
(* The admitted attempt: its execution control, whether it stages regular  *)
(* payloads, and per path the planned outcomes and the state found before. *)
(***************************************************************************)
Mutating == {"activate_incoming", "remove_observed", "remove_directory_if_empty"}
Decision ==
  {d \in [active : Mutating \cup {"retain_observed", "remain_absent"},
          rejected : {"none", "stage_old", "stage_incoming"},
          before : {"known", "not_applicable"}] :
     /\ d.active \notin {"activate_incoming", "remain_absent"} => d.before = "known"
     /\ d.active = "remain_absent" => d.before = "not_applicable"
     /\ d.rejected = "stage_old" => d.before = "known"
     /\ d.rejected = "stage_incoming" =>
          d.active \notin {"remove_observed", "remove_directory_if_empty"}}

Attempts ==
  {a \in [durability : {"visibility_only", "journal_and_recovery",
                        "all_application_domains"},
          recovery : {"none", "best_effort", "exact_prior_state"},
          payload : BOOLEAN,
          plan : [Paths -> Decision]] :
     LET staged == {p \in Paths : a.plan[p].rejected = "stage_incoming"}
         activated == {p \in Paths : a.plan[p].active = "activate_incoming"}
     IN  /\ staged # {} => a.payload
         /\ a.payload => staged \cup activated # {}}

VARIABLES
  attempt,  \* the admitted attempt
  pc,       \* the phase of the engine
  profile,  \* the durability the live engine has accumulated
  facts,    \* terminal events with their replay facts, in journal order
  cause,    \* what interrupted active execution, or "none"
  receipt,  \* the receipts issued: none or one
  refused   \* the value a constructor threw out, or "none"

vars == <<attempt, pc, profile, facts, cause, receipt, refused>>

Plan(p) == attempt.plan[p]
AllDomains == attempt.durability = "all_application_domains"
RecoverySelected == attempt.recovery # "none"
ForRecovery(p) == RecoverySelected /\ Plan(p).active \in Mutating

Captures == {p \in Paths : /\ Plan(p).before = "known"
                           /\ (Plan(p).rejected = "stage_old" \/ ForRecovery(p))}
Payloads == IF attempt.payload THEN {NoPath} ELSE {}
Rejecteds == {p \in Paths : Plan(p).rejected # "none"}
Actives == {p \in Paths : Plan(p).active \in Mutating}

----------------------------------------------------------------------------
(***************************************************************************)
(* What the journal holds.                                                 *)
(***************************************************************************)
FactsOf(kind, p) ==
  {facts[i].fact : i \in {j \in DOMAIN facts :
                            facts[j].kind = kind /\ facts[j].path = p}}
Recorded(kind, p) == FactsOf(kind, p) # {}
\* Slip: whatever did not complete is done again, a retained directory included.
NotCompleted(kind, paths) == {p \in paths : "completed" \notin FactsOf(kind, p)}
Left(kind, paths) == {p \in paths : ~Recorded(kind, p)}
Lowest(paths) == CHOOSE p \in paths : \A q \in paths : p <= q
Highest(paths) == CHOOSE p \in paths : \A q \in paths : q <= p

\* active_effect_application_result::changed_target and
\* active_result_changed_target: every mutating outcome that completed.
Changed(p) == "completed" \in FactsOf("publish_active_object", p)
SomeChanged == \E p \in Actives : Changed(p)

\* exact_recovery_possible.
ExactRecoveryPossible(p) ==
  \/ Plan(p).before = "not_applicable"
  \/ \E i \in DOMAIN facts :
       /\ facts[i].kind = "capture_old_object" /\ facts[i].path = p
       /\ facts[i].fact = "completed" /\ facts[i].exact

\* recovery_candidates.
Candidates ==
  {p \in Actives : Changed(p)
                   \/ "indeterminate" \in FactsOf("publish_active_object", p)}
Recovered(p) == "completed" \in FactsOf("recover_active_object", p)
AllRecovered == \A p \in Candidates : Recovered(p)

----------------------------------------------------------------------------
(***************************************************************************)
(* The durability profile as build_view reads it off the journal, and      *)
(* as the resumed phases rebuild it.                                       *)
(***************************************************************************)
NothingAttempted ==
  [d \in Domain |-> IF d = "journal" THEN "confirmed" ELSE "not_attempted"]

DomainOf(kind) ==
  CASE kind \in {"stage_incoming_payload", "synchronize_incoming_staging"} ->
         "incoming_staging"
    [] kind \in {"capture_old_object", "synchronize_recovery_staging"} ->
         "recovery_staging"
    [] kind \in {"publish_rejected_object", "synchronize_rejected_store"} ->
         "rejected_object_store"
    [] kind \in {"publish_active_object", "recover_active_object",
                 "synchronize_active_namespace",
                 "synchronize_recovered_namespace"} -> "active_namespace"
    [] OTHER -> "completed_evidence"

Preparing == {"stage_incoming_payload", "capture_old_object"}
Synchronizing ==
  {"synchronize_incoming_staging", "synchronize_recovery_staging",
   "synchronize_active_namespace", "synchronize_recovered_namespace",
   "synchronize_rejected_store", "synchronize_completed_evidence"}

\* Slip: a retained directory makes the active namespace visible.
VisibleOrRetained(f) == f.fact \in {"completed", "conditional_retained"}
\* An operation that completed is visible; one that retained its directory is not.
MakesVisible(f) == f.fact = "completed"

\* An unsuccessful evidence publication has no replay fact, and an operation
\* that failed leaves its domain alone outside preparation.
LeavesUnknown(f) ==
  \/ f.kind \in Preparing
  \/ f.fact = "indeterminate" /\ f.kind # "publish_completed_evidence"

\* The terminal steps of build_view: which of them set the status of a domain,
\* and to what.  Each overwrites what earlier ones set, so the last one counts.
Moves(f, d) ==
  /\ DomainOf(f.kind) = d
  /\ f.kind \in Synchronizing \/ MakesVisible(f) \/ LeavesUnknown(f)
Says(f) ==
  CASE f.kind \in Synchronizing -> f.fact
    [] f.kind \notin Synchronizing /\ MakesVisible(f) -> "visible"
    [] OTHER -> "indeterminate"

Moving(d) == {i \in DOMAIN facts : Moves(facts[i], d)}
View ==
  [d \in Domain |-> IF Moving(d) = {} THEN NothingAttempted[d]
                    ELSE Says(facts[Highest(Moving(d))])]

\* resume_preparation of a prepared journal, resume_rejected_publication and
\* resume_active_execution, each over the effects the journal retains.
Rebuilt ==
  [d \in Domain |->
     CASE d = "journal" -> "confirmed"
       [] d = "incoming_staging" /\ attempt.payload -> "confirmed"
       [] d = "recovery_staging" /\ Captures # {} -> "confirmed"
       [] d = "rejected_object_store"
          /\ \E p \in Rejecteds : Recorded("publish_rejected_object", p) ->
            IF Recorded("synchronize_rejected_store", NoPath)
            THEN View[d] ELSE "visible"
       [] d = "active_namespace" /\ SomeChanged ->
            IF Recorded("synchronize_active_namespace", NoPath)
            THEN View[d] ELSE "visible"
       [] OTHER -> "not_attempted"]

\* restart_interruption takes the view's status unless the cause implies one.
RebuiltInterrupted ==
  [Rebuilt EXCEPT !["active_namespace"] =
     CASE cause = "durability_unconfirmed" -> "unconfirmed"
       [] cause \in {"effect_indeterminate", "durability_indeterminate",
                     "result_observation_indeterminate"} -> "indeterminate"
       [] OTHER -> View["active_namespace"]]

----------------------------------------------------------------------------
(***************************************************************************)
(* Path consequences.                                                      *)
(***************************************************************************)
EffectStatus(kind, p) ==
  IF Recorded(kind, p) THEN CHOOSE f \in FactsOf(kind, p) : TRUE
  ELSE "not_attempted"
RejectedStatus(p) == EffectStatus("publish_rejected_object", p)
ActiveStatus(p) == EffectStatus("publish_active_object", p)

Consequence(active, rejected, after, publication) ==
  [active |-> active, rejected |-> rejected, after |-> after,
   publication |-> publication]

\* rejected_path_consequences: only paths with an attempted rejected effect.
RejectedConsequences ==
  [p \in {q \in Rejecteds : Recorded("publish_rejected_object", q)} |->
     Consequence("not_attempted", RejectedStatus(p), Plan(p).before, "ineligible")]

Restored(p) == Recovered(p) /\ ExactRecoveryPossible(p)

\* recovery_path_consequences: attempted paths; what is not known to be as
\* before is unknown.
RecoveryConsequences ==
  [p \in {q \in Paths : \/ Recorded("publish_rejected_object", q)
                        \/ Recorded("publish_active_object", q)} |->
     Consequence(ActiveStatus(p), RejectedStatus(p),
       IF p \in Candidates /\ ~Restored(p) THEN "unknown" ELSE Plan(p).before,
       "ineligible")]

\* What a matched observation found on a path.
MatchedState(p) ==
  CASE Plan(p).active \in {"activate_incoming", "retain_observed"} -> "known"
    [] ActiveStatus(p) = "conditional_retained" -> "known"
    [] OTHER -> "not_applicable"

\* completed_path_consequence for every planned path.
CompletedConsequences(publication) ==
  [p \in Paths |->
     Consequence(IF p \in Actives THEN ActiveStatus(p) ELSE "completed",
                 RejectedStatus(p), MatchedState(p), publication)]

----------------------------------------------------------------------------
(***************************************************************************)
(* The constructors.                                                       *)
(***************************************************************************)
\* validate_completed_durability.
Established(status) == status \in {"visible", "confirmed", "not_attempted"}
CompletedDurability(d) ==
  /\ d["journal"] = "confirmed" /\ d["completed_evidence"] = "confirmed"
  /\ CASE attempt.durability = "visibility_only" ->
            \A n \in Domain : Established(d[n])
       [] attempt.durability = "journal_and_recovery" ->
            /\ d["recovery_staging"] \in {"not_attempted", "confirmed"}
            /\ Established(d["active_namespace"])
            /\ Established(d["rejected_object_store"])
       [] OTHER -> \A n \in Domain : d[n] \in {"not_attempted", "confirmed"}

\* completed_path.
CompletedPath(p, c) ==
  /\ c.after # "unknown" /\ c.publication = "eligible"
  /\ c.rejected = IF Plan(p).rejected = "none" THEN "not_attempted" ELSE "completed"
  /\ CASE Plan(p).active \in {"activate_incoming", "retain_observed"} ->
            c.active = "completed" /\ c.after = "known"
       [] Plan(p).active \in {"remove_observed", "remain_absent"} ->
            c.active = "completed" /\ c.after = "not_applicable"
       [] OTHER -> <<c.active, c.after>> \in
                     {<<"completed", "not_applicable">>,
                      <<"conditional_retained", "known">>}

\* application_path_consequence: what was not planned cannot be reported.
ConsequenceAccepted(p, c) ==
  /\ Plan(p).rejected = "none" => c.rejected = "not_attempted"
  /\ c.active = "conditional_retained" =>
       Plan(p).active = "remove_directory_if_empty"
  /\ c.publication = "eligible" =>
       c.active \in {"completed", "conditional_retained"} /\ c.after # "unknown"

\* completed_application_evidence::make.
EvidenceAccepted(paths, d) ==
  /\ CompletedDurability(d)
  /\ \A p \in DOMAIN paths :
       ConsequenceAccepted(p, paths[p]) /\ CompletedPath(p, paths[p])

\* validate_failed_outcome and validate_failed_paths.
FailedAccepted(r) ==
  /\ \A p \in DOMAIN r.paths : /\ ConsequenceAccepted(p, r.paths[p])
                               /\ r.paths[p].publication = "ineligible"
  /\ CASE r.outcome = "precondition_refused" ->
            /\ r.recovery = "unchanged" /\ ~r.journal
            /\ \A p \in DOMAIN r.paths :
                 /\ r.paths[p].active = "not_attempted"
                 /\ r.paths[p].rejected = "not_attempted"
       [] r.outcome = "failed_before_target_mutation" ->
            /\ r.recovery = "unchanged"
            /\ \A p \in DOMAIN r.paths :
                 r.paths[p].active \in {"not_attempted", "failed"}
       [] r.outcome = "failed_fully_recovered" ->
            r.recovery = "exact_prior_state_restored" /\ r.journal
       [] r.outcome = "failed_with_partial_effects" ->
            r.recovery = "known_residual_effects" /\ r.journal
       [] r.outcome = "indeterminate" ->
            r.recovery = "requires_authoritative_observation" /\ r.journal
       [] r.outcome = "effects_visible_durability_unconfirmed" ->
            /\ r.journal
            /\ \E d \in Domain : r.durability[d] \in {"visible", "unconfirmed"}
       [] OTHER -> FALSE

\* The durability boundaries of prepared_application,
\* rejected_published_application and active_mutated_application.
PreparedBoundary(d) ==
  d = [NothingAttempted EXCEPT
         !["incoming_staging"] =
            IF attempt.payload THEN "confirmed" ELSE "not_attempted",
         !["recovery_staging"] =
            IF Captures # {} THEN "confirmed" ELSE "not_attempted"]

RejectedBoundary(d) ==
  /\ PreparedBoundary([d EXCEPT !["rejected_object_store"] = "not_attempted"])
  /\ d["rejected_object_store"] \in
       IF Rejecteds = {} THEN {"not_attempted"} ELSE {"visible", "confirmed"}

MutatedBoundary(d) ==
  /\ RejectedBoundary([d EXCEPT !["active_namespace"] = "not_attempted"])
  /\ d["active_namespace"] \in
       IF SomeChanged THEN {"visible", "confirmed"} ELSE {"not_attempted"}

\* active_interrupted_application.
InterruptedBoundary(why, d) ==
  /\ RejectedBoundary([d EXCEPT !["active_namespace"] = "not_attempted"])
  /\ d["active_namespace"] \in
       CASE why = "effect_failed" -> {"not_attempted", "visible"}
         [] why \in {"effect_indeterminate", "durability_indeterminate"} ->
              {"indeterminate"}
         [] why = "durability_unconfirmed" -> {"unconfirmed"}
         [] OTHER -> {"not_attempted", "visible", "confirmed"}

=============================================================================
