----------------------------- MODULE PathResult -----------------------------
(***************************************************************************)
(* One path of a plan from admission to completed evidence: the fresh      *)
(* observation is compared with the planned precondition, the active       *)
(* effect runs, the result is observed and judged, and a matched result    *)
(* becomes a completed consequence.                                        *)
(*                                                                         *)
(* Facts are qualified: a value, unknown, or not applicable.  "mode"       *)
(* stands for mode, uid and gid, "content" for size and content digest,    *)
(* "target" for a symlink target (a device number is alike).               *)
(***************************************************************************)
EXTENDS Naturals, FiniteSets

CONSTANT Values   \* values a fact can have

ASSUME ValuesAssumption ==
  /\ "expected" \in Values
  /\ Values \cap {"unknown", "not_applicable", "unplanned"} = {}
  /\ Values # {"expected"}

Kinds == {"regular", "directory", "symlink"}
Fields == {"mode", "mtime", "content", "anchor", "target"}

OwnFields(kind) == CASE kind = "regular"   -> {"content", "anchor"}
                     [] kind = "symlink"   -> {"target"}
                     [] kind = "directory" -> {}

\* Size, content and link facts apply exactly to the kinds that have them;
\* the common facts may be anything on every kind.
validate_kind_fields(kind, f) ==
  IF f \in OwnFields(kind) THEN Values \cup {"unknown"} ELSE {"not_applicable"}

Common == Values \cup {"unknown", "not_applicable"}
FactsOf(kind) == {facts \in [Fields -> Common] :
                    \A f \in {"content", "anchor", "target"} :
                      facts[f] \in validate_kind_fields(kind, f)}

NoFacts == [f \in Fields |-> "not_applicable"]
Objects ==
  UNION {[state : {"known"}, kind : {k}, facts : FactsOf(k)] : k \in Kinds}
Absent == [state |-> "not_applicable", kind |-> "none", facts |-> NoFacts]
Unknown == [state |-> "unknown", kind |-> "none", facts |-> NoFacts]
Observations == Objects \cup {Absent, Unknown}

----------------------------------------------------------------------------
(***************************************************************************)
(* Plans.  The planned object names the fields the plan relied on; an      *)
(* incoming entry fixes all its fields.                                    *)
(***************************************************************************)
PlannedFields(kind) ==
  {fs \in SUBSET Fields :
     /\ "mode" \in fs /\ "anchor" \notin fs
     /\ "content" \in fs => kind = "regular"
     /\ ("target" \in fs) = (kind = "symlink")}

Planned ==
  {[kind |-> "absent", fields |-> {}]}
  \cup UNION {{[kind |-> k, fields |-> fs] : fs \in PlannedFields(k)} : k \in Kinds}

EntryTypes == {"regular", "directory", "symlink", "hardlink"}

Plans ==
  {p \in [active  : {"activate_incoming", "retain_observed", "remove_observed",
                     "remove_directory_if_empty", "remain_absent"},
          planned : Planned,
          entry   : EntryTypes \cup {"none"}] :
     /\ (p.active = "activate_incoming") = (p.entry # "none")
     /\ p.active \in {"retain_observed", "remove_observed"} =>
          p.planned.kind # "absent"
     /\ p.active = "remove_directory_if_empty" => p.planned.kind = "directory"
     /\ p.active = "remain_absent" => p.planned.kind = "absent"}

----------------------------------------------------------------------------
VARIABLES stage,      \* where the path's life has got to
          plan,       \* the path's decision and precondition
          before,     \* the observation admitted
          failures,   \* precondition failures: <<field, kind>>
          effect,     \* outcome of the active effect
          after,      \* the observation of the result
          verdict     \* result_observation_match

vars == <<stage, plan, before, failures, effect, after, verdict>>

Init ==
  /\ stage = "planned"
  /\ plan \in Plans
  /\ before = Unknown /\ after = Unknown
  /\ failures = {}
  /\ effect = "none" /\ verdict = "none"

(***************************************************************************)
(* Admission.                                                              *)
(***************************************************************************)
AcceptsUnknown(f, observed) ==
  IF observed \in Values \ {"expected"} THEN {<<f, "mismatch">>} ELSE {}

compare_required(f, observed) ==
  CASE observed \notin Values  -> {<<f, "unknown">>}
    [] observed = "expected"   -> {}
    [] OTHER                   -> {<<f, "mismatch">>}

compare_object(o) ==
  IF o.kind # plan.planned.kind THEN {<<"object_kind", "mismatch">>}
  ELSE UNION {compare_required(f, o.facts[f]) : f \in plan.planned.fields}

compare_path(o) ==
  IF o.state = "unknown" THEN {<<"presence", "unknown">>}
  ELSE IF (o.state = "known") # (plan.planned.kind # "absent")
  THEN {<<"presence", "mismatch">>}
  ELSE IF o.state = "not_applicable" THEN {}
  ELSE compare_object(o)

Admit(o) ==
  /\ stage = "planned"
  /\ before' = o
  /\ failures' = compare_path(o)
  /\ stage' = IF failures' = {} THEN "admitted" ELSE "refused"
  /\ UNCHANGED <<plan, effect, after, verdict>>

(***************************************************************************)
(* The active effect.  Only a conditional directory removal may report     *)
(* that it retained its object; another retention is an error.             *)
(***************************************************************************)
Mechanism == plan.active \in {"activate_incoming", "remove_observed",
                              "remove_directory_if_empty"}

RetainsAnything(outcome) == TRUE

ValidResult(outcome) ==
  outcome = "conditional_retained" => plan.active = "remove_directory_if_empty"

Execute(outcome) ==
  /\ stage = "admitted"
  /\ IF Mechanism
     THEN /\ effect' = outcome
          /\ stage' = IF ~ValidResult(outcome) THEN "error"
                      ELSE IF outcome \in {"completed", "conditional_retained"}
                      THEN "executed" ELSE "interrupted"
     ELSE stage' = "executed" /\ UNCHANGED effect
  /\ UNCHANGED <<plan, before, failures, after, verdict>>

----------------------------------------------------------------------------
(***************************************************************************)
(* Judging the result.                                                     *)
(***************************************************************************)
match_expected_fact(observed, expected) ==
  IF observed = "unknown" THEN "indeterminate"
  ELSE IF observed = expected THEN "matched" ELSE "mismatch"

match_retained_fact(b, a) ==
  CASE b = "not_applicable" ->
         IF a = "not_applicable" THEN "matched" ELSE "mismatch"
    [] b = "unknown" ->
         IF a = "not_applicable" THEN "mismatch" ELSE "matched"
    [] OTHER -> match_expected_fact(a, b)

IndeterminateFirst(matches) ==
  IF "indeterminate" \in matches THEN "indeterminate"
  ELSE IF "mismatch" \in matches THEN "mismatch" ELSE "matched"

merge_match(matches) ==
  IF "mismatch" \in matches THEN "mismatch"
  ELSE IF "indeterminate" \in matches THEN "indeterminate" ELSE "matched"

completed_kind(type) == IF type = "hardlink" THEN "regular" ELSE type

\* A hard link is judged by its anchor; its content is its anchor's.
EntryFields(type) ==
  {"mode", "mtime"} \cup CASE type = "regular"   -> {"content"}
                           [] type = "hardlink"  -> {"anchor"}
                           [] type = "symlink"   -> {"target"}
                           [] type = "directory" -> {}

match_incoming_entry(a) ==
  IF a.state = "unknown" THEN "indeterminate"
  ELSE IF a.kind # completed_kind(plan.entry) THEN "mismatch"
  ELSE merge_match({match_expected_fact(a.facts[f], "expected") :
                      f \in EntryFields(plan.entry)})

match_retained_observation(b, a) ==
  IF a.state = "unknown" \/ b.state = "unknown" THEN "indeterminate"
  ELSE IF a.state # b.state \/ a.kind # b.kind THEN "mismatch"
  ELSE merge_match({match_retained_fact(b.facts[f], a.facts[f]) : f \in Fields})

MatchAbsent(a) == IF a.state = "not_applicable" THEN "matched" ELSE "mismatch"

ForgetsOutcome(a) ==
  IF a.state = "unknown" THEN "indeterminate"
  ELSE IF plan.active = "activate_incoming" THEN match_incoming_entry(a)
  ELSE IF \/ plan.active = "retain_observed"
          \/ plan.active = "remove_directory_if_empty" /\ a.state = "known"
  THEN match_retained_observation(before, a)
  ELSE MatchAbsent(a)

match_result_observation(a) ==
  IF a.state = "unknown" THEN "indeterminate"
  ELSE IF plan.active = "activate_incoming" THEN match_incoming_entry(a)
  ELSE IF \/ plan.active = "retain_observed"
          \/ /\ plan.active = "remove_directory_if_empty"
             /\ effect = "conditional_retained"
  THEN match_retained_observation(before, a)
  ELSE MatchAbsent(a)

\* The target may have become anything in the meantime.
Observe(a) ==
  /\ stage = "executed"
  /\ after' = a
  /\ verdict' = match_result_observation(a)
  /\ stage' = IF verdict' = "matched" THEN "judged" ELSE "unmatched"
  /\ UNCHANGED <<plan, before, failures, effect>>

----------------------------------------------------------------------------
(***************************************************************************)
(* Completed evidence.                                                     *)
(***************************************************************************)
active_status == IF effect = "none" THEN "completed" ELSE effect

\* The constructor of application_path_consequence, for an eligible path.
ConsequenceAccepted ==
  /\ active_status = "conditional_retained" =>
       plan.active = "remove_directory_if_empty"
  /\ active_status \in {"completed", "conditional_retained"}
  /\ after.state # "unknown"

completed_path ==
  /\ before.state # "unknown" /\ after.state # "unknown"
  /\ CASE plan.active \in {"activate_incoming", "retain_observed"} ->
            active_status = "completed" /\ after.state = "known"
       [] plan.active \in {"remove_observed", "remain_absent"} ->
            active_status = "completed" /\ after.state = "not_applicable"
       [] plan.active = "remove_directory_if_empty" ->
            \/ active_status = "completed" /\ after.state = "not_applicable"
            \/ active_status = "conditional_retained" /\ after.state = "known"

Complete ==
  /\ stage = "judged"
  /\ stage' = IF ConsequenceAccepted /\ completed_path
              THEN "completed" ELSE "rejected_evidence"
  /\ UNCHANGED <<plan, before, failures, effect, after, verdict>>

Outcomes == {"completed", "conditional_retained", "failed", "indeterminate"}

Next ==
  \/ \E o \in Observations : Admit(o)
  \/ \E outcome \in Outcomes : Execute(outcome)
  \/ \E a \in Observations : Observe(a)
  \/ Complete

Spec == Init /\ [][Next]_vars

----------------------------------------------------------------------------
\* Every variable keeps its type; an effect that goes on to be observed and
\* says it retained its object was a conditional directory removal.
TypeOK ==
  /\ stage \in {"planned", "admitted", "refused", "executed", "interrupted",
                "error", "judged", "unmatched", "completed",
                "rejected_evidence"}
  /\ before \in Observations /\ after \in Observations
  /\ failures \subseteq (Fields \cup {"presence", "object_kind"})
                        \X {"unknown", "mismatch"}
  /\ effect \in Outcomes \cup {"none"}
  /\ verdict \in {"none", "matched", "mismatch", "indeterminate"}
  /\ stage \in {"executed", "judged", "unmatched", "completed"}
     /\ effect = "conditional_retained" =>
       plan.active = "remove_directory_if_empty"

\* What an observation leaves open: the objects it may be an observation of.
FactWorlds(fact) == IF fact = "unknown" THEN Values ELSE {fact}
Admits(o, world) ==
  \/ o = Unknown
  \/ o.kind = world.kind
     /\ \A f \in Fields : world.facts[f] \in FactWorlds(o.facts[f])
Worlds == {o \in Observations :
             o # Unknown /\ \A f \in Fields : o.facts[f] # "unknown"}

\* What the plan relied on.
RespectsPlan(world) ==
  IF plan.planned.kind = "absent" THEN world = Absent
  ELSE /\ world.kind = plan.planned.kind
       /\ \A f \in plan.planned.fields : world.facts[f] = "expected"

\* What the plan's outcome is, given what was admitted.
IsResult(world) ==
  IF plan.active = "activate_incoming"
  THEN /\ world.kind = completed_kind(plan.entry)
       /\ \A f \in EntryFields(plan.entry) : world.facts[f] = "expected"
  ELSE IF plan.active = "retain_observed" \/ effect = "conditional_retained"
  THEN Admits(before, world)
  ELSE world = Absent

\* A retained object that reaches completed evidence is, as observed at the
\* end, one the plan relied on: no gap opens between what admission checked
\* and what the retained match compares.  And a path is refused only for cause:
\* some object it may hold is not what the plan relied on.
RetainedSatisfiesPlan ==
  /\ stage = "completed"
     /\ (plan.active = "retain_observed" \/ effect = "conditional_retained") =>
       \A w \in Worlds : Admits(after, w) => RespectsPlan(w)
  /\ stage = "refused" =>
       \E w \in Worlds : Admits(before, w) /\ ~RespectsPlan(w)

\* Evidence of a matched result is never turned away by the constructors that
\* seal it: judging and sealing agree on every outcome.
MatchedSealable == stage # "rejected_evidence"

\* The verdict is exact: matched when every object the observation may stand
\* for is the plan's result, mismatch when none is, and otherwise undecided.
MatchExact ==
  stage \in {"judged", "unmatched"} =>
    LET possible == {w \in Worlds : Admits(after, w)}
        results == {w \in possible : IsResult(w)}
    IN  /\ verdict = "matched" <=> results = possible
        /\ verdict = "mismatch" <=> results = {}
=============================================================================
