-------------------------- MODULE PathResultProofs --------------------------
(***************************************************************************)
(* Proofs about PathResult, for every set of values a fact can have.       *)
(***************************************************************************)
EXTENDS PathResult, TLAPS

(***************************************************************************)
(* Worlds.                                                                 *)
(***************************************************************************)

\* The values of facts are not the markers for missing ones.
LEMMA Markers == /\ "expected" \in Values
                 /\ "unknown" \notin Values /\ "not_applicable" \notin Values
                 /\ \E v \in Values : v # "expected"
BY ValuesAssumption

\* The object of kind k with facts g.
Object(k, g) == [state |-> "known", kind |-> k, facts |-> g]

\* The known observations, by kind and facts.
LEMMA ObjectsForm ==
  /\ \A o \in Objects : /\ o.state = "known" /\ o.kind \in Kinds
                        /\ o.facts \in FactsOf(o.kind)
                        /\ o = Object(o.kind, o.facts)
  /\ \A k \in Kinds : \A g \in FactsOf(k) : Object(k, g) \in Objects
<1>1. ASSUME NEW o \in Objects
      PROVE  /\ o.state = "known" /\ o.kind \in Kinds
             /\ o.facts \in FactsOf(o.kind)
             /\ o = Object(o.kind, o.facts)
  <2>1. PICK k \in Kinds :
          o \in [state : {"known"}, kind : {k}, facts : FactsOf(k)]
    BY DEF Objects
  <2> QED BY <2>1 DEF Object
<1>2. ASSUME NEW k \in Kinds, NEW g \in FactsOf(k)
      PROVE  Object(k, g) \in Objects
  <2>1. Object(k, g) \in [state : {"known"}, kind : {k}, facts : FactsOf(k)]
    BY DEF Object
  <2> QED BY <2>1 DEF Objects
<1> QED BY <1>1, <1>2

\* An observation is an object, an absence or unknown.
LEMMA ObservationForms ==
  \A o \in Observations :
    \/ o \in Objects /\ o.state = "known" /\ o.kind \in Kinds
    \/ o = Absent /\ o.state = "not_applicable" /\ o.kind = "none"
    \/ o = Unknown /\ o.state = "unknown" /\ o.kind = "none"
BY ObjectsForm DEF Observations, Absent, Unknown

\* Every field of an observation has a value, or a marker in its place.
LEMMA FactsTyped ==
  \A o \in Observations : o.facts \in [Fields -> Common]
<1>1. NoFacts \in [Fields -> Common]
  BY DEF NoFacts, Common
<1>2. \A k \in Kinds : FactsOf(k) \subseteq [Fields -> Common]
  BY DEF FactsOf
<1> QED BY <1>1, <1>2, ObjectsForm, ObservationForms DEF Absent, Unknown

\* Filling in what an observed object leaves unknown gives an object that the
\* observation may be of.
LEMMA FactsFilled ==
  ASSUME NEW o \in Objects, NEW g,
         g \in [Fields -> Common],
         \A f \in Fields : g[f] \in FactWorlds(o.facts[f])
  PROVE  /\ Object(o.kind, g) \in Worlds
         /\ Admits(o, Object(o.kind, g))
<1>1. o.kind \in Kinds /\ o.facts \in FactsOf(o.kind)
  BY ObjectsForm
<1>2. ASSUME NEW f \in {"content", "anchor", "target"}
      PROVE  g[f] \in validate_kind_fields(o.kind, f)
  <2>1. o.facts[f] \in validate_kind_fields(o.kind, f)
    BY <1>1 DEF FactsOf
  <2>2. g[f] \in FactWorlds(o.facts[f])
    BY DEF Fields
  <2> QED BY <2>1, <2>2, Markers DEF validate_kind_fields, FactWorlds
<1>3. g \in FactsOf(o.kind)
  BY <1>2 DEF FactsOf
<1>4. Object(o.kind, g) \in Objects
  BY <1>1, <1>3, ObjectsForm
<1>5. \A f \in Fields : g[f] # "unknown"
  BY Markers DEF FactWorlds
<1>6. Object(o.kind, g) # Unknown /\ Object(o.kind, g) \in Observations
  BY <1>4 DEF Object, Unknown, Observations
<1> QED BY <1>5, <1>6 DEF Worlds, Admits, Object

\* A fact leaves open at least one value.
LEMMA FactWorldsInhabited ==
  \A fact \in Common : /\ FactWorlds(fact) # {} /\ FactWorlds(fact) \subseteq Common
                       /\ "unknown" \notin FactWorlds(fact)
BY Markers DEF FactWorlds, Common

\* Some world is an object and one is not.
LEMMA TwoWorlds ==
  /\ Absent \in Worlds
  /\ \A k \in Kinds : \E g \in [Fields -> Common] :
       /\ Object(k, g) \in Worlds
       /\ \A f \in {"mode", "mtime"} \cup OwnFields(k) : g[f] = "expected"
<1>1. Absent \in Worlds
  BY DEF Worlds, Observations, Absent, Unknown, NoFacts
<1>2. ASSUME NEW k \in Kinds
      PROVE  \E g \in [Fields -> Common] :
               /\ Object(k, g) \in Worlds
               /\ \A f \in {"mode", "mtime"} \cup OwnFields(k) : g[f] = "expected"
  <2> DEFINE g == [f \in Fields |-> IF f \in {"mode", "mtime"} \cup OwnFields(k)
                                    THEN "expected" ELSE "not_applicable"]
  <2>1. OwnFields(k) \subseteq {"content", "anchor", "target"}
    BY DEF OwnFields, Kinds
  <2>2. g \in [Fields -> Common]
    BY Markers DEF Common
  <2>3. \A f \in {"content", "anchor", "target"} :
          g[f] \in validate_kind_fields(k, f)
    BY Markers DEF validate_kind_fields, Fields
  <2>4. g \in FactsOf(k)
    BY <2>2, <2>3 DEF FactsOf
  <2>5. \A f \in Fields : g[f] # "unknown"
    OBVIOUS
  <2>6. Object(k, g) \in Objects
    BY <2>4, ObjectsForm
  <2>7. Object(k, g) \in Worlds
    BY <2>5, <2>6 DEF Worlds, Observations, Object, Unknown
  <2>8. \A f \in {"mode", "mtime"} \cup OwnFields(k) : g[f] = "expected"
    BY <2>1 DEF Fields
  <2> QED BY <2>2, <2>7, <2>8
<1> QED BY <1>1, <1>2

(***************************************************************************)
(* Facts.                                                                  *)
(***************************************************************************)

\* The verdict on one fact is exact for what the fact leaves open.
Exact(match, possible, wanted) ==
  /\ match \in {"matched", "mismatch", "indeterminate"}
  /\ match = "matched" <=> possible \subseteq wanted
  /\ match = "mismatch" <=> possible \cap wanted = {}

\* A fact is compared exactly with an expected value.
LEMMA ExpectedFactExact ==
  ASSUME NEW a \in Common, NEW b \in Common, b # "unknown",
         b = "not_applicable" => a # "unknown"
  PROVE  Exact(match_expected_fact(a, b), FactWorlds(a), {b})
BY Markers DEF Exact, match_expected_fact, FactWorlds, Common

\* Two observations of a fact are compared exactly with each other.
LEMMA RetainedFactExact ==
  ASSUME NEW a \in Common, NEW b \in Common
  PROVE  Exact(match_retained_fact(b, a), FactWorlds(a), FactWorlds(b))
<1>1. CASE b = "not_applicable"
  BY <1>1, Markers DEF Exact, match_retained_fact, FactWorlds, Common
<1>2. CASE b = "unknown"
  BY <1>2, Markers DEF Exact, match_retained_fact, FactWorlds, Common
<1>3. CASE b \notin {"unknown", "not_applicable"}
  <2>1. Exact(match_expected_fact(a, b), FactWorlds(a), {b})
    BY <1>3, ExpectedFactExact
  <2>2. FactWorlds(b) = {b}
    BY <1>3 DEF FactWorlds
  <2>3. match_retained_fact(b, a) = match_expected_fact(a, b)
    BY <1>3 DEF match_retained_fact
  <2> QED BY <2>1, <2>2, <2>3
<1> QED BY <1>1, <1>2, <1>3

\* What an observation may be an observation of, the worlds of one kind whose
\* fields are as wanted, and the verdicts on several fields taken together.
Possible(a) == {w \in Worlds : Admits(a, w)}
Having(kind, fs, wanted) ==
  {w \in Worlds : w.kind = kind /\ \A f \in fs : w.facts[f] \in wanted[f]}
MergedOver(fs, match) == merge_match({match[f] : f \in fs})

\* Merged over the compared fields, it is exact for the whole object: the
\* fields of an object vary independently.
LEMMA MergeExact ==
  ASSUME NEW a \in Objects, NEW fs \in SUBSET Fields,
         NEW wanted, NEW match,
         \A f \in fs : Exact(match[f], FactWorlds(a.facts[f]), wanted[f])
  PROVE  Exact(MergedOver(fs, match), Possible(a), Having(a.kind, fs, wanted))
<1> DEFINE Wanted == Having(a.kind, fs, wanted)
           Merged == MergedOver(fs, match)
<1>1. /\ a \in Observations /\ a.kind \in Kinds
      /\ a.facts \in [Fields -> Common] /\ a # Unknown
  BY ObjectsForm, FactsTyped DEF Observations, Unknown
<1>2. \A w \in Possible(a) : w.kind = a.kind
                          /\ \A f \in Fields : w.facts[f] \in FactWorlds(a.facts[f])
  BY <1>1 DEF Admits, Possible
<1>3. \A f \in fs : match[f] \in {"matched", "mismatch", "indeterminate"}
  BY DEF Exact
<1>4. /\ Merged \in {"matched", "mismatch", "indeterminate"}
      /\ Merged = "mismatch" <=> \E f \in fs : match[f] = "mismatch"
      /\ Merged = "matched" <=> \A f \in fs : match[f] = "matched"
  BY <1>3 DEF merge_match, MergedOver
\* A world with one field chosen, and the others anything they may be.
<1>5. ASSUME NEW h, \A f \in Fields : h[f] \in FactWorlds(a.facts[f])
      PROVE  \E w \in Possible(a) : w.kind = a.kind
                                 /\ \A f \in Fields : w.facts[f] = h[f]
  <2> DEFINE g == [f \in Fields |-> h[f]]
  <2>1. \A f \in Fields : h[f] \in Common
    BY <1>1, <1>5, FactWorldsInhabited
  <2>2. g \in [Fields -> Common]
    BY <2>1
  <2>3. \A f \in Fields : g[f] \in FactWorlds(a.facts[f])
    BY <1>5
  <2>4. Object(a.kind, g) \in Worlds /\ Admits(a, Object(a.kind, g))
    BY <2>2, <2>3, FactsFilled
  <2> QED BY <2>4 DEF Object, Possible
<1> HIDE DEF Merged
<1>6. ASSUME Merged = "matched"
      PROVE  Possible(a) \subseteq Wanted
  BY <1>2, <1>4, <1>6 DEF Exact, Having, Possible
<1>7. ASSUME Possible(a) \subseteq Wanted
      PROVE  Merged = "matched"
  <2> SUFFICES ASSUME NEW f \in fs, match[f] # "matched" PROVE FALSE
    BY <1>4
  <2>1. PICK v \in FactWorlds(a.facts[f]) : v \notin wanted[f]
    BY DEF Exact
  <2> DEFINE h == [e \in Fields |-> IF e = f THEN v
                                    ELSE CHOOSE u \in FactWorlds(a.facts[e]) : TRUE]
  <2>2. \A e \in Fields : h[e] \in FactWorlds(a.facts[e])
    BY <1>1, FactWorldsInhabited
  <2>3. h[f] = v
    OBVIOUS
  <2> HIDE DEF h
  <2>4. PICK w \in Possible(a) : \A e \in Fields : w.facts[e] = h[e]
    BY <1>5, <2>2
  <2>5. w.facts[f] \in wanted[f]
    BY <1>7, <2>4 DEF Having
  <2> QED BY <2>1, <2>3, <2>4, <2>5
<1>8. ASSUME Merged = "mismatch"
      PROVE  Possible(a) \cap Wanted = {}
  BY <1>2, <1>4, <1>8 DEF Exact, Having
<1>9. ASSUME Merged # "mismatch"
      PROVE  Possible(a) \cap Wanted # {}
  <2> DEFINE h == [e \in Fields |->
                     IF e \in fs
                     THEN CHOOSE u \in FactWorlds(a.facts[e]) : u \in wanted[e]
                     ELSE CHOOSE u \in FactWorlds(a.facts[e]) : TRUE]
  <2>1. \A e \in fs : \E u \in FactWorlds(a.facts[e]) : u \in wanted[e]
    BY <1>4, <1>9 DEF Exact
  <2>2. \A e \in fs : h[e] \in FactWorlds(a.facts[e]) /\ h[e] \in wanted[e]
    BY <2>1
  <2>3. \A e \in Fields : h[e] \in FactWorlds(a.facts[e])
    BY <1>1, <2>2, FactWorldsInhabited
  <2> HIDE DEF h
  <2>4. PICK w \in Possible(a) : w.kind = a.kind /\ \A e \in Fields : w.facts[e] = h[e]
    BY <1>5, <2>3
  <2> QED BY <2>2, <2>4 DEF Having, Possible
<1> QED BY <1>4, <1>6, <1>7, <1>8, <1>9 DEF Merged, Exact

(***************************************************************************)
(* Observations.                                                           *)
(***************************************************************************)

\* What the plan wants.
Results == {w \in Worlds : IsResult(w)}

\* Any observation is of something.
LEMMA PossibleInhabited ==
  ASSUME NEW a \in Observations
  PROVE  /\ Possible(a) # {}
         /\ a # Unknown => \A w \in Possible(a) : w.kind = a.kind
<1>1. CASE a = Unknown
  BY <1>1, TwoWorlds DEF Possible, Admits
<1>2. CASE a = Absent
  <2>1. Absent \in Worlds /\ Admits(Absent, Absent)
    BY TwoWorlds DEF Admits, FactWorlds, Absent, NoFacts
  <2> QED BY <1>2, <2>1 DEF Possible, Admits
<1>3. CASE a \in Objects
  <2> DEFINE g == [f \in Fields |-> CHOOSE u \in FactWorlds(a.facts[f]) : TRUE]
  <2>1. \A f \in Fields : g[f] \in FactWorlds(a.facts[f]) /\ g[f] \in Common
    BY FactsTyped, FactWorldsInhabited
  <2>2. g \in [Fields -> Common]
    BY <2>1
  <2> HIDE DEF g
  <2>3. Object(a.kind, g) \in Possible(a)
    BY <1>3, <2>1, <2>2, FactsFilled DEF Possible
  <2> QED BY <2>3 DEF Possible, Admits
<1> QED BY <1>1, <1>2, <1>3 DEF Observations

\* Observations of different kinds have no world in common.
LEMMA KindsExclude ==
  ASSUME NEW a \in Observations, a # Unknown, NEW wanted,
         \A w \in wanted : w.kind # a.kind
  PROVE  Exact("mismatch", Possible(a), wanted)
BY PossibleInhabited DEF Exact

\* An observation of nothing at all decides nothing.
LEMMA NothingDecided ==
  ASSUME NEW wanted, wanted # {}, wanted \subseteq Worlds, NEW w \in Worlds,
         w \notin wanted
  PROVE  Exact("indeterminate", Possible(Unknown), wanted)
BY DEF Exact, Possible, Admits

\* What planned outcomes have in common.
LEMMA PlanForms ==
  ASSUME NEW p \in Plans
  PROVE  /\ p.planned.kind \in Kinds \cup {"absent"}
         /\ p.planned.fields \subseteq Fields
         /\ p.active = "activate_incoming" <=> p.entry # "none"
         /\ p.entry \in EntryTypes \cup {"none"}
         /\ p.active \in {"retain_observed", "remove_observed"} =>
              p.planned.kind \in Kinds
         /\ p.active = "remove_directory_if_empty" => p.planned.kind = "directory"
         /\ p.active = "remain_absent" => p.planned.kind = "absent"
         /\ p.active \in {"activate_incoming", "retain_observed", "remove_observed",
                          "remove_directory_if_empty", "remain_absent"}
<1>1. p.planned \in Planned
  BY DEF Plans
<1>2. p.planned.kind \in Kinds \cup {"absent"} /\ p.planned.fields \subseteq Fields
  BY <1>1 DEF Planned, PlannedFields
<1> QED BY <1>2 DEF Plans

\* The fields of an image entry are fields of the object it becomes.
LEMMA EntryForms ==
  ASSUME NEW type \in EntryTypes
  PROVE  /\ completed_kind(type) \in Kinds
         /\ EntryFields(type) \subseteq Fields
         /\ EntryFields(type) \subseteq
              {"mode", "mtime"} \cup OwnFields(completed_kind(type))
BY DEF EntryTypes, completed_kind, EntryFields, Kinds, Fields, OwnFields

\* The verdict on an activated entry is exact.
LEMMA IncomingExact ==
  ASSUME NEW a \in Observations, a # Unknown, plan \in Plans,
         plan.active = "activate_incoming"
  PROVE  Exact(match_incoming_entry(a), Possible(a), Results)
<1> DEFINE type == plan.entry
           kind == completed_kind(type)
<1>1. type \in EntryTypes
  BY PlanForms DEF EntryTypes
<1>2. kind \in Kinds /\ EntryFields(type) \subseteq Fields
  BY <1>1, EntryForms
<1>3. a.state # "unknown"
  BY ObservationForms DEF Absent
<1>4. Results = {w \in Worlds : w.kind = kind
                   /\ \A f \in EntryFields(type) : w.facts[f] = "expected"}
  BY DEF Results, IsResult
<1>5. CASE a.kind # kind
  <2>1. match_incoming_entry(a) = "mismatch"
    BY <1>3, <1>5 DEF match_incoming_entry
  <2>2. \A w \in Results : w.kind # a.kind
    BY <1>4, <1>5
  <2> QED BY <2>1, <2>2, KindsExclude
<1>6. CASE a.kind = kind
  <2> DEFINE match == [f \in Fields |-> match_expected_fact(a.facts[f], "expected")]
             wanted == [f \in Fields |-> {"expected"}]
             fs == EntryFields(type)
  <2>1. a \in Objects
    BY <1>2, <1>6, ObservationForms DEF Kinds
  <2>2. \A f \in fs : Exact(match[f], FactWorlds(a.facts[f]), wanted[f])
    <3>1. \A f \in Fields : a.facts[f] \in Common
      BY FactsTyped
    <3> SUFFICES ASSUME NEW f \in Fields
                 PROVE  Exact(match_expected_fact(a.facts[f], "expected"),
                              FactWorlds(a.facts[f]), {"expected"})
      BY <1>2
    <3> QED BY <3>1, ExpectedFactExact, Markers, ValuesAssumption DEF Common
  <2>3. Exact(MergedOver(fs, match), Possible(a), Having(a.kind, fs, wanted))
    <3> HIDE DEF match, wanted, fs
    <3>1. fs \in SUBSET Fields
      BY <1>2 DEF fs
    <3> QED BY <2>1, <2>2, <3>1, MergeExact
  <2>4. match_incoming_entry(a) = MergedOver(fs, match)
    <3>1. {match[f] : f \in fs}
            = {match_expected_fact(a.facts[f], "expected") : f \in fs}
      BY <1>2
    <3> QED BY <1>3, <1>6, <3>1 DEF match_incoming_entry, MergedOver
  <2>5. Having(a.kind, fs, wanted) = Results
    BY <1>2, <1>4, <1>6 DEF Having
  <2> QED BY <2>3, <2>4, <2>5
<1> QED BY <1>5, <1>6

\* The verdict on a retained object is exact.
LEMMA RetainedExact ==
  ASSUME NEW a \in Observations, a # Unknown, NEW b \in Objects
  PROVE  Exact(match_retained_observation(b, a), Possible(a), Possible(b))
<1>1. /\ a.state # "unknown" /\ b.state = "known" /\ b.kind \in Kinds
      /\ b # Unknown /\ b \in Observations
  BY ObservationForms, ObjectsForm DEF Absent, Unknown, Observations
<1>2. CASE a.kind # b.kind
  <2>1. match_retained_observation(b, a) = "mismatch"
    BY <1>1, <1>2 DEF match_retained_observation
  <2>2. \A w \in Possible(b) : w.kind # a.kind
    BY <1>1, <1>2, PossibleInhabited
  <2> QED BY <2>1, <2>2, KindsExclude
<1>3. CASE a.kind = b.kind
  <2> DEFINE match == [f \in Fields |-> match_retained_fact(b.facts[f], a.facts[f])]
             wanted == [f \in Fields |-> FactWorlds(b.facts[f])]
  <2>1. a \in Objects /\ a.state = "known"
    BY <1>1, <1>3, ObservationForms DEF Kinds
  <2>2. \A f \in Fields : Exact(match[f], FactWorlds(a.facts[f]), wanted[f])
    <3>1. \A f \in Fields : a.facts[f] \in Common /\ b.facts[f] \in Common
      BY <1>1, FactsTyped
    <3> QED BY <3>1, RetainedFactExact
  <2>3. Exact(MergedOver(Fields, match), Possible(a),
              Having(a.kind, Fields, wanted))
    <3> HIDE DEF match, wanted
    <3> QED BY <2>1, <2>2, MergeExact
  <2>4. match_retained_observation(b, a) = MergedOver(Fields, match)
    <3>1. {match[f] : f \in Fields}
            = {match_retained_fact(b.facts[f], a.facts[f]) : f \in Fields}
      OBVIOUS
    <3> QED BY <1>1, <1>3, <2>1, <3>1 DEF match_retained_observation, MergedOver
  <2>5. Having(a.kind, Fields, wanted) = Possible(b)
    BY <1>1, <1>3 DEF Possible, Admits, Having
  <2> QED BY <2>3, <2>4, <2>5
<1> QED BY <1>2, <1>3

\* The verdict on an object that should be gone is exact.
LEMMA AbsentExact ==
  ASSUME NEW a \in Observations, a # Unknown
  PROVE  Exact(MatchAbsent(a), Possible(a), {Absent})
<1>1. CASE a = Absent
  <2>1. \A w \in Possible(a) : w = Absent
    BY <1>1, PossibleInhabited, ObservationForms DEF Possible, Worlds, Kinds, Absent
  <2> QED BY <1>1, <2>1, PossibleInhabited DEF Exact, MatchAbsent, Absent
<1>2. CASE a \in Objects
  <2>1. a.state = "known" /\ a.kind # Absent.kind
    BY <1>2, ObjectsForm DEF Kinds, Absent
  <2>2. MatchAbsent(a) = "mismatch"
    BY <2>1 DEF MatchAbsent
  <2> QED BY <2>1, <2>2, KindsExclude
<1> QED BY <1>1, <1>2 DEF Observations

(***************************************************************************)
(* What each stage knows of the ones before it.                            *)
(***************************************************************************)
Judged == {"judged", "unmatched", "completed", "rejected_evidence"}

\* The admitted observation passed its precondition; a refused one did not.
AdmissionKept ==
  /\ plan \in Plans
  /\ stage = "refused" => compare_path(before) # {}
  /\ stage \notin {"planned", "refused"} => compare_path(before) = {}

\* Only an effect that did its work, or a directory removal that found the
\* directory in use, goes on to be observed.
EffectKept ==
  /\ stage \in {"planned", "admitted"} => effect = "none"
  /\ stage \in {"executed"} \cup Judged =>
       /\ effect \in IF Mechanism THEN {"completed", "conditional_retained"}
                     ELSE {"none"}
       /\ effect = "conditional_retained" =>
            plan.active = "remove_directory_if_empty"

\* The verdict is the one on the observation at hand, and evidence is sealed
\* for matched results only.
VerdictKept ==
  /\ stage \in Judged => verdict = match_result_observation(after)
  /\ stage \in Judged => (verdict = "matched") = (stage # "unmatched")

PathInvariant ==
  TypeOK /\ AdmissionKept /\ EffectKept /\ VerdictKept /\ MatchedSealable

\* The failures of an admission name fields and kinds.
LEMMA FailuresTyped ==
  ASSUME NEW o \in Observations, plan \in Plans
  PROVE  compare_path(o) \subseteq (Fields \cup {"presence", "object_kind"})
                                   \X {"unknown", "mismatch"}
<1> DEFINE T == (Fields \cup {"presence", "object_kind"}) \X {"unknown", "mismatch"}
<1>1. \A f \in Fields : compare_required(f, o.facts[f]) \subseteq T
  BY DEF compare_required
<1>2. plan.planned.fields \subseteq Fields
  BY PlanForms
<1>3. compare_object(o) \subseteq T
  BY <1>1, <1>2 DEF compare_object
<1> QED BY <1>3 DEF compare_path

\* Facts that pass the precondition are known, and as planned.
LEMMA PreconditionPassed ==
  ASSUME NEW o \in Observations, plan \in Plans, compare_path(o) = {}
  PROVE  /\ o # Unknown
         /\ plan.planned.kind = "absent" => o = Absent
         /\ plan.planned.kind # "absent" =>
              /\ o \in Objects /\ o.kind = plan.planned.kind
              /\ \A f \in plan.planned.fields : o.facts[f] = "expected"
<1>1. o # Unknown
  <2>1. o = Unknown => o.state = "unknown"
    BY DEF Unknown
  <2>2. o.state # "unknown"
    BY DEF compare_path
  <2> QED BY <2>1, <2>2
<1>2. CASE o = Absent
  BY <1>1, <1>2 DEF compare_path, Absent
<1>3. CASE o \in Objects
  <2>1. o.state = "known"
    BY <1>3, ObjectsForm
  <2>2. plan.planned.kind # "absent"
    BY <2>1 DEF compare_path
  <2>3. compare_object(o) = {}
    BY <2>1, <2>2 DEF compare_path
  <2>4. o.kind = plan.planned.kind
    BY <2>3 DEF compare_object
  <2>5. \A f \in plan.planned.fields : compare_required(f, o.facts[f]) = {}
    BY <2>3, <2>4 DEF compare_object
  <2>6. \A f \in plan.planned.fields : o.facts[f] = "expected"
    BY <2>5 DEF compare_required
  <2> QED BY <1>1, <1>3, <2>2, <2>4, <2>6
<1> QED BY <1>1, <1>2, <1>3 DEF Observations

\* Facts that fail it may be other than planned.
LEMMA PreconditionFailed ==
  ASSUME NEW o \in Observations, plan \in Plans, compare_path(o) # {}
  PROVE  \E w \in Worlds : Admits(o, w) /\ ~RespectsPlan(w)
<1>1. plan.planned.kind \in Kinds \cup {"absent"} /\ plan.planned.fields \subseteq Fields
  BY PlanForms
<1>2. CASE o = Unknown
  <2>1. PICK g : Object("regular", g) \in Worlds
    BY TwoWorlds DEF Kinds
  <2>2. Object("regular", g) # Absent
    BY DEF Object, Absent
  <2>3. Absent.kind = "none" /\ Absent \in Worlds
    BY TwoWorlds DEF Absent
  <2>4. plan.planned.kind = "absent" => ~RespectsPlan(Object("regular", g))
    BY <2>2 DEF RespectsPlan
  <2>5. plan.planned.kind # "absent" => ~RespectsPlan(Absent)
    BY <1>1, <2>3 DEF RespectsPlan, Kinds
  <2> QED BY <1>2, <2>1, <2>3, <2>4, <2>5 DEF Admits
<1>3. CASE o = Absent
  <2>1. plan.planned.kind # "absent"
    BY <1>3 DEF compare_path, Absent
  <2>2. PICK w \in Possible(o) : TRUE
    BY PossibleInhabited
  <2>3. w.kind = "none"
    BY <1>3, <2>2, PossibleInhabited DEF Absent, Unknown
  <2> QED BY <1>1, <2>1, <2>2, <2>3 DEF RespectsPlan, Possible, Kinds
<1>4. CASE o \in Objects
  <2>1. o.state = "known" /\ o.kind \in Kinds /\ o # Unknown
    BY <1>4, ObjectsForm DEF Unknown
  <2>2. PICK w0 \in Possible(o) : TRUE
    BY PossibleInhabited
  <2>3. w0.kind = o.kind
    BY <2>1, <2>2, PossibleInhabited
  <2>4. CASE plan.planned.kind = "absent"
    BY <2>1, <2>2, <2>3, <2>4 DEF RespectsPlan, Possible, Absent, Kinds
  <2>5. CASE plan.planned.kind # "absent" /\ o.kind # plan.planned.kind
    BY <2>2, <2>3, <2>5 DEF RespectsPlan, Possible
  <2>6. CASE plan.planned.kind # "absent" /\ o.kind = plan.planned.kind
    <3>1. PICK f \in plan.planned.fields : compare_required(f, o.facts[f]) # {}
      BY <2>1, <2>6 DEF compare_path, compare_object
    <3>2. f \in Fields /\ o.facts \in [Fields -> Common]
      BY <1>1, FactsTyped
    <3>3. o.facts[f] # "expected"
      BY <3>1, Markers DEF compare_required
    <3>4. PICK v \in FactWorlds(o.facts[f]) : v # "expected"
      BY <3>3, Markers DEF FactWorlds
    <3> DEFINE g == [e \in Fields |-> IF e = f THEN v
                       ELSE CHOOSE u \in FactWorlds(o.facts[e]) : TRUE]
    <3>5. \A e \in Fields : g[e] \in FactWorlds(o.facts[e]) /\ g[e] \in Common
      BY <3>2, FactWorldsInhabited
    <3>6. g \in [Fields -> Common] /\ g[f] # "expected"
      BY <3>2, <3>4, <3>5
    <3> HIDE DEF g
    <3>7. Object(o.kind, g) \in Worlds /\ Admits(o, Object(o.kind, g))
      BY <1>4, <3>5, <3>6, FactsFilled
    <3>8. Object(o.kind, g).facts[f] # "expected"
      BY <3>6 DEF Object
    <3>9. ~RespectsPlan(Object(o.kind, g))
      BY <2>6, <3>8 DEF RespectsPlan
    <3> QED BY <3>7, <3>9
  <2> QED BY <2>4, <2>5, <2>6
<1> QED BY <1>2, <1>3, <1>4 DEF Observations

(***************************************************************************)
(* Judging.                                                                *)
(***************************************************************************)

\* Where a retained object is judged, one was admitted, as planned.
LEMMA RetainedKnown ==
  ASSUME PathInvariant, stage \in Judged,
         plan.active = "retain_observed" \/ effect = "conditional_retained"
  PROVE  /\ before \in Objects /\ before.kind = plan.planned.kind
         /\ \A f \in plan.planned.fields : before.facts[f] = "expected"
         /\ plan.planned.kind # "absent" /\ plan.active # "activate_incoming"
<1>1. /\ plan \in Plans /\ before \in Observations /\ compare_path(before) = {}
  BY DEF PathInvariant, TypeOK, AdmissionKept, Judged
<1>2. effect = "conditional_retained" => plan.active = "remove_directory_if_empty"
  BY DEF PathInvariant, EffectKept
<1>3. plan.active \in {"retain_observed", "remove_directory_if_empty"}
  BY <1>2
<1>4. plan.planned.kind # "absent"
  BY <1>1, <1>3, PlanForms DEF Kinds
<1> QED BY <1>1, <1>3, <1>4, PreconditionPassed

\* The verdict on a path is exact, whatever its planned outcome.
LEMMA ResultExact ==
  ASSUME PathInvariant, stage \in Judged
  PROVE  Exact(match_result_observation(after), Possible(after), Results)
<1>1. /\ plan \in Plans /\ after \in Observations /\ before \in Observations
      /\ effect = "conditional_retained" => plan.active = "remove_directory_if_empty"
  BY DEF PathInvariant, TypeOK, AdmissionKept, EffectKept
<1> DEFINE Retained == plan.active = "retain_observed"
                       \/ effect = "conditional_retained"
<1>2. CASE plan.active = "activate_incoming"
  <2>1. CASE after = Unknown
    <3> DEFINE kind == completed_kind(plan.entry)
    <3>1. plan.entry \in EntryTypes
      BY <1>1, <1>2, PlanForms DEF EntryTypes
    <3>2. kind \in Kinds /\ EntryFields(plan.entry) \subseteq
                              {"mode", "mtime"} \cup OwnFields(kind)
      BY <3>1, EntryForms
    <3>3. PICK g : /\ Object(kind, g) \in Worlds
                   /\ \A f \in {"mode", "mtime"} \cup OwnFields(kind) :
                        g[f] = "expected"
      BY <3>2, TwoWorlds
    <3>4. Object(kind, g) \in Results
      BY <1>2, <3>2, <3>3 DEF Results, IsResult, Object
    <3>5. Absent \in Worlds /\ Absent \notin Results
      BY <1>2, <3>2, TwoWorlds DEF Results, IsResult, Absent, Kinds
    <3>6. match_result_observation(after) = "indeterminate"
      BY <2>1 DEF match_result_observation, Unknown
    <3> QED BY <2>1, <3>4, <3>5, <3>6, NothingDecided DEF Results
  <2>2. CASE after # Unknown
    <3>1. match_result_observation(after) = match_incoming_entry(after)
      BY <1>1, <1>2, <2>2, ObservationForms DEF match_result_observation
    <3> QED BY <1>1, <1>2, <2>2, <3>1, IncomingExact
  <2> QED BY <2>1, <2>2
<1>3. CASE Retained
  <2>1. before \in Objects /\ plan.active # "activate_incoming"
    BY <1>3, RetainedKnown
  <2>2. Results = Possible(before)
    BY <1>3, <2>1 DEF Results, IsResult, Possible
  <2>3. CASE after = Unknown
    <3>1. Possible(before) # {} /\ Possible(before) \subseteq Worlds
      BY <1>1, PossibleInhabited DEF Possible
    <3>2. Absent \in Worlds
      BY TwoWorlds
    <3>3. Absent \notin Possible(before)
      <4>1. before.kind \in Kinds /\ before # Unknown
        BY <2>1, ObjectsForm DEF Unknown
      <4> QED BY <1>1, <4>1, PossibleInhabited DEF Absent, Kinds
    <3>4. match_result_observation(after) = "indeterminate"
      BY <2>3 DEF match_result_observation, Unknown
    <3> QED BY <2>2, <2>3, <3>1, <3>2, <3>3, <3>4, NothingDecided
  <2>4. CASE after # Unknown
    <3>1. match_result_observation(after) = match_retained_observation(before, after)
      BY <1>1, <1>3, <2>1, <2>4, ObservationForms DEF match_result_observation
    <3> QED BY <1>1, <2>1, <2>2, <2>4, <3>1, RetainedExact
  <2> QED BY <2>3, <2>4
<1>4. CASE plan.active # "activate_incoming" /\ ~Retained
  <2>1. Results = {Absent}
    BY <1>4, TwoWorlds DEF Results, IsResult
  <2>2. CASE after = Unknown
    <3>1. PICK w \in Worlds : w # Absent
      <4>1. PICK g : Object("regular", g) \in Worlds
        BY TwoWorlds DEF Kinds
      <4> QED BY <4>1 DEF Object, Absent
    <3>2. match_result_observation(after) = "indeterminate"
      BY <2>2 DEF match_result_observation, Unknown
    <3>3. Absent \in Worlds
      BY TwoWorlds
    <3> QED BY <2>1, <2>2, <3>1, <3>2, <3>3, NothingDecided
  <2>3. CASE after # Unknown
    <3>1. match_result_observation(after) = MatchAbsent(after)
      BY <1>1, <1>4, <2>3, ObservationForms DEF match_result_observation
    <3> QED BY <1>1, <2>1, <2>3, <3>1, AbsentExact
  <2> QED BY <2>2, <2>3
<1> QED BY <1>2, <1>3, <1>4

\* What is judged a match has the shape that both constructors ask for.
LEMMA MatchSeals ==
  ASSUME PathInvariant, stage = "judged"
  PROVE  ConsequenceAccepted /\ completed_path
<1>1. /\ plan \in Plans /\ before \in Observations /\ after \in Observations
      /\ compare_path(before) = {}
      /\ match_result_observation(after) = "matched"
  BY DEF PathInvariant, TypeOK, AdmissionKept, VerdictKept, Judged
<1>2. /\ effect \in IF Mechanism THEN {"completed", "conditional_retained"}
                    ELSE {"none"}
      /\ effect = "conditional_retained" => plan.active = "remove_directory_if_empty"
  BY DEF PathInvariant, EffectKept, Judged
<1>3. before.state # "unknown"
  BY <1>1, PreconditionPassed, ObservationForms DEF Absent
<1>4. after.state # "unknown"
  BY <1>1 DEF match_result_observation
<1>5. active_status \in {"completed", "conditional_retained"}
      /\ (active_status = "conditional_retained" <=> effect = "conditional_retained")
  BY <1>2 DEF active_status
<1>6. CASE plan.active = "activate_incoming"
  <2>1. match_incoming_entry(after) = "matched"
    BY <1>1, <1>4, <1>6 DEF match_result_observation
  <2>2. plan.entry \in EntryTypes
    BY <1>1, <1>6, PlanForms DEF EntryTypes
  <2>3. after.kind \in Kinds
    BY <1>4, <2>1, <2>2, EntryForms DEF match_incoming_entry
  <2>4. after.state = "known"
    BY <1>1, <2>3, ObservationForms DEF Kinds
  <2> QED BY <1>2, <1>3, <1>4, <1>5, <1>6, <2>4 DEF ConsequenceAccepted, completed_path
<1>7. CASE plan.active = "retain_observed" \/ effect = "conditional_retained"
  <2>1. before \in Objects /\ plan.active # "activate_incoming"
    BY <1>7, RetainedKnown DEF Judged
  <2>2. match_retained_observation(before, after) = "matched"
    BY <1>1, <1>2, <1>4, <1>7, <2>1 DEF match_result_observation
  <2>3. after.state = "known"
    BY <1>3, <1>4, <2>1, <2>2, ObjectsForm DEF match_retained_observation
  <2> QED BY <1>2, <1>3, <1>4, <1>5, <1>7, <2>3
          DEF ConsequenceAccepted, completed_path
<1>8. CASE /\ plan.active \notin {"activate_incoming", "retain_observed"}
           /\ effect # "conditional_retained"
  <2>1. MatchAbsent(after) = "matched"
    BY <1>1, <1>4, <1>8 DEF match_result_observation
  <2>2. after.state = "not_applicable"
    BY <2>1 DEF MatchAbsent
  <2> QED BY <1>1, <1>3, <1>4, <1>5, <1>8, <2>2, PlanForms
          DEF ConsequenceAccepted, completed_path
<1> QED BY <1>6, <1>7, <1>8

(***************************************************************************)
(* The path invariant holds of every path.                                 *)
(***************************************************************************)
THEOREM PathsJudged == Spec => []PathInvariant
<1>1. Init => PathInvariant
  BY DEF Init, PathInvariant, TypeOK, AdmissionKept, EffectKept, VerdictKept,
         MatchedSealable, Judged, Observations
<1>2. PathInvariant /\ [Next]_vars => PathInvariant'
  <2> SUFFICES ASSUME PathInvariant, [Next]_vars
               PROVE  PathInvariant'
    OBVIOUS
  <2>0. TypeOK /\ AdmissionKept /\ EffectKept /\ VerdictKept /\ MatchedSealable
    BY DEF PathInvariant
  <2>1. ASSUME NEW o \in Observations, Admit(o)
        PROVE  PathInvariant'
    <3>1. /\ stage = "planned" /\ effect = "none" /\ plan \in Plans
          /\ before' = o /\ failures' = compare_path(o)
          /\ stage' = IF failures' = {} THEN "admitted" ELSE "refused"
          /\ UNCHANGED <<plan, effect, after, verdict>>
      BY <2>0, <2>1 DEF Admit, EffectKept, AdmissionKept
    <3>2. compare_path(before)' = compare_path(o)
      BY <3>1 DEF compare_path, compare_object
    <3>3. TypeOK'
      BY <2>0, <3>1, FailuresTyped DEF TypeOK
    <3>4. AdmissionKept'
      BY <3>1, <3>2 DEF AdmissionKept
    <3>5. (EffectKept /\ VerdictKept /\ MatchedSealable)'
      BY <3>1 DEF EffectKept, VerdictKept, MatchedSealable, Judged
    <3> QED BY <3>3, <3>4, <3>5 DEF PathInvariant
  <2>2. ASSUME NEW outcome \in Outcomes, Execute(outcome)
        PROVE  PathInvariant'
    <3>1. /\ stage = "admitted" /\ effect = "none"
          /\ UNCHANGED <<plan, before, failures, after, verdict>>
      BY <2>0, <2>2 DEF Execute, EffectKept
    <3>2. (compare_path(before)' = compare_path(before)) /\ (Mechanism' = Mechanism)
      BY <3>1 DEF compare_path, compare_object, Mechanism
    <3>3. \/ /\ Mechanism /\ effect' = outcome
             /\ stage' = IF ~ValidResult(outcome) THEN "error"
                         ELSE IF outcome \in {"completed", "conditional_retained"}
                         THEN "executed" ELSE "interrupted"
          \/ ~Mechanism /\ stage' = "executed" /\ effect' = effect
      BY <2>2 DEF Execute
    <3>4. stage' \in {"error", "executed", "interrupted"}
      BY <3>3
    <3>5. stage' = "executed" =>
            /\ effect' \in IF Mechanism THEN {"completed", "conditional_retained"}
                           ELSE {"none"}
            /\ effect' = "conditional_retained" =>
                 plan.active = "remove_directory_if_empty"
      BY <3>1, <3>3 DEF ValidResult
    <3>6. EffectKept' /\ MatchedSealable' /\ VerdictKept'
      BY <3>1, <3>2, <3>4, <3>5 DEF EffectKept, MatchedSealable, VerdictKept, Judged
    <3>7. AdmissionKept'
      BY <2>0, <3>1, <3>2, <3>4 DEF AdmissionKept
    <3>8. TypeOK'
      BY <2>0, <3>1, <3>3, <3>4, <3>5 DEF TypeOK
    <3> QED BY <3>6, <3>7, <3>8 DEF PathInvariant
  <2>3. ASSUME NEW a \in Observations, Observe(a)
        PROVE  PathInvariant'
    <3>1. /\ stage = "executed" /\ after' = a
          /\ verdict' = match_result_observation(a)
          /\ stage' = IF verdict' = "matched" THEN "judged" ELSE "unmatched"
          /\ UNCHANGED <<plan, before, failures, effect>>
      BY <2>3 DEF Observe
    <3>2. (compare_path(before)' = compare_path(before)) /\ (Mechanism' = Mechanism)
      BY <3>1 DEF compare_path, compare_object, Mechanism
    <3>3. match_result_observation(after)' = match_result_observation(a)
      BY <3>1 DEF match_result_observation, match_incoming_entry,
                  match_retained_observation, MatchAbsent
    <3>4. verdict' \in {"matched", "mismatch", "indeterminate"}
      BY <3>1 DEF match_result_observation, match_incoming_entry,
                  match_retained_observation, MatchAbsent, merge_match
    <3>5. AdmissionKept'
      BY <2>0, <3>1, <3>2 DEF AdmissionKept
    <3>6. EffectKept' /\ MatchedSealable'
      BY <2>0, <3>1, <3>2 DEF EffectKept, MatchedSealable, Judged
    <3>7. VerdictKept'
      BY <3>1, <3>3 DEF VerdictKept
    <3>8. TypeOK'
      BY <2>0, <3>1, <3>4 DEF TypeOK
    <3> QED BY <3>5, <3>6, <3>7, <3>8 DEF PathInvariant
  <2>4. ASSUME Complete
        PROVE  PathInvariant'
    <3>1. /\ stage = "judged" /\ stage' = "completed"
          /\ UNCHANGED <<plan, before, failures, effect, after, verdict>>
      BY <2>4, MatchSeals DEF Complete
    <3>2. (compare_path(before)' = compare_path(before)) /\ (Mechanism' = Mechanism)
      BY <3>1 DEF compare_path, compare_object, Mechanism
    <3>3. match_result_observation(after)' = match_result_observation(after)
      BY <3>1 DEF match_result_observation, match_incoming_entry,
                  match_retained_observation, MatchAbsent
    <3>4. AdmissionKept'
      BY <2>0, <3>1, <3>2 DEF AdmissionKept
    <3>5. EffectKept' /\ MatchedSealable'
      BY <2>0, <3>1, <3>2 DEF EffectKept, MatchedSealable, Judged
    <3>6. VerdictKept'
      BY <2>0, <3>1, <3>3 DEF VerdictKept, Judged
    <3>7. TypeOK'
      BY <2>0, <3>1 DEF TypeOK
    <3> QED BY <3>4, <3>5, <3>6, <3>7 DEF PathInvariant
  <2>5. CASE UNCHANGED vars
    <3>1. UNCHANGED <<stage, plan, before, failures, effect, after, verdict>>
      BY <2>5 DEF vars
    <3>2. (compare_path(before)' = compare_path(before)) /\ (Mechanism' = Mechanism)
      BY <3>1 DEF compare_path, compare_object, Mechanism
    <3>3. match_result_observation(after)' = match_result_observation(after)
      BY <3>1 DEF match_result_observation, match_incoming_entry,
                  match_retained_observation, MatchAbsent
    <3>4. AdmissionKept' /\ VerdictKept'
      BY <2>0, <3>1, <3>2, <3>3 DEF AdmissionKept, VerdictKept
    <3>5. EffectKept' /\ MatchedSealable'
      BY <2>0, <3>1, <3>2 DEF EffectKept, MatchedSealable
    <3>6. TypeOK'
      BY <2>0, <3>1 DEF TypeOK
    <3> QED BY <3>4, <3>5, <3>6 DEF PathInvariant
  <2> QED BY <2>1, <2>2, <2>3, <2>4, <2>5 DEF Next
<1> QED BY <1>1, <1>2, PTL DEF Spec

\* Every variable keeps its type, and an effect that is observed after it says
\* it retained its object was a conditional directory removal.
THEOREM PathTyped == Spec => []TypeOK
BY PathsJudged, PTL DEF PathInvariant

\* What passes match_result_observation passes the constructor of a path
\* consequence and completed_path: no matched result is left without evidence.
THEOREM MatchedResultsSeal == Spec => []MatchedSealable
BY PathsJudged, PTL DEF PathInvariant

\* match_result_observation answers exactly what the observation supports.
THEOREM VerdictsExact == Spec => []MatchExact
<1>1. PathInvariant => MatchExact
  <2> SUFFICES ASSUME PathInvariant, stage \in {"judged", "unmatched"}
               PROVE  LET possible == {w \in Worlds : Admits(after, w)}
                          results == {w \in possible : IsResult(w)}
                      IN  /\ verdict = "matched" <=> results = possible
                          /\ verdict = "mismatch" <=> results = {}
    BY DEF MatchExact
  <2>1. stage \in Judged /\ verdict = match_result_observation(after)
    BY DEF PathInvariant, VerdictKept, Judged
  <2>2. Exact(verdict, Possible(after), Results)
    BY <2>1, ResultExact
  <2> QED BY <2>2 DEF Exact, Possible, Results
<1> QED BY <1>1, PathsJudged, PTL

\* An object that is kept, by decision or because its directory was in use, is
\* at the end still what compare_path let in; and compare_path turns away only
\* what may differ from the plan.
THEOREM RetentionsAsPlanned == Spec => []RetainedSatisfiesPlan
<1>1. ASSUME PathInvariant, stage = "completed",
             plan.active = "retain_observed" \/ effect = "conditional_retained",
             NEW w \in Worlds, Admits(after, w)
      PROVE  RespectsPlan(w)
  <2>1. /\ before \in Objects /\ before.kind = plan.planned.kind
        /\ \A f \in plan.planned.fields : before.facts[f] = "expected"
        /\ plan.planned.kind # "absent" /\ plan.active # "activate_incoming"
    BY <1>1, RetainedKnown DEF Judged
  <2>2. verdict = "matched" /\ Exact(verdict, Possible(after), Results)
    BY <1>1, ResultExact DEF PathInvariant, VerdictKept, Judged
  <2>3. w \in Results
    BY <1>1, <2>2 DEF Exact, Possible
  <2>4. Admits(before, w)
    BY <1>1, <2>1, <2>3 DEF Results, IsResult
  <2>5. before # Unknown
    BY <2>1, ObjectsForm DEF Unknown
  <2>6. w.kind = before.kind
        /\ \A f \in Fields : w.facts[f] \in FactWorlds(before.facts[f])
    BY <2>4, <2>5 DEF Admits
  <2>7. plan.planned.fields \subseteq Fields
    BY <1>1, PlanForms DEF PathInvariant, AdmissionKept
  <2>8. \A f \in plan.planned.fields : w.facts[f] \in FactWorlds("expected")
    BY <2>1, <2>6, <2>7
  <2>9. FactWorlds("expected") = {"expected"}
    BY DEF FactWorlds
  <2> QED BY <2>1, <2>6, <2>8, <2>9 DEF RespectsPlan
<1>2. ASSUME PathInvariant, stage = "refused"
      PROVE  \E w \in Worlds : Admits(before, w) /\ ~RespectsPlan(w)
  BY <1>2, PreconditionFailed DEF PathInvariant, TypeOK, AdmissionKept
<1>3. PathInvariant => RetainedSatisfiesPlan
  BY <1>1, <1>2 DEF RetainedSatisfiesPlan
<1> QED BY <1>3, PathsJudged, PTL
=============================================================================
