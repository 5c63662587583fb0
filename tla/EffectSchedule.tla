--------------------------- MODULE EffectSchedule ---------------------------
(***************************************************************************)
(* The whole effect schedule of a plan: the capture plan (capture.cpp),    *)
(* the payload closure (payload.cpp) and the steps prepare() freezes       *)
(* (schedule.cpp), followed by a run of those steps over a file tree in    *)
(* which every mechanism succeeds.                                         *)
(*                                                                         *)
(* Image entries are named by their path, and entry identifiers are        *)
(* ordered as the paths are.                                               *)
(***************************************************************************)
EXTENDS ActiveEffectOrder

CONSTANT Recovery   \* application_recovery_requirement

ASSUME RecoveryAssumption ==
  Recovery \in {"none", "best_effort", "exact_prior_state"}

\* What libpkgplan was given: the observed objects form a tree, and an outcome
\* fits the object observed.
ASSUME ObservedAssumption ==
  \A pl \in Plans :
    /\ \A e \in Above : pl[e[2]].before # "absent" => pl[e[1]].before = "directory"
    /\ \A p \in Paths :
         /\ pl[p].active = "remain_absent" => pl[p].before = "absent"
         /\ pl[p].active = "remove_directory_if_empty" => pl[p].before = "directory"

VARIABLES steps,      \* the frozen schedule
          position,   \* steps executed so far
          namespace,  \* what the target holds at each path
          captured,   \* old objects captured
          staged,     \* regular payload entries staged
          rejects,    \* paths published to the rejected store
          observed    \* what the final observations saw

runVars == <<steps, position, namespace, captured, staged, rejects, observed>>
vars == <<orderVars, runVars>>

Kind == {"absent", "directory", "other"}
NotSeen == "not_seen"

----------------------------------------------------------------------------
(***************************************************************************)
(* Old objects to capture.                                                 *)
(***************************************************************************)
recovery_selected == Recovery # "none"

CapturesAbsent(p) == active_mechanism_required(plan[p].active)

active_effect_may_destroy_old(p) ==
  plan[p].before # "absent" /\ active_mechanism_required(plan[p].active)

CapturesForRejectedOnly == {p \in Paths : plan[p].rejected = "stage_old"}

CaptureRequests ==
  {p \in Paths : \/ plan[p].rejected = "stage_old"
                 \/ recovery_selected /\ active_effect_may_destroy_old(p)}

CapturesValid ==
  \A p \in Paths : plan[p].rejected = "stage_old" => plan[p].before # "absent"

(***************************************************************************)
(* Incoming payloads to stage.  A hard link needs the payload of its       *)
(* anchor, which must be a regular entry of the image.                     *)
(***************************************************************************)
NeedsIncoming(p) ==
  plan[p].active = "activate_incoming" \/ plan[p].rejected = "stage_incoming"

regular_payload_entry(p) ==
  CASE plan[p].entry = "regular"  -> {p}
    [] plan[p].entry = "hardlink" -> {plan[p].anchor}
    [] OTHER                      -> {}

PayloadsValid ==
  \A p \in Paths : NeedsIncoming(p) =>
    /\ plan[p].entry # "none"
    /\ \A q \in regular_payload_entry(p) :
         q \in Paths /\ plan[q].entry = "regular"

PayloadEntries ==
  UNION {regular_payload_entry(p) : p \in {q \in Paths : NeedsIncoming(q)}}

----------------------------------------------------------------------------
(***************************************************************************)
(* The schedule.                                                           *)
(***************************************************************************)
InPathOrder(paths) ==
  [i \in 1 .. Cardinality(paths) |->
     CHOOSE p \in paths : Cardinality({q \in paths : Rank[q] <= Rank[p]}) = i]

OfKind(kind, order) == [i \in DOMAIN order |-> [kind |-> kind, path |-> order[i]]]

ObservesBeforeActive ==
  OfKind("capture_old_object", InPathOrder(CaptureRequests))
  \o OfKind("stage_regular_payload", InPathOrder(PayloadEntries))
  \o OfKind("publish_rejected_object",
            InPathOrder({p \in Paths : plan[p].rejected # "none"}))
  \o OfKind("observe_result", InPathOrder(Paths))
  \o OfKind("publish_active_object", ordered)

prepare ==
  OfKind("capture_old_object", InPathOrder(CaptureRequests))
  \o OfKind("stage_regular_payload", InPathOrder(PayloadEntries))
  \o OfKind("publish_rejected_object",
            InPathOrder({p \in Paths : plan[p].rejected # "none"}))
  \o OfKind("publish_active_object", ordered)
  \o OfKind("observe_result", InPathOrder(Paths))

ScheduleInit ==
  /\ Init
  /\ steps = << >> /\ position = 0
  /\ namespace = [p \in Paths |-> plan[p].before]
  /\ captured = [p \in Paths |-> NotSeen]
  /\ staged = {} /\ rejects = {}
  /\ observed = [p \in Paths |-> NotSeen]

\* Captures and payloads are derived before the order; either refuses a plan
\* it cannot serve.
DeriveOrder ==
  /\ CapturesValid /\ PayloadsValid
  /\ OrderNext
  /\ UNCHANGED runVars

Refuse ==
  /\ phase = "ordering"
  /\ ~(CapturesValid /\ PayloadsValid)
  /\ phase' = "invalid"
  /\ UNCHANGED <<plan, ordered, indegree, ready, runVars>>

Freeze ==
  /\ phase = "ordered" /\ steps = << >>
  /\ steps' = prepare
  /\ UNCHANGED <<orderVars, position, namespace, captured, staged, rejects,
                 observed>>

----------------------------------------------------------------------------
(***************************************************************************)
(* The backend carries out one step; every mechanism succeeds.             *)
(***************************************************************************)
Perform(kind) ==
  /\ position < Len(steps)
  /\ steps[position + 1].kind = kind
  /\ position' = position + 1

Subject == steps[position + 1].path

CaptureOld ==
  /\ Perform("capture_old_object")
  /\ captured' = [captured EXCEPT ![Subject] = namespace[Subject]]
  /\ UNCHANGED <<orderVars, steps, namespace, staged, rejects, observed>>

StagePayload ==
  /\ Perform("stage_regular_payload")
  /\ staged' = staged \cup {Subject}
  /\ UNCHANGED <<orderVars, steps, namespace, captured, rejects, observed>>

PublishRejected ==
  /\ Perform("publish_rejected_object")
  /\ rejects' = rejects \cup {Subject}
  /\ UNCHANGED <<orderVars, steps, namespace, captured, staged, observed>>

Occupied(p) == \E q \in Paths : <<p, q>> \in Above /\ namespace[q] # "absent"

ActiveResult(p) ==
  CASE plan[p].active = "activate_incoming" ->
         IF parent_before_child(p) THEN "directory" ELSE "other"
    [] plan[p].active = "remove_observed" -> "absent"
    [] plan[p].active = "remove_directory_if_empty" ->
         IF Occupied(p) THEN namespace[p] ELSE "absent"
    [] OTHER -> namespace[p]

PublishActive ==
  /\ Perform("publish_active_object")
  /\ namespace' = [namespace EXCEPT ![Subject] = ActiveResult(Subject)]
  /\ UNCHANGED <<orderVars, steps, captured, staged, rejects, observed>>

ObserveResult ==
  /\ Perform("observe_result")
  /\ observed' = [observed EXCEPT ![Subject] = namespace[Subject]]
  /\ UNCHANGED <<orderVars, steps, namespace, captured, staged, rejects>>

Next ==
  \/ DeriveOrder \/ Refuse \/ Freeze
  \/ CaptureOld \/ StagePayload \/ PublishRejected \/ PublishActive
  \/ ObserveResult

Spec == ScheduleInit /\ [][Next]_vars

----------------------------------------------------------------------------
Executed(kind) ==
  {steps[i].path : i \in {j \in 1 .. position : steps[j].kind = kind}}

\* Every variable keeps its type; a step names a path of the plan.
TypeOK ==
  /\ OrderTypeOK
  /\ \A i \in DOMAIN steps : steps[i].path \in Paths
  /\ position \in 0 .. Len(steps)
  /\ namespace \in [Paths -> Kind]
  /\ captured \in [Paths -> (Kind \ {"absent"}) \cup {NotSeen}]
  /\ staged \subseteq Paths /\ rejects \subseteq Paths
  /\ observed \in [Paths -> Kind \cup {NotSeen}]

\* The tree a plan asks for: every path it leaves present lies in directories.
\* Plans that ask for anything else are scheduled too, but promise no tree.
StaysPresent(p) == plan[p].active \in {"activate_incoming", "retain_observed"}
StaysDirectory(p) ==
  \/ parent_before_child(p)
  \/ /\ plan[p].active \in {"retain_observed", "remove_directory_if_empty"}
     /\ plan[p].before = "directory"
Coherent ==
  \A p, q \in Paths : <<p, q>> \in Above /\ StaysPresent(q) => StaysDirectory(p)

\* The order is safe for a file tree: if the plan's result is a tree, so is
\* what every prefix of the schedule leaves behind.  No object is created
\* before its directory, and none is replaced or removed above one still there.
TreeAtEveryStep ==
  Coherent => \A p, q \in Paths :
    <<p, q>> \in Above /\ namespace[q] # "absent" => namespace[p] = "directory"

\* Everything published, and everything recovery would put back, has its source
\* at hand: what an active effect destroys was captured first whenever recovery
\* is selected, a rejected old object was captured, and the regular payload
\* behind an incoming entry was staged (capture.cpp, payload.cpp, prepare).
SourcesReady ==
  /\ recovery_selected => \A p \in Executed("publish_active_object") :
       plan[p].before # "absent" => captured[p] = plan[p].before
  /\ \A p \in rejects : plan[p].rejected = "stage_old" =>
       captured[p] = plan[p].before
  /\ \A p \in rejects \cup Executed("publish_active_object") :
       NeedsIncoming(p) /\ plan[p].entry \in {"regular", "hardlink"} =>
         \E q \in staged :
           plan[q].entry = "regular" /\ q \in {p, plan[p].anchor}

\* The completed schedule reaches the plan's tree, and its observations saw
\* that tree: nothing is observed before the last active effect.
ResultReached ==
  steps # << >> /\ position = Len(steps) => \A p \in Paths :
    /\ observed[p] = namespace[p]
    /\ plan[p].active = "activate_incoming" =>
         (namespace[p] = "directory") = (plan[p].entry = "directory")
    /\ plan[p].active \in {"retain_observed", "remain_absent"} =>
         namespace[p] = plan[p].before
    /\ plan[p].active = "remove_observed" => namespace[p] = "absent"
    /\ plan[p].active = "remove_directory_if_empty" =>
         (namespace[p] = "absent") = ~Occupied(p)
=============================================================================
