------------------------- MODULE ActiveEffectOrder -------------------------
(***************************************************************************)
(* The order in which a plan's active effects run (order_active_nodes of   *)
(* schedule.cpp): a topological sort of the paths that need a mechanism,   *)
(* which always places the least ready path next.                          *)
(*                                                                         *)
(* A plan maps each of its paths to one decision.  The plan, the image     *)
(* entry a decision cites and the object observed before are inputs from   *)
(* libpkgplan and libpkgimage.                                             *)
(***************************************************************************)
EXTENDS Naturals, Sequences, FiniteSets

CONSTANTS Paths,    \* the plan's paths
          Above,    \* pairs <<p, q>>: p is a strict ancestor of q
          Rank,     \* the total order of package_path
          NoPath,   \* a hard link entry without its anchor
          Plans     \* the plans to be scheduled

Outcome == {"activate_incoming", "retain_observed", "remove_observed",
            "remove_directory_if_empty", "remain_absent"}
EntryType == {"directory", "regular", "hardlink", "symlink"}

Decision == [active   : Outcome,
             rejected : {"none", "stage_old", "stage_incoming"},
             entry    : EntryType \cup {"none"},
             anchor   : Paths \cup {NoPath},
             before   : {"absent", "directory", "other"}]

ASSUME PathsAssumption ==
  /\ IsFiniteSet(Paths)
  /\ NoPath \notin Paths
  /\ Above \subseteq Paths \X Paths
  /\ \A p \in Paths : <<p, p>> \notin Above
  /\ \A p, q, r \in Paths :
       <<p, q>> \in Above /\ <<q, r>> \in Above => <<p, r>> \in Above
  /\ Rank \in [Paths -> Nat]
  /\ \A p, q \in Paths : Rank[p] = Rank[q] => p = q

ASSUME PlansAssumption == Plans \subseteq [Paths -> Decision]

VARIABLES plan,      \* the accepted plan
          phase,     \* "ordering", then "ordered", "cycle" or "invalid"
          ordered,   \* the active paths placed so far
          indegree,  \* predecessors of a path not yet placed
          ready      \* unplaced paths without such a predecessor

orderVars == <<plan, phase, ordered, indegree, ready>>

----------------------------------------------------------------------------
active_mechanism_required(outcome) ==
  outcome \in {"activate_incoming", "remove_observed",
               "remove_directory_if_empty"}

active_nodes == {p \in Paths : active_mechanism_required(plan[p].active)}

\* Only an incoming directory is published before what lies below it.
parent_before_child(p) ==
  plan[p].active = "activate_incoming" /\ plan[p].entry = "directory"

IncomingHardlink(p) ==
  plan[p].active = "activate_incoming" /\ plan[p].entry = "hardlink"

ParentFirstOnly(before, after) ==
  <<before, after>> \in Above /\ parent_before_child(before)

BothWays(before, after) ==
  \/ <<before, after>> \in Above /\ parent_before_child(before)
  \/ <<after, before>> \in Above

AncestorEdge(before, after) ==
  \/ <<before, after>> \in Above /\ parent_before_child(before)
  \/ <<after, before>> \in Above /\ ~parent_before_child(after)

NoAnchorEdge(before, after) == FALSE

AnchorEdge(before, after) ==
  before # after /\ IncomingHardlink(after) /\ plan[after].anchor = before

\* The paths whose effect must run before the effect of p (add_edge keeps
\* one edge per pair).
Predecessors(p) ==
  {q \in active_nodes : AncestorEdge(q, p) \/ AnchorEdge(q, p)}

Successors(p) == {q \in active_nodes : p \in Predecessors(q)}

Initial(p) == IF p \in active_nodes THEN Cardinality(Predecessors(p)) ELSE 0

Init ==
  /\ plan \in Plans
  /\ phase = IF \E p \in Paths : IncomingHardlink(p) /\ plan[p].anchor = NoPath
             THEN "invalid" ELSE "ordering"
  /\ ordered = << >>
  /\ indegree = [p \in Paths |-> Initial(p)]
  /\ ready = {p \in active_nodes : Initial(p) = 0}

AnyReady(p) == p \in ready

\* The ready set is ordered by path and its first element is taken.
LeastReady(p) == p \in ready /\ \A q \in ready : Rank[p] <= Rank[q]

\* One turn of the loop: place a path and release its successors.
Place(current) ==
  /\ phase = "ordering"
  /\ LeastReady(current)
  /\ ordered' = Append(ordered, current)
  /\ indegree' = [p \in Paths |-> IF p \in Successors(current)
                                  THEN indegree[p] - 1 ELSE indegree[p]]
  /\ ready' = (ready \ {current})
              \cup {p \in Successors(current) : indegree[p] = 1}
  /\ UNCHANGED <<plan, phase>>

AcceptsAnyLength ==
  /\ phase = "ordering"
  /\ ready = {}
  /\ phase' = "ordered"
  /\ UNCHANGED <<plan, ordered, indegree, ready>>

\* The loop ends; a shorter order than the nodes means a cycle.
Finish ==
  /\ phase = "ordering"
  /\ ready = {}
  /\ phase' = IF Len(ordered) = Cardinality(active_nodes)
              THEN "ordered" ELSE "cycle"
  /\ UNCHANGED <<plan, ordered, indegree, ready>>

OrderNext == (\E current \in Paths : Place(current)) \/ Finish

OrderSpec == Init /\ [][OrderNext]_orderVars

----------------------------------------------------------------------------
Placed(n) == {ordered[i] : i \in 1 .. n}

\* Every variable keeps its type, and no path is counted below zero.
OrderTypeOK ==
  /\ plan \in [Paths -> Decision]
  /\ phase \in {"ordering", "ordered", "cycle", "invalid"}
  /\ ordered \in Seq(active_nodes)
  /\ indegree \in [Paths -> Nat]
  /\ ready \in SUBSET active_nodes

\* order_active_nodes never places an effect too early: an incoming directory
\* comes before everything below it, everything else after all that lies
\* below it, and a hard link after the entry it links to.
SafeOrder ==
  \A i \in 1 .. Len(ordered) : \A q \in active_nodes :
    (\/ <<q, ordered[i]>> \in Above /\ plan[q].active = "activate_incoming"
                                    /\ plan[q].entry = "directory"
     \/ <<ordered[i], q>> \in Above
          /\ ~(/\ plan[ordered[i]].active = "activate_incoming"
               /\ plan[ordered[i]].entry = "directory")
     \/ /\ q # ordered[i]
        /\ plan[ordered[i]].active = "activate_incoming"
        /\ plan[ordered[i]].entry = "hardlink"
        /\ plan[ordered[i]].anchor = q)
    => q \in Placed(i - 1)

\* No effect is placed twice, and an order that is accepted places every
\* active path: the length test at the end of order_active_nodes is enough.
CompleteOrder ==
  /\ \A i, j \in 1 .. Len(ordered) : ordered[i] = ordered[j] => i = j
  /\ phase = "ordered" => Placed(Len(ordered)) = active_nodes

\* The order is canonical: at each position stands the least path whose
\* predecessors all stand before it, so a restart that derives the schedule
\* again from the same plan obtains the frozen order.
CanonicalOrder ==
  \A i \in 1 .. Len(ordered) : \A q \in active_nodes \ Placed(i - 1) :
    Predecessors(q) \subseteq Placed(i - 1) => Rank[ordered[i]] <= Rank[q]

\* An image that libpkgimage would not seal: an entry below one that is not a
\* directory, or a hard link to something other than a regular entry.
MalformedImage ==
  \/ \E p, q \in Paths : /\ <<p, q>> \in Above
                         /\ plan[p].entry \notin {"none", "directory"}
                         /\ plan[q].entry # "none"
  \/ \E p \in Paths : /\ plan[p].entry = "hardlink"
                      /\ plan[p].anchor # NoPath
                      /\ plan[plan[p].anchor].entry # "regular"

\* A cycle is reported only for a malformed image: no mixture of removals,
\* replacements and hard links over a sealed image is turned away.
CycleOnlyIfMalformed == phase = "cycle" => MalformedImage
=============================================================================
