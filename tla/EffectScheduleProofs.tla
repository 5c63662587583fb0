------------------------ MODULE EffectScheduleProofs ------------------------
(***************************************************************************)
(* Proofs about the order of active effects and about the schedule carried *)
(* out on a file tree, for any finite set of paths, any ancestor relation  *)
(* and any plan, malformed images included.                                *)
(***************************************************************************)
EXTENDS EffectSchedule, FiniteSetTheorems, WellFoundedInduction, TLAPS

(***************************************************************************)
(* The sort.                                                               *)
(***************************************************************************)
AllPlaced == Placed(Len(ordered))

\* The predecessors of a path that are not placed yet.
Pending(p) == Predecessors(p) \ AllPlaced

\* Every hard link to be activated has an anchor.
AnchorsGiven == \A p \in Paths : IncomingHardlink(p) => plan[p].anchor # NoPath

\* What the loop of order_active_nodes keeps: the counters count exactly the
\* pending predecessors, the ready set holds exactly the unplaced paths with
\* none, and whatever is placed had its predecessors placed before it.
LoopInvariant ==
  /\ OrderTypeOK
  /\ \A i, j \in 1 .. Len(ordered) : ordered[i] = ordered[j] => i = j
  /\ Cardinality(AllPlaced) = Len(ordered)
  /\ \A p \in active_nodes : indegree[p] = Cardinality(Pending(p))
  /\ ready = {p \in active_nodes \ AllPlaced : indegree[p] = 0}
  /\ \A i \in 1 .. Len(ordered) : Predecessors(ordered[i]) \subseteq Placed(i - 1)
  /\ CanonicalOrder
  /\ phase = "ordered" => Len(ordered) = Cardinality(active_nodes)
  /\ phase = "cycle" => ready = {} /\ Len(ordered) # Cardinality(active_nodes)
  /\ phase # "invalid" => AnchorsGiven

----------------------------------------------------------------------------
\* The nodes, the predecessors and the pending predecessors are finite sets.
LEMMA FiniteNodes ==
  /\ IsFiniteSet(active_nodes)
  /\ \A p : IsFiniteSet(Predecessors(p)) /\ IsFiniteSet(Pending(p))
<1>1. IsFiniteSet(active_nodes)
  BY PathsAssumption, FS_Subset DEF active_nodes
<1>2. ASSUME NEW p PROVE IsFiniteSet(Predecessors(p)) /\ IsFiniteSet(Pending(p))
  BY <1>1, FS_Subset DEF Predecessors, Pending
<1> QED  BY <1>1, <1>2

\* What depends on the plan alone is the same after a step that keeps it.
LEMMA PlanFixesGraph ==
  ASSUME plan' = plan
  PROVE  /\ active_nodes' = active_nodes
         /\ \A p : Predecessors(p)' = Predecessors(p)
         /\ AnchorsGiven' = AnchorsGiven
<1>1. active_nodes' = active_nodes
  BY DEF active_nodes
<1>2. AnchorsGiven' = AnchorsGiven
  BY DEF AnchorsGiven, IncomingHardlink
<1> QED
  BY <1>1, <1>2 DEF Predecessors, AncestorEdge, AnchorEdge, parent_before_child,
                    IncomingHardlink

\* Placing one more path leaves the earlier positions as they were.
LEMMA PlacedAfterAppend ==
  ASSUME NEW c, ordered \in Seq(active_nodes), c \in active_nodes,
         ordered' = Append(ordered, c)
  PROVE  /\ Len(ordered') = Len(ordered) + 1
         /\ Len(ordered) \in Nat
         /\ \A i \in 1 .. Len(ordered) : ordered'[i] = ordered[i]
         /\ ordered'[Len(ordered) + 1] = c
         /\ \A n \in 0 .. Len(ordered) : Placed(n)' = Placed(n)
         /\ AllPlaced' = AllPlaced \cup {c}
<1>1. /\ Len(ordered') = Len(ordered) + 1
      /\ Len(ordered) \in Nat
      /\ \A i \in 1 .. Len(ordered) : ordered'[i] = ordered[i]
      /\ ordered'[Len(ordered) + 1] = c
  OBVIOUS
<1>2. \A n \in 0 .. Len(ordered) : Placed(n)' = Placed(n)
  BY <1>1 DEF Placed
<1>3. AllPlaced' = AllPlaced \cup {c}
  <2>1. AllPlaced' = {ordered'[i] : i \in 1 .. Len(ordered) + 1}
    BY <1>1 DEF AllPlaced, Placed
  <2>2. 1 .. Len(ordered) + 1 = (1 .. Len(ordered)) \cup {Len(ordered) + 1}
    BY <1>1
  <2> QED  BY <2>1, <2>2, <1>1 DEF AllPlaced, Placed
<1> QED  BY <1>1, <1>2, <1>3

----------------------------------------------------------------------------
\* Before the first turn nothing is placed and the counters are the initial ones.
LEMMA LoopInvariantInit == Init => LoopInvariant
<1> SUFFICES ASSUME Init PROVE LoopInvariant
  OBVIOUS
<1>1. Len(ordered) = 0 /\ AllPlaced = {} /\ ordered \in Seq(active_nodes)
  BY DEF Init, AllPlaced, Placed
<1>2. \A p : Pending(p) = Predecessors(p)
  BY <1>1 DEF Pending
<1>3. \A p \in Paths : Initial(p) \in Nat
  BY FiniteNodes, FS_CardinalityType DEF Initial
<1>4. active_nodes \subseteq Paths
  BY DEF active_nodes
<1>5. OrderTypeOK
  BY <1>1, <1>3, <1>4, PlansAssumption DEF Init, OrderTypeOK
<1>6. \A p \in active_nodes : indegree[p] = Cardinality(Pending(p))
  BY <1>2, <1>4 DEF Init, Initial
<1>7. ready = {p \in active_nodes \ AllPlaced : indegree[p] = 0}
  BY <1>1, <1>4 DEF Init
<1>8. Cardinality(AllPlaced) = Len(ordered)
  BY <1>1, FS_EmptySet
<1>9. phase \notin {"ordered", "cycle"} /\ (phase # "invalid" => AnchorsGiven)
  BY DEF Init, AnchorsGiven
<1> QED
  BY <1>1, <1>5, <1>6, <1>7, <1>8, <1>9 DEF LoopInvariant, CanonicalOrder

\* A turn of the loop moves one path from the ready set to the order.
LEMMA LoopInvariantPlace ==
  ASSUME LoopInvariant, NEW c \in Paths, Place(c)
  PROVE  LoopInvariant'
<1>1. /\ plan' = plan /\ phase' = phase /\ phase = "ordering"
      /\ ordered' = Append(ordered, c)
      /\ c \in ready /\ \A q \in ready : Rank[c] <= Rank[q]
  BY DEF Place, LeastReady
<1>2. /\ active_nodes' = active_nodes
      /\ \A p : Predecessors(p)' = Predecessors(p)
      /\ AnchorsGiven' = AnchorsGiven
  BY <1>1, PlanFixesGraph
<1>3. /\ c \in active_nodes /\ c \notin AllPlaced /\ indegree[c] = 0
      /\ ordered \in Seq(active_nodes)
      /\ indegree \in [Paths -> Nat]
      /\ active_nodes \subseteq Paths
  BY <1>1 DEF LoopInvariant, OrderTypeOK, active_nodes
<1>4. /\ Len(ordered') = Len(ordered) + 1
      /\ Len(ordered) \in Nat
      /\ \A i \in 1 .. Len(ordered) : ordered'[i] = ordered[i]
      /\ ordered'[Len(ordered) + 1] = c
      /\ \A n \in 0 .. Len(ordered) : Placed(n)' = Placed(n)
      /\ AllPlaced' = AllPlaced \cup {c}
  BY <1>1, <1>3, PlacedAfterAppend
<1>5. Predecessors(c) \subseteq AllPlaced
  <2>1. Cardinality(Pending(c)) = 0
    BY <1>3 DEF LoopInvariant
  <2> QED  BY <2>1, FiniteNodes, FS_EmptySet DEF Pending
<1>6. \A p \in Successors(c) :
        p \in active_nodes /\ c \in Pending(p) /\ p \notin AllPlaced /\ p # c
  <2> SUFFICES ASSUME NEW p \in Successors(c)
               PROVE  p \in active_nodes /\ c \in Pending(p)
                      /\ p \notin AllPlaced /\ p # c
    OBVIOUS
  <2>1. p \in active_nodes /\ c \in Predecessors(p) /\ c \in Pending(p)
    BY <1>3 DEF Successors, Pending
  <2>2. ASSUME p \in AllPlaced PROVE FALSE
    <3>1. PICK i \in 1 .. Len(ordered) : ordered[i] = p
      BY <2>2 DEF AllPlaced, Placed
    <3>2. c \in Placed(i - 1)
      BY <2>1, <3>1 DEF LoopInvariant
    <3> QED  BY <3>2, <1>3, <1>4 DEF AllPlaced, Placed
  <2> QED  BY <2>1, <2>2, <1>3, <1>5
<1>7. \A p \in active_nodes :
        /\ Pending(p)' = Pending(p) \ {c}
        /\ p \in Successors(c) <=> c \in Pending(p)
  BY <1>2, <1>3, <1>4 DEF Pending, Successors
<1>8. \A p \in active_nodes : Cardinality(Pending(p)) \in Nat
  BY FiniteNodes, FS_CardinalityType
<1>9. \A p \in Paths : indegree'[p] =
        IF p \in Successors(c) THEN indegree[p] - 1 ELSE indegree[p]
  BY DEF Place
<1>10. \A p \in active_nodes :
         /\ p \in Successors(c) =>
              Cardinality(Pending(p)') = Cardinality(Pending(p)) - 1
         /\ p \notin Successors(c) => Pending(p)' = Pending(p)
  <2> SUFFICES ASSUME NEW p \in active_nodes
               PROVE  /\ p \in Successors(c) =>
                           Cardinality(Pending(p)') = Cardinality(Pending(p)) - 1
                      /\ p \notin Successors(c) => Pending(p)' = Pending(p)
    OBVIOUS
  <2>1. IsFiniteSet(Pending(p))
    BY FiniteNodes
  <2>2. c \in Pending(p) =>
          Cardinality(Pending(p) \ {c}) = Cardinality(Pending(p)) - 1
    BY <2>1, FS_RemoveElement
  <2> QED  BY <2>2, <1>7
<1>11. \A p \in active_nodes : indegree'[p] = Cardinality(Pending(p)')
  BY <1>3, <1>9, <1>10 DEF LoopInvariant
<1>12. \A p \in Successors(c) : indegree[p] # 0
  <2> SUFFICES ASSUME NEW p \in Successors(c), indegree[p] = 0 PROVE FALSE
    OBVIOUS
  <2>1. Cardinality(Pending(p)) = 0
    BY <1>6 DEF LoopInvariant
  <2> QED  BY <2>1, <1>6, FiniteNodes, FS_EmptySet
<1>13. indegree' \in [Paths -> Nat]
  <2>1. \A p \in Paths : indegree'[p] \in Nat
    BY <1>3, <1>9, <1>12
  <2> QED  BY <2>1 DEF Place
<1>14. ready' = {p \in active_nodes \ AllPlaced' : indegree'[p] = 0}
  <2>1. ready' = (ready \ {c}) \cup {p \in Successors(c) : indegree[p] = 1}
    BY DEF Place
  <2>2. ready = {p \in active_nodes \ AllPlaced : indegree[p] = 0}
    BY DEF LoopInvariant
  <2>3. \A p \in active_nodes : p \notin Successors(c) =>
          (p \in ready' <=> p \notin AllPlaced' /\ indegree'[p] = 0)
    BY <2>1, <2>2, <1>3, <1>4, <1>9
  <2>4. \A p \in Successors(c) :
          (p \in ready' <=> p \notin AllPlaced' /\ indegree'[p] = 0)
    BY <2>1, <2>2, <1>3, <1>4, <1>6, <1>9, <1>12
  <2>5. ready' \subseteq active_nodes
    BY <2>1, <2>2, <1>6
  <2> QED  BY <2>3, <2>4, <2>5
<1>15. OrderTypeOK'
  <2>1. ordered' \in Seq(active_nodes)
    BY <1>1, <1>3
  <2>2. ready' \subseteq active_nodes
    BY <1>14
  <2> QED  BY <1>1, <1>2, <1>13, <2>1, <2>2 DEF LoopInvariant, OrderTypeOK
<1>16. \A i, j \in 1 .. Len(ordered') : ordered'[i] = ordered'[j] => i = j
  <2>1. \A i \in 1 .. Len(ordered) : ordered[i] # c
    BY <1>3 DEF AllPlaced, Placed
  <2> QED  BY <2>1, <1>4 DEF LoopInvariant
<1>17. Cardinality(AllPlaced') = Len(ordered')
  <2>1. AllPlaced \subseteq active_nodes
    BY <1>3 DEF AllPlaced, Placed
  <2>2. IsFiniteSet(AllPlaced)
    BY <2>1, FiniteNodes, FS_Subset
  <2>3. Cardinality(AllPlaced \cup {c}) = Cardinality(AllPlaced) + 1
    BY <2>2, <1>3, FS_AddElement
  <2>4. Cardinality(AllPlaced) = Len(ordered)
    BY DEF LoopInvariant
  <2> QED  BY <2>3, <2>4, <1>4
<1>18. \A i \in 1 .. Len(ordered') :
         Predecessors(ordered'[i]) \subseteq Placed(i - 1)'
  <2> SUFFICES ASSUME NEW i \in 1 .. Len(ordered')
               PROVE  Predecessors(ordered'[i]) \subseteq Placed(i - 1)'
    OBVIOUS
  <2>1. Placed(i - 1)' = Placed(i - 1)
    BY <1>4
  <2>2. CASE i \in 1 .. Len(ordered)
    BY <2>1, <2>2, <1>4 DEF LoopInvariant
  <2>3. CASE i = Len(ordered) + 1
    BY <2>1, <2>3, <1>4, <1>5 DEF AllPlaced
  <2> QED  BY <2>2, <2>3, <1>4
<1>19. CanonicalOrder'
  <2> SUFFICES ASSUME NEW i \in 1 .. Len(ordered'),
                      NEW q \in active_nodes, q \notin Placed(i - 1)',
                      Predecessors(q) \subseteq Placed(i - 1)'
               PROVE  Rank[ordered'[i]] <= Rank[q]
    BY <1>2 DEF CanonicalOrder
  <2>1. Placed(i - 1)' = Placed(i - 1)
    BY <1>4
  <2>2. CASE i \in 1 .. Len(ordered)
    BY <2>1, <2>2, <1>4 DEF LoopInvariant, CanonicalOrder
  <2>3. CASE i = Len(ordered) + 1
    <3>1. q \notin AllPlaced /\ Pending(q) = {}
      BY <2>1, <2>3, <1>4 DEF AllPlaced, Pending
    <3>2. indegree[q] = 0
      BY <3>1, FS_EmptySet DEF LoopInvariant
    <3>3. q \in ready
      BY <3>1, <3>2 DEF LoopInvariant
    <3> QED  BY <3>3, <2>3, <1>1, <1>4
  <2> QED  BY <2>2, <2>3, <1>4
<1> QED
  BY <1>1, <1>2, <1>11, <1>14, <1>15, <1>16, <1>17, <1>18, <1>19
  DEF LoopInvariant

\* The loop ends with nothing ready; the length tells an order from a cycle.
LEMMA LoopInvariantFinish == LoopInvariant /\ Finish => LoopInvariant'
<1> SUFFICES ASSUME LoopInvariant, Finish PROVE LoopInvariant'
  OBVIOUS
<1>1. /\ UNCHANGED <<plan, ordered, indegree, ready>>
      /\ phase' \in {"ordered", "cycle"}
      /\ phase' = "ordered" => Len(ordered) = Cardinality(active_nodes)
      /\ ready = {} /\ phase = "ordering"
      /\ phase' = "cycle" => Len(ordered) # Cardinality(active_nodes)
  BY DEF Finish
<1>2. /\ active_nodes' = active_nodes
      /\ \A p : Predecessors(p)' = Predecessors(p)
      /\ \A n : Placed(n)' = Placed(n)
      /\ AnchorsGiven' = AnchorsGiven
  BY <1>1, PlanFixesGraph DEF Placed
<1> QED
  BY <1>1, <1>2
  DEF LoopInvariant, OrderTypeOK, AllPlaced, Pending, CanonicalOrder

\* The invariant speaks of the variables of the sort only.
LEMMA LoopInvariantStutter ==
  LoopInvariant /\ UNCHANGED orderVars => LoopInvariant'
<1> SUFFICES ASSUME LoopInvariant, UNCHANGED orderVars PROVE LoopInvariant'
  OBVIOUS
<1>1. UNCHANGED <<plan, phase, ordered, indegree, ready>>
  BY DEF orderVars
<1>2. /\ active_nodes' = active_nodes
      /\ \A p : Predecessors(p)' = Predecessors(p)
      /\ \A n : Placed(n)' = Placed(n)
      /\ AnchorsGiven' = AnchorsGiven
  BY <1>1, PlanFixesGraph DEF Placed
<1> QED
  BY <1>1, <1>2
  DEF LoopInvariant, OrderTypeOK, AllPlaced, Pending, CanonicalOrder

\* The loop of order_active_nodes keeps its invariant.
THEOREM LoopInvariantHolds == OrderSpec => []LoopInvariant
<1>1. Init => LoopInvariant
  BY LoopInvariantInit
<1>2. LoopInvariant /\ [OrderNext]_orderVars => LoopInvariant'
  BY LoopInvariantPlace, LoopInvariantFinish, LoopInvariantStutter DEF OrderNext
<1> QED  BY <1>1, <1>2, PTL DEF OrderSpec

\* Every variable of the sort keeps its type, whatever plan is scheduled.
THEOREM OrderTypeCorrect == OrderSpec => []OrderTypeOK
<1>1. LoopInvariant => OrderTypeOK
  BY DEF LoopInvariant
<1> QED  BY <1>1, LoopInvariantHolds, PTL

\* The predecessors of a placed path are what SafeOrder asks for.
LEMMA LoopSafe == LoopInvariant => SafeOrder
<1> SUFFICES ASSUME LoopInvariant, NEW i \in 1 .. Len(ordered),
                    NEW q \in active_nodes,
                    (\/ <<q, ordered[i]>> \in Above
                          /\ plan[q].active = "activate_incoming"
                          /\ plan[q].entry = "directory"
                     \/ <<ordered[i], q>> \in Above
                          /\ ~(/\ plan[ordered[i]].active = "activate_incoming"
                               /\ plan[ordered[i]].entry = "directory")
                     \/ /\ q # ordered[i]
                        /\ plan[ordered[i]].active = "activate_incoming"
                        /\ plan[ordered[i]].entry = "hardlink"
                        /\ plan[ordered[i]].anchor = q)
             PROVE  q \in Placed(i - 1)
  BY DEF SafeOrder
<1>1. AncestorEdge(q, ordered[i]) \/ AnchorEdge(q, ordered[i])
  BY DEF AncestorEdge, AnchorEdge, parent_before_child, IncomingHardlink
<1>2. q \in Predecessors(ordered[i])
  BY <1>1 DEF Predecessors
<1> QED  BY <1>2 DEF LoopInvariant

\* Whatever order_active_nodes places comes after the effects it depends on:
\* incoming directories above it, everything below an object it replaces or
\* removes, and the entry a hard link needs.
THEOREM OrderAlwaysSafe == OrderSpec => []SafeOrder
BY LoopSafe, LoopInvariantHolds, PTL

\* As many paths placed as there are active ones are all of them.
LEMMA LoopComplete == LoopInvariant => CompleteOrder
<1> SUFFICES ASSUME LoopInvariant, phase = "ordered"
             PROVE  AllPlaced = active_nodes
  BY DEF LoopInvariant, CompleteOrder, AllPlaced
<1>1. AllPlaced \subseteq active_nodes
  BY DEF LoopInvariant, OrderTypeOK, AllPlaced, Placed
<1>2. Cardinality(AllPlaced) = Cardinality(active_nodes)
  BY DEF LoopInvariant
<1> QED  BY <1>1, <1>2, FiniteNodes, FS_Subset

\* An accepted order places every active path exactly once: counting the
\* placed paths is enough to recognise a cycle.
THEOREM OrderAlwaysComplete == OrderSpec => []CompleteOrder
BY LoopComplete, LoopInvariantHolds, PTL

\* The ready set holds every path that could have been placed.
LEMMA LoopCanonical == LoopInvariant => CanonicalOrder
BY DEF LoopInvariant

\* The order is a function of the plan: each position holds the least path
\* whose predecessors stand before it.
THEOREM OrderAlwaysCanonical == OrderSpec => []CanonicalOrder
BY LoopCanonical, LoopInvariantHolds, PTL

(***************************************************************************)
(* Cycles.                                                                 *)
(***************************************************************************)
Below(p) == {q \in Paths : <<p, q>> \in Above}

\* Any set of paths has a lowest member and a highest one.
LEMMA LowestAndHighest ==
  ASSUME NEW some \in SUBSET Paths, some # {}
  PROVE  /\ \E p \in some : \A q \in some : <<p, q>> \notin Above
         /\ \E p \in some : \A q \in some : <<q, p>> \notin Above
<1>1. /\ IsFiniteSet(Paths)
      /\ \A p \in Paths : <<p, p>> \notin Above
      /\ \A p, q, r \in Paths :
           <<p, q>> \in Above /\ <<q, r>> \in Above => <<p, r>> \in Above
  BY PathsAssumption
<1>2. IsWellFoundedOn(StrictSubsetOrdering(Paths), SUBSET Paths)
  <2>1. FiniteSubsetsOf(Paths) = SUBSET Paths
    BY <1>1, FS_FiniteSubsetsOfFinite
  <2>2. IsWellFoundedOn(StrictSubsetOrdering(Paths), FiniteSubsetsOf(Paths))
    BY FS_StrictSubsetOrderingWellFounded
  <2> QED BY <2>1, <2>2
<1>3. \E p \in some : \A q \in some : <<p, q>> \notin Above
  <2> DEFINE T == {Below(p) : p \in some}
  <2>1. T \subseteq SUBSET Paths /\ T # {}
    BY DEF Below
  <2>2. \E x \in T : \A y \in T : <<y, x>> \notin StrictSubsetOrdering(Paths)
    <3> HIDE DEF T
    <3> QED BY <1>2, <2>1, WFMin
  <2>3. PICK p \in some :
          \A q \in some : <<Below(q), Below(p)>> \notin StrictSubsetOrdering(Paths)
    BY <2>2
  <2>4. ASSUME NEW q \in some, <<p, q>> \in Above PROVE FALSE
    <3>1. Below(q) \subseteq Below(p) /\ q \in Below(p) /\ q \notin Below(q)
      BY <1>1, <2>4 DEF Below
    <3>2. Below(p) \subseteq Paths /\ Below(q) \subseteq Paths
      BY DEF Below
    <3> QED BY <2>3, <3>1, <3>2 DEF StrictSubsetOrdering
  <2> QED BY <2>4
<1>4. \E p \in some : \A q \in some : <<q, p>> \notin Above
  <2> DEFINE Over(p) == {q \in Paths : <<q, p>> \in Above}
             T == {Over(p) : p \in some}
  <2>1. T \subseteq SUBSET Paths /\ T # {}
    OBVIOUS
  <2>2. \E x \in T : \A y \in T : <<y, x>> \notin StrictSubsetOrdering(Paths)
    <3> HIDE DEF T
    <3> QED BY <1>2, <2>1, WFMin
  <2>3. PICK p \in some :
          \A q \in some : <<Over(q), Over(p)>> \notin StrictSubsetOrdering(Paths)
    BY <2>2
  <2>4. ASSUME NEW q \in some, <<q, p>> \in Above PROVE FALSE
    <3>1. Over(q) \subseteq Over(p) /\ q \in Over(p) /\ q \notin Over(q)
      BY <1>1, <2>4
    <3>2. Over(p) \subseteq Paths /\ Over(q) \subseteq Paths
      OBVIOUS
    <3> QED BY <2>3, <3>1, <3>2 DEF StrictSubsetOrdering
  <2> QED BY <2>4
<1> QED BY <1>3, <1>4

\* The nodes that can be placed after the incoming directories: an entry that
\* is not a directory, with what is removed below it, then the hard links,
\* then the rest.
InEntry(p) ==
  \/ plan[p].entry \in {"regular", "symlink"}
  \/ /\ plan[p].entry = "none"
     /\ \E r \in Paths : <<r, p>> \in Above /\ plan[r].entry \notin {"none", "directory"}

\* In a sealed image no set of nodes can wait for each other: the loop stops
\* early only for a malformed one.
LEMMA SomeNodeFree ==
  ASSUME NEW some \in SUBSET active_nodes, some # {},
         plan \in [Paths -> Decision], ~MalformedImage,
         \A p \in Paths : IncomingHardlink(p) => plan[p].anchor # NoPath
  PROVE  \E p \in some : Predecessors(p) \cap some = {}
<1>1. /\ some \subseteq Paths
      /\ \A p, q, r \in Paths :
           <<p, q>> \in Above /\ <<q, r>> \in Above => <<p, r>> \in Above
  BY PathsAssumption DEF active_nodes
<1>2. \A p \in Paths : plan[p].entry \in EntryType \cup {"none"}
  BY DEF Decision
<1>3. \A p, q \in Paths :
        <<p, q>> \in Above /\ plan[p].entry \notin {"none", "directory"} =>
          plan[q].entry = "none"
  BY DEF MalformedImage
<1>4. \A p \in Paths :
        plan[p].entry = "hardlink" /\ plan[p].anchor # NoPath =>
          plan[plan[p].anchor].entry = "regular"
  BY DEF MalformedImage
\* What a node waits for.
<1>5. ASSUME NEW p \in some, NEW q \in some, q \in Predecessors(p)
      PROVE  \/ <<q, p>> \in Above /\ parent_before_child(q)
             \/ <<p, q>> \in Above /\ ~parent_before_child(p)
             \/ plan[p].entry = "hardlink" /\ plan[q].entry = "regular"
                /\ ~parent_before_child(p)
  BY <1>1, <1>4, <1>5 DEF Predecessors, AncestorEdge, AnchorEdge,
                          parent_before_child, IncomingHardlink
<1>6. CASE \E p \in some : parent_before_child(p)
  <2> DEFINE dirs == {p \in some : parent_before_child(p)}
  <2>1. dirs \in SUBSET Paths /\ dirs # {}
    BY <1>1, <1>6
  <2>2. PICK p \in dirs : \A q \in dirs : <<q, p>> \notin Above
    <3> HIDE DEF dirs
    <3> QED BY <2>1, LowestAndHighest
  <2> QED BY <1>5, <2>2
<1>7. CASE /\ ~\E p \in some : parent_before_child(p)
           /\ \E p \in some : InEntry(p)
  <2> DEFINE inside == {p \in some : InEntry(p)}
  <2>1. inside \in SUBSET Paths /\ inside # {}
    BY <1>1, <1>7
  <2>2. PICK p \in inside : \A q \in inside : <<p, q>> \notin Above
    <3> HIDE DEF inside
    <3> QED BY <2>1, LowestAndHighest
  <2>3. ASSUME NEW q \in some, q \in Predecessors(p) PROVE FALSE
    <3>1. <<p, q>> \in Above
      BY <1>5, <1>7, <2>2, <2>3 DEF InEntry
    <3>2. plan[q].entry = "none"
          /\ \E r \in Paths : <<r, q>> \in Above
                              /\ plan[r].entry \notin {"none", "directory"}
      <4>1. CASE plan[p].entry \in {"regular", "symlink"}
        BY <1>1, <1>3, <2>2, <3>1, <4>1
      <4>2. CASE plan[p].entry = "none"
        <5>1. PICK r \in Paths : <<r, p>> \in Above
                                 /\ plan[r].entry \notin {"none", "directory"}
          BY <2>2, <4>2 DEF InEntry
        <5>2. <<r, q>> \in Above
          BY <1>1, <2>2, <3>1, <5>1
        <5> QED BY <1>1, <1>3, <5>1, <5>2
      <4> QED BY <2>2, <4>1, <4>2 DEF InEntry
    <3>3. InEntry(q)
      BY <3>2 DEF InEntry
    <3> QED BY <2>2, <2>3, <3>1, <3>3
  <2> QED BY <2>2, <2>3
<1>8. CASE /\ ~\E p \in some : parent_before_child(p) \/ InEntry(p)
           /\ \E p \in some : plan[p].entry = "hardlink"
  <2>1. PICK p \in some : plan[p].entry = "hardlink"
    BY <1>8
  <2>2. ASSUME NEW q \in some, q \in Predecessors(p) PROVE FALSE
    <3>1. <<p, q>> \in Above \/ plan[q].entry = "regular"
      BY <1>5, <1>8, <2>2
    <3>2. InEntry(q)
      BY <1>1, <1>3, <2>1, <3>1 DEF InEntry
    <3> QED BY <1>8, <3>2
  <2> QED BY <2>1, <2>2
<1>9. CASE ~\E p \in some : \/ parent_before_child(p) \/ InEntry(p)
                            \/ plan[p].entry = "hardlink"
  <2>1. PICK p \in some : \A q \in some : <<p, q>> \notin Above
    BY <1>1, LowestAndHighest
  <2> QED BY <1>5, <1>9, <2>1
<1> QED BY <1>6, <1>7, <1>8, <1>9

\* Counters that never reach zero are those of paths that wait for each other.
LEMMA LoopCycles == LoopInvariant => CycleOnlyIfMalformed
<1> SUFFICES ASSUME LoopInvariant, phase = "cycle", ~MalformedImage
             PROVE  FALSE
  BY DEF CycleOnlyIfMalformed
<1> DEFINE left == active_nodes \ AllPlaced
<1>1. /\ ready = {} /\ Len(ordered) # Cardinality(active_nodes)
      /\ AnchorsGiven /\ OrderTypeOK
      /\ Cardinality(AllPlaced) = Len(ordered)
  BY DEF LoopInvariant
<1>2. left # {}
  <2>1. ordered \in Seq(active_nodes)
    BY <1>1 DEF OrderTypeOK
  <2>2. AllPlaced \subseteq active_nodes
    BY <2>1 DEF AllPlaced, Placed
  <2>3. AllPlaced # active_nodes
    BY <1>1
  <2> QED BY <2>2, <2>3
<1>3. PICK p \in left : Predecessors(p) \cap left = {}
  <2>1. left \in SUBSET active_nodes
    OBVIOUS
  <2>2. plan \in [Paths -> Decision]
    BY <1>1 DEF OrderTypeOK
  <2>3. \A q \in Paths : IncomingHardlink(q) => plan[q].anchor # NoPath
    BY <1>1 DEF AnchorsGiven
  <2> HIDE DEF left
  <2> QED BY <1>2, <2>1, <2>2, <2>3, SomeNodeFree
<1>4. Pending(p) = {}
  BY <1>3 DEF Pending, Predecessors
<1>5. indegree[p] = 0
  BY <1>3, <1>4, FS_EmptySet DEF LoopInvariant
<1>6. p \in ready
  BY <1>3, <1>5 DEF LoopInvariant
<1> QED BY <1>1, <1>6

\* A cycle that order_active_nodes reports is an image's fault: the tests on
\* removals, replacements and hard links never block each other.
THEOREM CyclesAreMalformed == OrderSpec => []CycleOnlyIfMalformed
BY LoopCycles, LoopInvariantHolds, PTL

(***************************************************************************)
(* The frozen schedule.                                                    *)
(***************************************************************************)

\* Sorting a set of paths loses none and adds none.
LEMMA PathOrderListsAll ==
  ASSUME NEW paths \in SUBSET Paths
  PROVE  /\ InPathOrder(paths) \in Seq(paths)
         /\ Len(InPathOrder(paths)) \in Nat
         /\ DOMAIN InPathOrder(paths) = 1 .. Len(InPathOrder(paths))
         /\ \A p \in paths : \E i \in 1 .. Len(InPathOrder(paths)) :
              InPathOrder(paths)[i] = p
<1> DEFINE UpTo(p) == {q \in paths : Rank[q] <= Rank[p]}
           n == Cardinality(paths)
           place == [p \in paths |-> Cardinality(UpTo(p))]
           s == InPathOrder(paths)
<1>1. IsFiniteSet(paths) /\ n \in Nat
  BY PathsAssumption, FS_Subset, FS_CardinalityType
<1>2. /\ \A p \in paths : Rank[p] \in Nat
      /\ \A p, q \in paths : Rank[p] = Rank[q] => p = q
  BY PathsAssumption
<1>3. \A p \in paths : /\ IsFiniteSet(UpTo(p)) /\ Cardinality(UpTo(p)) \in 1 .. n
  <2> SUFFICES ASSUME NEW p \in paths
               PROVE  IsFiniteSet(UpTo(p)) /\ Cardinality(UpTo(p)) \in 1 .. n
    OBVIOUS
  <2>1. UpTo(p) \in SUBSET paths /\ p \in UpTo(p)
    BY <1>2
  <2> HIDE DEF UpTo
  <2>2. IsFiniteSet(UpTo(p)) /\ Cardinality(UpTo(p)) <= n
    BY <1>1, <2>1, FS_Subset
  <2>3. Cardinality(UpTo(p)) \in Nat /\ Cardinality(UpTo(p)) # 0
    BY <2>1, <2>2, FS_CardinalityType, FS_EmptySet
  <2> QED BY <1>1, <2>2, <2>3
<1>4. ASSUME NEW p \in paths, NEW q \in paths, Rank[p] < Rank[q]
      PROVE  Cardinality(UpTo(p)) # Cardinality(UpTo(q))
  <2>1. UpTo(p) \in SUBSET UpTo(q) /\ q \in UpTo(q) /\ q \notin UpTo(p)
    BY <1>2, <1>4
  <2>2. IsFiniteSet(UpTo(q))
    BY <1>3
  <2> HIDE DEF UpTo
  <2> QED BY <2>1, <2>2, FS_Subset
<1>5. place \in Injection(paths, 1 .. n)
  <2>1. place \in [paths -> 1 .. n]
    BY <1>3
  <2>2. \A p, q \in paths : place[p] = place[q] => p = q
    <3> SUFFICES ASSUME NEW p \in paths, NEW q \in paths, p # q
                 PROVE  Cardinality(UpTo(p)) # Cardinality(UpTo(q))
      OBVIOUS
    <3>1. Rank[p] < Rank[q] \/ Rank[q] < Rank[p]
      BY <1>2
    <3> HIDE DEF UpTo
    <3> QED BY <1>4, <3>1
  <2> HIDE DEF place
  <2> QED BY <2>1, <2>2 DEF Injection, IsInjective
<1>6. IsFiniteSet(1 .. n) /\ Cardinality(1 .. n) = n
  BY <1>1, FS_Interval
<1>7. place \in Surjection(paths, 1 .. n)
  <2> HIDE DEF place, n
  <2>1. n = Cardinality(paths)
    BY DEF n
  <2> QED BY <1>5, <1>6, <2>1, FS_Injection
<1>8. \A i \in 1 .. n : \E p \in paths : Cardinality(UpTo(p)) = i
  <2>1. \A i \in 1 .. n : \E p \in paths : place[p] = i
    <3> HIDE DEF place
    <3> QED BY <1>7 DEF Surjection
  <2> QED BY <2>1
<1>9. s = [i \in 1 .. n |-> CHOOSE p \in paths : Cardinality(UpTo(p)) = i]
  BY DEF InPathOrder
<1>10. \A i \in 1 .. n : s[i] \in paths /\ Cardinality(UpTo(s[i])) = i
  BY <1>8, <1>9
<1>11. s \in [1 .. n -> paths]
  BY <1>9, <1>10
<1>12. s \in Seq(paths) /\ Len(s) = n
  BY <1>1, <1>11
<1>13. ASSUME NEW p \in paths
       PROVE  \E i \in 1 .. n : s[i] = p
  <2> DEFINE i == Cardinality(UpTo(p))
  <2>1. i \in 1 .. n /\ s[i] \in paths /\ place[s[i]] = place[p]
    BY <1>3, <1>10
  <2>2. s[i] = p
    <3> HIDE DEF place, s, i
    <3> QED BY <1>5, <2>1 DEF Injection, IsInjective
  <2> QED BY <2>1, <2>2
<1> HIDE DEF s, n
<1>14. DOMAIN s = 1 .. Len(s)
  BY <1>11, <1>12
<1> QED BY <1>1, <1>12, <1>13, <1>14 DEF s

StepKinds == {"capture_old_object", "stage_regular_payload",
              "publish_rejected_object", "publish_active_object",
              "observe_result"}

\* When the steps of a kind come, and which paths have one.
TurnOf(kind) == CASE kind = "capture_old_object"      -> 1
                  [] kind = "stage_regular_payload"   -> 2
                  [] kind = "publish_rejected_object" -> 3
                  [] kind = "publish_active_object"   -> 4
                  [] kind = "observe_result"          -> 5
SubjectsOf(kind) ==
  CASE kind = "capture_old_object"      -> CaptureRequests
    [] kind = "stage_regular_payload"   -> PayloadEntries
    [] kind = "publish_rejected_object" -> {p \in Paths : plan[p].rejected # "none"}
    [] kind = "publish_active_object"   -> active_nodes
    [] kind = "observe_result"          -> Paths

Steps == [kind : StepKinds, path : Paths]

\* A part of the schedule that holds the steps of these kinds, all of them, one
\* kind after the other.
Lists(part, kinds) ==
  /\ part \in Seq(Steps)
  /\ \A i \in 1 .. Len(part) : part[i].kind \in kinds
                               /\ part[i].path \in SubjectsOf(part[i].kind)
  /\ \A k \in kinds : \A p \in SubjectsOf(k) :
       \E i \in 1 .. Len(part) : part[i].kind = k /\ part[i].path = p
  /\ \A i, j \in 1 .. Len(part) :
       i < j => TurnOf(part[i].kind) <= TurnOf(part[j].kind)

\* Turns are small numbers.
LEMMA TurnsTyped == \A k \in StepKinds : TurnOf(k) \in 1 .. 5
BY DEF StepKinds, TurnOf

\* A step and its parts.
StepOf(k, p) == [kind |-> k, path |-> p]

\* What a step is made of.
LEMMA StepParts ==
  /\ \A k, p : StepOf(k, p).kind = k /\ StepOf(k, p).path = p
  /\ \A k \in StepKinds, p \in Paths : StepOf(k, p) \in Steps
BY DEF StepOf, Steps

\* The steps of one kind.
LEMMA ListsOneKind ==
  ASSUME NEW kind \in StepKinds, SubjectsOf(kind) \subseteq Paths,
         NEW order \in Seq(SubjectsOf(kind)),
         \A p \in SubjectsOf(kind) : \E i \in 1 .. Len(order) : order[i] = p
  PROVE  /\ Lists(OfKind(kind, order), {kind})
         /\ Len(OfKind(kind, order)) = Len(order)
         /\ \A i \in 1 .. Len(order) :
              OfKind(kind, order)[i] = StepOf(kind, order[i])
<1> DEFINE part == OfKind(kind, order)
<1>1. DOMAIN order = 1 .. Len(order) /\ Len(order) \in Nat
      /\ \A i \in 1 .. Len(order) : order[i] \in SubjectsOf(kind)
  OBVIOUS
<1>2. part = [i \in 1 .. Len(order) |-> StepOf(kind, order[i])]
  BY <1>1 DEF OfKind, StepOf
<1> HIDE DEF part
<1>3. \A i \in 1 .. Len(order) : part[i] = StepOf(kind, order[i])
  BY <1>2
<1>4. \A i \in 1 .. Len(order) : part[i] \in Steps
  BY <1>1, <1>3, StepParts
<1>5. part \in [1 .. Len(order) -> Steps]
  BY <1>2, <1>4
<1>6. part \in Seq(Steps) /\ Len(part) = Len(order)
  BY <1>1, <1>5
<1>7. \A i \in 1 .. Len(order) : part[i].kind = kind /\ part[i].path = order[i]
  BY <1>3, StepParts
<1>8. \A i, j \in 1 .. Len(part) :
        i < j => TurnOf(part[i].kind) <= TurnOf(part[j].kind)
  BY <1>6, <1>7, TurnsTyped
<1>9. Lists(part, {kind})
  BY <1>1, <1>6, <1>7, <1>8 DEF Lists
<1> QED BY <1>3, <1>6, <1>9 DEF part

\* Two sequences, one after the other.
LEMMA JoinedAt ==
  ASSUME NEW s \in Seq(Steps), NEW t \in Seq(Steps)
  PROVE  /\ s \o t \in Seq(Steps) /\ Len(s \o t) = Len(s) + Len(t)
         /\ Len(s) \in Nat /\ Len(t) \in Nat
         /\ \A i \in 1 .. Len(s) : (s \o t)[i] = s[i]
         /\ \A i \in 1 .. Len(t) : (s \o t)[Len(s) + i] = t[i]
OBVIOUS

\* One part after another.
LEMMA ListsJoined ==
  ASSUME NEW K \in SUBSET StepKinds, NEW L \in SUBSET StepKinds,
         NEW s, NEW t, Lists(s, K), Lists(t, L),
         \A k \in K, l \in L : TurnOf(k) < TurnOf(l)
  PROVE  Lists(s \o t, K \cup L)
<1> DEFINE st == s \o t
           m == Len(s)
           n == Len(t)
<1>1. s \in Seq(Steps) /\ t \in Seq(Steps) /\ m \in Nat /\ n \in Nat
  BY DEF Lists
<1>2. /\ st \in Seq(Steps) /\ Len(st) = m + n
      /\ \A i \in 1 .. m : st[i] = s[i]
      /\ \A i \in 1 .. n : st[m + i] = t[i]
  BY <1>1
<1> HIDE DEF st
<1>3. \A i \in 1 .. Len(st) : \/ i \in 1 .. m /\ st[i] = s[i]
                              \/ i > m /\ i - m \in 1 .. n /\ st[i] = t[i - m]
  <2> SUFFICES ASSUME NEW i \in 1 .. Len(st), i > m
               PROVE  i - m \in 1 .. n /\ st[i] = t[i - m]
    BY <1>1, <1>2
  <2>1. i - m \in 1 .. n /\ m + (i - m) = i
    BY <1>1, <1>2
  <2> QED BY <1>2, <2>1
<1>4. \A i \in 1 .. m : s[i].kind \in K /\ s[i].path \in SubjectsOf(s[i].kind)
  BY DEF Lists
<1>5. \A i \in 1 .. n : t[i].kind \in L /\ t[i].path \in SubjectsOf(t[i].kind)
  BY DEF Lists
<1>6. \A i \in 1 .. Len(st) : st[i].kind \in K \cup L
                              /\ st[i].path \in SubjectsOf(st[i].kind)
  BY <1>3, <1>4, <1>5
<1>7. ASSUME NEW k \in K \cup L, NEW p \in SubjectsOf(k)
      PROVE  \E i \in 1 .. Len(st) : st[i].kind = k /\ st[i].path = p
  <2>1. CASE k \in K
    <3>1. PICK i \in 1 .. m : s[i].kind = k /\ s[i].path = p
      BY <2>1 DEF Lists
    <3>2. i \in 1 .. Len(st) /\ st[i] = s[i]
      BY <1>1, <1>2, <3>1
    <3> QED BY <3>1, <3>2
  <2>2. CASE k \in L
    <3>1. PICK i \in 1 .. n : t[i].kind = k /\ t[i].path = p
      BY <2>2 DEF Lists
    <3>2. m + i \in 1 .. Len(st) /\ st[m + i] = t[i]
      BY <1>1, <1>2, <3>1
    <3> QED BY <3>1, <3>2
  <2> QED BY <2>1, <2>2
<1>8. ASSUME NEW i \in 1 .. Len(st), NEW j \in 1 .. Len(st), i < j
      PROVE  TurnOf(st[i].kind) <= TurnOf(st[j].kind)
  <2>1. CASE i \in 1 .. m /\ j \in 1 .. m
    BY <1>2, <1>8, <2>1 DEF Lists
  <2>2. CASE i \in 1 .. m /\ j > m
    <3>1. st[i].kind \in K
      BY <1>2, <1>4, <2>2
    <3>2. st[j].kind \in L
      BY <1>1, <1>3, <1>5, <2>2
    <3> QED BY <3>1, <3>2, TurnsTyped
  <2>3. CASE i > m /\ j > m
    <3>1. /\ i - m \in 1 .. n /\ st[i] = t[i - m]
          /\ j - m \in 1 .. n /\ st[j] = t[j - m] /\ i - m < j - m
      BY <1>1, <1>2, <1>3, <1>8, <2>3
    <3>2. \A x, y \in 1 .. n : x < y => TurnOf(t[x].kind) <= TurnOf(t[y].kind)
      BY DEF Lists
    <3> QED BY <3>1, <3>2
  <2>4. \/ i \in 1 .. m /\ j \in 1 .. m
        \/ i \in 1 .. m /\ j > m
        \/ i > m /\ j > m
    BY <1>1, <1>2, <1>8
  <2> QED BY <2>1, <2>2, <2>3, <2>4
<1> QED BY <1>2, <1>6, <1>7, <1>8 DEF Lists, st

\* What a plan must be for a schedule to be frozen.
Accepted == /\ LoopInvariant /\ phase = "ordered"
            /\ CapturesValid /\ PayloadsValid

\* Every path with a step is a path of the plan.
LEMMA SubjectsArePaths ==
  ASSUME PayloadsValid, NEW kind \in StepKinds
  PROVE  SubjectsOf(kind) \subseteq Paths
<1>1. CaptureRequests \subseteq Paths
  BY DEF CaptureRequests
<1>2. PayloadEntries \subseteq Paths
  BY DEF PayloadEntries, PayloadsValid
<1>3. active_nodes \subseteq Paths
  BY DEF active_nodes
<1> QED BY <1>1, <1>2, <1>3 DEF SubjectsOf, StepKinds

\* prepare lists every step the plan needs, kind after kind, and the active
\* effects in the order of the sort.
LEMMA PrepareLists ==
  ASSUME Accepted
  PROVE  /\ Lists(prepare, StepKinds)
         /\ \E a \in Nat :
              /\ \A j \in 1 .. Len(ordered) :
                   /\ a + j \in 1 .. Len(prepare)
                   /\ prepare[a + j].kind = "publish_active_object"
                   /\ prepare[a + j].path = ordered[j]
              /\ \A i \in 1 .. Len(prepare) :
                   prepare[i].kind = "publish_active_object" =>
                     i - a \in 1 .. Len(ordered) /\ prepare[i].path = ordered[i - a]
<1> DEFINE c == OfKind("capture_old_object", InPathOrder(CaptureRequests))
           s == OfKind("stage_regular_payload", InPathOrder(PayloadEntries))
           r == OfKind("publish_rejected_object",
                       InPathOrder({p \in Paths : plan[p].rejected # "none"}))
           e == OfKind("publish_active_object", ordered)
           o == OfKind("observe_result", InPathOrder(Paths))
<1>1. \A k \in StepKinds : SubjectsOf(k) \in SUBSET Paths
  BY SubjectsArePaths DEF Accepted
<1>2. ASSUME NEW k \in StepKinds
      PROVE  Lists(OfKind(k, InPathOrder(SubjectsOf(k))), {k})
  <2> DEFINE order == InPathOrder(SubjectsOf(k))
  <2>1. /\ order \in Seq(SubjectsOf(k))
        /\ \A p \in SubjectsOf(k) : \E i \in 1 .. Len(order) : order[i] = p
    BY <1>1, PathOrderListsAll
  <2> HIDE DEF order
  <2>2. Lists(OfKind(k, order), {k})
    BY <1>1, <2>1, ListsOneKind
  <2> QED BY <2>2 DEF order
<1>3. /\ Lists(c, {"capture_old_object"}) /\ Lists(s, {"stage_regular_payload"})
      /\ Lists(r, {"publish_rejected_object"}) /\ Lists(o, {"observe_result"})
  <2>1. /\ SubjectsOf("capture_old_object") = CaptureRequests
        /\ SubjectsOf("stage_regular_payload") = PayloadEntries
        /\ SubjectsOf("publish_rejected_object")
             = {p \in Paths : plan[p].rejected # "none"}
        /\ SubjectsOf("observe_result") = Paths
    BY DEF SubjectsOf
  <2>2. {"capture_old_object", "stage_regular_payload",
         "publish_rejected_object", "observe_result"} \subseteq StepKinds
    BY DEF StepKinds
  <2> QED BY <1>2, <2>1, <2>2
<1>4. /\ Lists(e, {"publish_active_object"}) /\ Len(e) = Len(ordered)
      /\ \A i \in 1 .. Len(ordered) : e[i] = StepOf("publish_active_object", ordered[i])
  <2>1. SubjectsOf("publish_active_object") = active_nodes
        /\ "publish_active_object" \in StepKinds
    BY DEF SubjectsOf, StepKinds
  <2>2. ordered \in Seq(active_nodes) /\ AllPlaced = active_nodes
    BY LoopComplete DEF Accepted, LoopInvariant, OrderTypeOK, CompleteOrder, AllPlaced
  <2>3. \A p \in active_nodes : \E i \in 1 .. Len(ordered) : ordered[i] = p
    BY <2>2 DEF AllPlaced, Placed
  <2> QED BY <1>1, <2>1, <2>2, <2>3, ListsOneKind
<1>5. prepare = (((c \o s) \o r) \o e) \o o
  BY DEF prepare
<1> HIDE DEF c, s, r, e, o
<1> DEFINE K1 == {"capture_old_object"}
           K2 == {"stage_regular_payload"}
           K3 == {"publish_rejected_object"}
           K4 == {"publish_active_object"}
           K5 == {"observe_result"}
<1>6. /\ K1 \in SUBSET StepKinds /\ K2 \in SUBSET StepKinds /\ K3 \in SUBSET StepKinds
      /\ K4 \in SUBSET StepKinds /\ K5 \in SUBSET StepKinds
      /\ K1 \cup K2 \in SUBSET StepKinds /\ (K1 \cup K2) \cup K3 \in SUBSET StepKinds
      /\ ((K1 \cup K2) \cup K3) \cup K4 \in SUBSET StepKinds
      /\ (((K1 \cup K2) \cup K3) \cup K4) \cup K5 = StepKinds
  BY DEF StepKinds
<1>7. /\ \A k \in K1, l \in K2 : TurnOf(k) < TurnOf(l)
      /\ \A k \in K1 \cup K2, l \in K3 : TurnOf(k) < TurnOf(l)
      /\ \A k \in (K1 \cup K2) \cup K3, l \in K4 : TurnOf(k) < TurnOf(l)
      /\ \A k \in ((K1 \cup K2) \cup K3) \cup K4, l \in K5 : TurnOf(k) < TurnOf(l)
  BY DEF TurnOf
<1>8. Lists(c, K1) /\ Lists(s, K2) /\ Lists(r, K3) /\ Lists(e, K4) /\ Lists(o, K5)
  BY <1>3, <1>4
<1>9. "publish_active_object" \notin (K1 \cup K2) \cup K3
      /\ "publish_active_object" \notin K5
  OBVIOUS
<1>9a. \A k \in K4 : k = "publish_active_object"
  OBVIOUS
<1> HIDE DEF K1, K2, K3, K4, K5
<1>10. Lists(c \o s, K1 \cup K2)
  BY <1>6, <1>7, <1>8, ListsJoined
<1>11. Lists((c \o s) \o r, (K1 \cup K2) \cup K3)
  BY <1>6, <1>7, <1>8, <1>10, ListsJoined
<1> DEFINE front == (c \o s) \o r
<1>12. Lists(front, (K1 \cup K2) \cup K3)
  BY <1>11
<1> HIDE DEF front
<1>13. Lists(front \o e, ((K1 \cup K2) \cup K3) \cup K4)
  BY <1>6, <1>7, <1>8, <1>12, ListsJoined
<1>14. Lists((front \o e) \o o, (((K1 \cup K2) \cup K3) \cup K4) \cup K5)
  BY <1>6, <1>7, <1>8, <1>13, ListsJoined
<1>15. prepare = (front \o e) \o o
  BY <1>5 DEF front
<1>16. Lists(prepare, StepKinds)
  BY <1>6, <1>14, <1>15
<1> DEFINE a == Len(front)
<1>17. /\ front \in Seq(Steps) /\ e \in Seq(Steps) /\ o \in Seq(Steps)
       /\ a \in Nat /\ Len(o) \in Nat
       /\ \A i \in 1 .. a : front[i].kind \in (K1 \cup K2) \cup K3
       /\ \A i \in 1 .. Len(o) : o[i].kind \in K5
  BY <1>8, <1>12 DEF Lists
<1>18. Len(e) = Len(ordered) /\ Len(ordered) \in Nat
  BY <1>4, <1>17
<1>19. /\ Len(prepare) = a + Len(ordered) + Len(o)
       /\ \A i \in 1 .. a : prepare[i] = front[i]
       /\ \A i \in 1 .. Len(ordered) : prepare[a + i] = e[i]
       /\ \A i \in 1 .. Len(o) : prepare[a + Len(ordered) + i] = o[i]
  <2> DEFINE fe == front \o e
  <2>1. /\ fe \in Seq(Steps) /\ Len(fe) = a + Len(ordered)
        /\ \A i \in 1 .. a : fe[i] = front[i]
        /\ \A i \in 1 .. Len(ordered) : fe[a + i] = e[i]
    <3>1. front \in Seq(Steps) /\ e \in Seq(Steps)
      BY <1>17
    <3>2. /\ fe \in Seq(Steps) /\ Len(fe) = Len(front) + Len(e)
          /\ \A i \in 1 .. Len(front) : fe[i] = front[i]
          /\ \A i \in 1 .. Len(e) : fe[Len(front) + i] = e[i]
      BY <3>1, JoinedAt
    <3> QED BY <1>18, <3>2
  <2>2. prepare = fe \o o
    BY <1>15
  <2> HIDE DEF fe
  <2>3. /\ Len(prepare) = Len(fe) + Len(o)
        /\ \A i \in 1 .. Len(fe) : prepare[i] = fe[i]
        /\ \A i \in 1 .. Len(o) : prepare[Len(fe) + i] = o[i]
    <3>1. fe \in Seq(Steps) /\ o \in Seq(Steps)
      BY <1>17, <2>1
    <3>2. /\ Len(fe \o o) = Len(fe) + Len(o)
          /\ \A i \in 1 .. Len(fe) : (fe \o o)[i] = fe[i]
          /\ \A i \in 1 .. Len(o) : (fe \o o)[Len(fe) + i] = o[i]
      BY <3>1, JoinedAt
    <3> QED BY <2>2, <3>2
  <2> HIDE DEF a
  <2>4. \A i \in 1 .. a : i \in 1 .. Len(fe)
    BY <1>17, <1>18, <2>1
  <2>5. \A i \in 1 .. a : prepare[i] = front[i]
    BY <2>1, <2>3, <2>4
  <2>6. \A i \in 1 .. Len(ordered) : a + i \in 1 .. Len(fe)
    BY <1>17, <1>18, <2>1
  <2>7. \A i \in 1 .. Len(ordered) : prepare[a + i] = e[i]
    BY <2>1, <2>3, <2>6
  <2> QED BY <2>1, <2>3, <2>5, <2>7
<1>20. \A j \in 1 .. Len(ordered) :
         /\ a + j \in 1 .. Len(prepare)
         /\ prepare[a + j].kind = "publish_active_object"
         /\ prepare[a + j].path = ordered[j]
  <2> SUFFICES ASSUME NEW j \in 1 .. Len(ordered)
               PROVE  /\ a + j \in 1 .. Len(prepare)
                      /\ prepare[a + j].kind = "publish_active_object"
                      /\ prepare[a + j].path = ordered[j]
    OBVIOUS
  <2>1. prepare[a + j] = StepOf("publish_active_object", ordered[j])
    BY <1>4, <1>19
  <2>2. a + j \in 1 .. Len(prepare)
    BY <1>17, <1>18, <1>19
  <2> QED BY <2>1, <2>2, StepParts
<1>21. ASSUME NEW i \in 1 .. Len(prepare), prepare[i].kind = "publish_active_object"
       PROVE  i - a \in 1 .. Len(ordered)
  <2>1. i \notin 1 .. a
    BY <1>9, <1>17, <1>19, <1>21
  <2>2. \A j \in 1 .. Len(o) : i # a + Len(ordered) + j
    BY <1>9, <1>17, <1>19, <1>21
  <2>3. ~(i > a + Len(ordered))
    <3> SUFFICES ASSUME i > a + Len(ordered) PROVE FALSE
      OBVIOUS
    <3> DEFINE j == i - (a + Len(ordered))
    <3>1. j \in 1 .. Len(o) /\ i = a + Len(ordered) + j
      BY <1>17, <1>18, <1>19
    <3> QED BY <2>2, <3>1
  <2> QED BY <1>17, <1>18, <1>19, <2>1, <2>3
<1>22. \A i \in 1 .. Len(prepare) : prepare[i].kind = "publish_active_object" =>
         i - a \in 1 .. Len(ordered) /\ prepare[i].path = ordered[i - a]
  <2> SUFFICES ASSUME NEW i \in 1 .. Len(prepare),
                      prepare[i].kind = "publish_active_object"
               PROVE  i - a \in 1 .. Len(ordered) /\ prepare[i].path = ordered[i - a]
    OBVIOUS
  <2>1. i - a \in 1 .. Len(ordered)
    BY <1>21
  <2>2. a + (i - a) = i
    BY <1>17
  <2> QED BY <1>20, <2>1, <2>2
<1> HIDE DEF a
<1> QED BY <1>16, <1>17, <1>20, <1>22

(***************************************************************************)
(* Carrying it out.                                                        *)
(***************************************************************************)

\* What an executed active effect leaves at its path.
Left(p) == IF parent_before_child(p) THEN "directory"
           ELSE IF plan[p].active = "activate_incoming" THEN "other"
           ELSE IF plan[p].active = "remove_directory_if_empty" /\ Occupied(p)
           THEN plan[p].before
           ELSE "absent"

\* The steps are those of prepare, for a plan whose captures and payloads were
\* derived.
ScheduleFrozen ==
  /\ phase = "ordered" => CapturesValid /\ PayloadsValid
  /\ steps = << >> \/ (steps = prepare /\ phase = "ordered")
  /\ position \in 0 .. Len(steps)

\* The world is what the executed steps made of it.
WorldKept ==
  /\ captured = [p \in Paths |-> IF p \in Executed("capture_old_object")
                                 THEN plan[p].before ELSE NotSeen]
  /\ staged = Executed("stage_regular_payload")
  /\ rejects = Executed("publish_rejected_object")
  /\ namespace \in [Paths -> Kind]
  /\ \A p \in Paths : namespace[p] = IF p \in Executed("publish_active_object")
                                     THEN Left(p) ELSE plan[p].before
  /\ observed \in [Paths -> Kind \cup {NotSeen}]
  /\ \A p \in Executed("observe_result") : observed[p] = namespace[p]

ScheduleInvariant ==
  LoopInvariant /\ plan \in Plans /\ ScheduleFrozen /\ WorldKept

\* Membership in Executed, without its set constructor.
LEMMA ExecutedSteps ==
  \A k, p : p \in Executed(k) <=>
    \E i \in 1 .. position : steps[i].kind = k /\ steps[i].path = p
BY DEF Executed

\* Kinds of steps are executed one after the other, each as far as it goes.
LEMMA ExecutedInTurn ==
  ASSUME LoopInvariant, ScheduleFrozen
  PROVE  /\ \A k \in StepKinds : Executed(k) \subseteq SubjectsOf(k)
         /\ \A k, l \in StepKinds : TurnOf(k) < TurnOf(l) /\ Executed(l) # {} =>
              Executed(k) = SubjectsOf(k)
         /\ steps # << >> /\ position = Len(steps) =>
              \A k \in StepKinds : Executed(k) = SubjectsOf(k)
<1>1. CASE steps = << >>
  <2>1. position = 0
    BY <1>1 DEF ScheduleFrozen
  <2>2. \A k : Executed(k) = {}
    BY <2>1 DEF Executed
  <2> QED BY <1>1, <2>2
<1>2. CASE steps = prepare /\ phase = "ordered"
  <2>1. Accepted
    BY <1>2 DEF ScheduleFrozen, Accepted
  <2>2. Lists(steps, StepKinds)
    BY <1>2, <2>1, PrepareLists
  <2>3. position \in Nat /\ position <= Len(steps) /\ Len(steps) \in Nat
    BY <2>2 DEF ScheduleFrozen, Lists
  <2>4. \A k \in StepKinds : Executed(k) \subseteq SubjectsOf(k)
    <3> SUFFICES ASSUME NEW k \in StepKinds, NEW p \in Executed(k)
                 PROVE  p \in SubjectsOf(k)
      OBVIOUS
    <3>1. PICK i \in 1 .. position : steps[i].kind = k /\ steps[i].path = p
      BY ExecutedSteps
    <3>2. i \in 1 .. Len(steps)
      BY <2>3
    <3> QED BY <2>2, <3>1, <3>2 DEF Lists
  <2>5. ASSUME NEW k \in StepKinds, NEW p \in SubjectsOf(k), p \notin Executed(k)
        PROVE  \E j \in 1 .. Len(steps) : j > position /\ steps[j].kind = k
    <3>1. PICK j \in 1 .. Len(steps) : steps[j].kind = k /\ steps[j].path = p
      BY <2>2 DEF Lists
    <3>2. j \notin 1 .. position
      BY <2>5, <3>1, ExecutedSteps
    <3> QED BY <2>3, <3>1, <3>2
  <2>6. ASSUME NEW k \in StepKinds, NEW l \in StepKinds, TurnOf(k) < TurnOf(l),
               Executed(l) # {}
        PROVE  Executed(k) = SubjectsOf(k)
    <3> SUFFICES ASSUME NEW p \in SubjectsOf(k), p \notin Executed(k) PROVE FALSE
      BY <2>4
    <3>1. PICK j \in 1 .. Len(steps) : j > position /\ steps[j].kind = k
      BY <2>5
    <3>2. PICK i \in 1 .. position : steps[i].kind = l
      BY <2>6, ExecutedSteps
    <3>3. i \in 1 .. Len(steps) /\ i < j
      BY <2>3, <3>1
    <3>4. TurnOf(l) <= TurnOf(k)
      BY <2>2, <3>1, <3>2, <3>3 DEF Lists
    <3> QED BY <2>6, <3>4, TurnsTyped
  <2>7. ASSUME position = Len(steps), NEW k \in StepKinds
        PROVE  Executed(k) = SubjectsOf(k)
    <3>1. \A j \in 1 .. Len(steps) : ~(j > position)
      BY <2>3, <2>7
    <3> QED BY <2>4, <2>5, <3>1
  <2> QED BY <2>4, <2>6, <2>7
<1> QED BY <1>1, <1>2 DEF ScheduleFrozen

\* Executed active effects had their predecessors executed.
LEMMA ExecutedInOrder ==
  ASSUME LoopInvariant, ScheduleFrozen, NEW p \in Executed("publish_active_object")
  PROVE  p \in active_nodes
         /\ Predecessors(p) \subseteq Executed("publish_active_object")
<1>1. PICK i \in 1 .. position : steps[i].kind = "publish_active_object"
                                 /\ steps[i].path = p
  BY ExecutedSteps
<1>2. steps = prepare /\ phase = "ordered"
  BY <1>1 DEF ScheduleFrozen
<1>3. Accepted
  BY <1>2 DEF ScheduleFrozen, Accepted
<1>4. PICK a \in Nat :
        /\ \A j \in 1 .. Len(ordered) :
             /\ a + j \in 1 .. Len(steps)
             /\ steps[a + j].kind = "publish_active_object"
             /\ steps[a + j].path = ordered[j]
        /\ \A j \in 1 .. Len(steps) :
             steps[j].kind = "publish_active_object" =>
               j - a \in 1 .. Len(ordered) /\ steps[j].path = ordered[j - a]
  BY <1>2, <1>3, PrepareLists
<1>5. Lists(steps, StepKinds)
  BY <1>2, <1>3, PrepareLists
<1>6. position \in Nat /\ position <= Len(steps) /\ Len(steps) \in Nat
  BY <1>5 DEF ScheduleFrozen, Lists
<1>7. i \in 1 .. Len(steps)
  BY <1>6
<1>8. i - a \in 1 .. Len(ordered) /\ p = ordered[i - a]
  BY <1>1, <1>4, <1>7
<1>9. Predecessors(p) \subseteq Placed(i - a - 1)
  BY <1>8 DEF LoopInvariant
<1>10. ordered \in Seq(active_nodes)
  BY DEF LoopInvariant, OrderTypeOK
<1>11. ASSUME NEW q \in Predecessors(p)
       PROVE  q \in Executed("publish_active_object")
  <2>1. PICK j \in 1 .. (i - a - 1) : q = ordered[j]
    BY <1>9 DEF Placed
  <2>2. j \in 1 .. Len(ordered) /\ a + j \in 1 .. position
    BY <1>4, <1>6, <1>8, <1>10, <2>1
  <2> QED BY <1>4, <2>1, <2>2, ExecutedSteps
<1> QED BY <1>8, <1>10, <1>11

\* One step of the backend.
LEMMA StepTaken ==
  ASSUME LoopInvariant, ScheduleFrozen, NEW kind \in StepKinds, Perform(kind),
         UNCHANGED <<orderVars, steps>>
  PROVE  /\ Subject \in SubjectsOf(kind) /\ Subject \in Paths
         /\ Executed(kind)' = Executed(kind) \cup {Subject}
         /\ \A l \in StepKinds : l # kind => Executed(l)' = Executed(l)
         /\ \A l \in StepKinds : TurnOf(l) > TurnOf(kind) => Executed(l) = {}
         /\ position' \in 0 .. Len(steps')
         /\ CapturesValid /\ PayloadsValid
<1>1. /\ position < Len(steps) /\ steps[position + 1].kind = kind
      /\ position' = position + 1 /\ steps' = steps
  BY DEF Perform
<1>2. steps = prepare /\ phase = "ordered"
  BY <1>1 DEF ScheduleFrozen
<1>3. Accepted
  BY <1>2 DEF ScheduleFrozen, Accepted
<1>4. Lists(steps, StepKinds)
  BY <1>2, <1>3, PrepareLists
<1>5. position \in Nat /\ Len(steps) \in Nat
  BY <1>4 DEF ScheduleFrozen, Lists
<1>6. position + 1 \in 1 .. Len(steps)
  BY <1>1, <1>5
<1>7. Subject \in SubjectsOf(kind)
  BY <1>1, <1>4, <1>6 DEF Lists, Subject
<1>8. Subject \in Paths
  BY <1>3, <1>7, SubjectsArePaths DEF Accepted
<1>9. \A k, p : p \in Executed(k)' <=>
        \/ p \in Executed(k)
        \/ k = kind /\ p = Subject
  <2>1. \A k, p : p \in Executed(k)' <=>
          \E i \in 1 .. position + 1 : steps[i].kind = k /\ steps[i].path = p
    BY <1>1 DEF Executed
  <2>2. 1 .. position + 1 = (1 .. position) \cup {position + 1}
    BY <1>5
  <2>3. \A k, p : p \in Executed(k)' <=>
          \/ \E i \in 1 .. position : steps[i].kind = k /\ steps[i].path = p
          \/ steps[position + 1].kind = k /\ steps[position + 1].path = p
    BY <2>1, <2>2
  <2> QED BY <1>1, <2>3, ExecutedSteps DEF Subject
<1>10. ASSUME NEW l \in StepKinds, TurnOf(l) > TurnOf(kind), Executed(l) # {}
       PROVE  FALSE
  <2>1. PICK i \in 1 .. position : steps[i].kind = l
    BY <1>10, ExecutedSteps
  <2>2. i \in 1 .. Len(steps) /\ i < position + 1
    BY <1>1, <1>5
  <2>3. TurnOf(l) <= TurnOf(kind)
    BY <1>1, <1>4, <1>6, <2>1, <2>2 DEF Lists
  <2> QED BY <1>10, <2>3, TurnsTyped
<1>11. position' \in 0 .. Len(steps')
  BY <1>1, <1>5
<1>12. Executed(kind)' = Executed(kind) \cup {Subject}
  BY <1>9
<1>13. \A l \in StepKinds : l # kind => Executed(l)' = Executed(l)
  BY <1>9
<1> QED BY <1>3, <1>7, <1>8, <1>10, <1>11, <1>12, <1>13 DEF Accepted

\* An active effect runs once, before all it must precede.
LEMMA ActiveTurn ==
  ASSUME LoopInvariant, ScheduleFrozen, Perform("publish_active_object")
  PROVE  /\ Subject \notin Executed("publish_active_object")
         /\ \A p \in Executed("publish_active_object") : Subject \notin Predecessors(p)
<1>1. /\ position < Len(steps) /\ steps[position + 1].kind = "publish_active_object"
  BY DEF Perform
<1>2. steps = prepare /\ phase = "ordered"
  BY <1>1 DEF ScheduleFrozen
<1>3. Accepted
  BY <1>2 DEF ScheduleFrozen, Accepted
<1>4. PICK a \in Nat :
        /\ \A j \in 1 .. Len(ordered) :
             /\ a + j \in 1 .. Len(steps)
             /\ steps[a + j].kind = "publish_active_object"
             /\ steps[a + j].path = ordered[j]
        /\ \A j \in 1 .. Len(steps) :
             steps[j].kind = "publish_active_object" =>
               j - a \in 1 .. Len(ordered) /\ steps[j].path = ordered[j - a]
  BY <1>2, <1>3, PrepareLists
<1>5. Lists(steps, StepKinds)
  BY <1>2, <1>3, PrepareLists
<1>6. position \in Nat /\ Len(steps) \in Nat
  BY <1>5 DEF ScheduleFrozen, Lists
<1>7. position + 1 \in 1 .. Len(steps)
  BY <1>1, <1>6
<1> DEFINE at == position + 1
           n == at - a
<1>8. n \in 1 .. Len(ordered) /\ Subject = ordered[n]
  <2>1. /\ at \in 1 .. Len(steps) /\ steps[at].kind = "publish_active_object"
        /\ Subject = steps[at].path
    BY <1>1, <1>7 DEF Subject
  <2> HIDE DEF at
  <2> QED BY <1>4, <2>1
<1>9. /\ \A i, j \in 1 .. Len(ordered) : ordered[i] = ordered[j] => i = j
      /\ \A i \in 1 .. Len(ordered) : Predecessors(ordered[i]) \subseteq Placed(i - 1)
      /\ Len(ordered) \in Nat
  BY DEF LoopInvariant, OrderTypeOK
<1>10. ASSUME NEW p \in Executed("publish_active_object")
       PROVE  \E k \in 1 .. Len(ordered) : k < n /\ p = ordered[k]
  <2>1. PICK i \in 1 .. position : steps[i].kind = "publish_active_object"
                                   /\ steps[i].path = p
    BY ExecutedSteps
  <2>2. i \in 1 .. Len(steps) /\ i - a < n
    BY <1>1, <1>6
  <2> QED BY <1>4, <2>1, <2>2
<1> HIDE DEF n
<1>11. Subject \notin Executed("publish_active_object")
  BY <1>8, <1>9, <1>10
<1>12. ASSUME NEW p \in Executed("publish_active_object"), Subject \in Predecessors(p)
       PROVE  FALSE
  <2>1. PICK k \in 1 .. Len(ordered) : k < n /\ p = ordered[k]
    BY <1>10
  <2>2. PICK m \in 1 .. (k - 1) : Subject = ordered[m]
    BY <1>9, <1>12, <2>1 DEF Placed
  <2>3. m \in 1 .. Len(ordered) /\ m < n
    BY <1>8, <1>9, <2>1, <2>2
  <2>4. n \in 1 .. Len(ordered) /\ ordered[m] = ordered[n]
    BY <1>8, <2>2
  <2>5. m = n
    BY <1>9, <2>3, <2>4
  <2> QED BY <2>3, <2>4, <2>5
<1> QED BY <1>11, <1>12

\* What captures, payloads and the schedule are derived from is the plan and the
\* order.
LEMMA OrderFixesSchedule ==
  ASSUME plan' = plan
  PROVE  /\ CapturesValid' = CapturesValid /\ PayloadsValid' = PayloadsValid
         /\ CaptureRequests' = CaptureRequests /\ PayloadEntries' = PayloadEntries
         /\ ordered' = ordered => prepare' = prepare
<1>1. CapturesValid' = CapturesValid
  BY DEF CapturesValid
<1>2. PayloadsValid' = PayloadsValid
  BY DEF PayloadsValid, NeedsIncoming, regular_payload_entry
<1>3. CaptureRequests' = CaptureRequests
  BY DEF CaptureRequests, recovery_selected, active_effect_may_destroy_old,
         active_mechanism_required
<1>4. PayloadEntries' = PayloadEntries
  BY DEF PayloadEntries, NeedsIncoming, regular_payload_entry
<1>5. {p \in Paths : plan'[p].rejected # "none"} = {p \in Paths : plan[p].rejected # "none"}
  OBVIOUS
<1>6. ordered' = ordered => prepare' = prepare
  BY <1>3, <1>4, <1>5 DEF prepare, InPathOrder, OfKind
<1> QED BY <1>1, <1>2, <1>3, <1>4, <1>6

\* As long as the plan and the tree stay, so does what effects have left.
LEMMA TreeFixesLeft ==
  ASSUME plan' = plan, namespace' = namespace
  PROVE  \A p : Left(p)' = Left(p)
<1>1. \A p : Occupied(p)' = Occupied(p)
  BY DEF Occupied
<1> QED BY <1>1 DEF Left, parent_before_child

\* The decisions of an accepted plan.
LEMMA PlanTyped ==
  ASSUME plan \in Plans
  PROVE  \A p \in Paths : /\ plan[p].before \in Kind
                          /\ plan[p].active \in Outcome
                          /\ plan[p].entry \in EntryType \cup {"none"}
BY PlansAssumption DEF Decision, Kind

\* An active effect leaves an object of some kind, or none.
LEMMA LeftTyped ==
  ASSUME plan \in Plans
  PROVE  \A p \in Paths : Left(p) \in Kind
BY PlanTyped DEF Left, Kind

\* The frozen schedule and the sort behind it are not touched by a run.
LEMMA RunKeepsSchedule ==
  ASSUME ScheduleInvariant, UNCHANGED <<orderVars, steps>>,
         position' \in 0 .. Len(steps')
  PROVE  LoopInvariant' /\ (plan \in Plans)' /\ ScheduleFrozen'
<1>1. plan' = plan /\ phase' = phase /\ ordered' = ordered /\ steps' = steps
  BY DEF orderVars
<1>2. LoopInvariant'
  BY LoopInvariantStutter DEF ScheduleInvariant
<1>3. ScheduleFrozen'
  BY <1>1, OrderFixesSchedule DEF ScheduleInvariant, ScheduleFrozen
<1> QED BY <1>1, <1>2, <1>3 DEF ScheduleInvariant

\* Captures precede every active effect, so they see the object observed before.
LEMMA CaptureOldStep ==
  ASSUME ScheduleInvariant, CaptureOld PROVE ScheduleInvariant'
<1> DEFINE K == "capture_old_object"
<1>1. /\ Perform(K) /\ K \in StepKinds
      /\ captured' = [captured EXCEPT ![Subject] = namespace[Subject]]
      /\ UNCHANGED <<orderVars, steps, namespace, staged, rejects, observed>>
      /\ plan' = plan
  BY DEF CaptureOld, StepKinds, orderVars
<1>2. /\ Subject \in Paths
      /\ Executed(K)' = Executed(K) \cup {Subject}
      /\ \A l \in StepKinds : l # K => Executed(l)' = Executed(l)
      /\ \A l \in StepKinds : TurnOf(l) > TurnOf(K) => Executed(l) = {}
      /\ position' \in 0 .. Len(steps')
  BY <1>1, StepTaken DEF ScheduleInvariant
<1>3. Executed("publish_active_object") = {}
  BY <1>2 DEF TurnOf, StepKinds
<1>4. namespace[Subject] = plan[Subject].before
  BY <1>2, <1>3 DEF ScheduleInvariant, WorldKept
<1>5. /\ Executed("stage_regular_payload")' = Executed("stage_regular_payload")
      /\ Executed("publish_rejected_object")' = Executed("publish_rejected_object")
      /\ Executed("publish_active_object")' = Executed("publish_active_object")
      /\ Executed("observe_result")' = Executed("observe_result")
  BY <1>2 DEF StepKinds
<1>6. captured' = [p \in Paths |-> IF p \in Executed(K)'
                                   THEN plan[p].before ELSE NotSeen]
  BY <1>1, <1>2, <1>4 DEF ScheduleInvariant, WorldKept
<1>7. \A p : Left(p)' = Left(p)
  BY <1>1, TreeFixesLeft
<1>8. WorldKept'
  BY <1>1, <1>5, <1>6, <1>7 DEF ScheduleInvariant, WorldKept
<1> QED BY <1>1, <1>2, <1>8, RunKeepsSchedule DEF ScheduleInvariant

\* A staged payload is an executed staging step.
LEMMA StagePayloadStep ==
  ASSUME ScheduleInvariant, StagePayload PROVE ScheduleInvariant'
<1> DEFINE K == "stage_regular_payload"
<1>1. /\ Perform(K) /\ K \in StepKinds /\ staged' = staged \cup {Subject}
      /\ UNCHANGED <<orderVars, steps, namespace, captured, rejects, observed>>
      /\ plan' = plan
  BY DEF StagePayload, StepKinds, orderVars
<1>2. /\ Executed(K)' = Executed(K) \cup {Subject}
      /\ \A l \in StepKinds : l # K => Executed(l)' = Executed(l)
      /\ position' \in 0 .. Len(steps')
  BY <1>1, StepTaken DEF ScheduleInvariant
<1>3. /\ Executed("capture_old_object")' = Executed("capture_old_object")
      /\ Executed("publish_rejected_object")' = Executed("publish_rejected_object")
      /\ Executed("publish_active_object")' = Executed("publish_active_object")
      /\ Executed("observe_result")' = Executed("observe_result")
  BY <1>2 DEF StepKinds
<1>4. \A p : Left(p)' = Left(p)
  BY <1>1, TreeFixesLeft
<1>5. WorldKept'
  BY <1>1, <1>2, <1>3, <1>4 DEF ScheduleInvariant, WorldKept
<1> QED BY <1>1, <1>2, <1>5, RunKeepsSchedule DEF ScheduleInvariant

\* A published reject is an executed publication.
LEMMA PublishRejectedStep ==
  ASSUME ScheduleInvariant, PublishRejected PROVE ScheduleInvariant'
<1> DEFINE K == "publish_rejected_object"
<1>1. /\ Perform(K) /\ K \in StepKinds /\ rejects' = rejects \cup {Subject}
      /\ UNCHANGED <<orderVars, steps, namespace, captured, staged, observed>>
      /\ plan' = plan
  BY DEF PublishRejected, StepKinds, orderVars
<1>2. /\ Executed(K)' = Executed(K) \cup {Subject}
      /\ \A l \in StepKinds : l # K => Executed(l)' = Executed(l)
      /\ position' \in 0 .. Len(steps')
  BY <1>1, StepTaken DEF ScheduleInvariant
<1>3. /\ Executed("capture_old_object")' = Executed("capture_old_object")
      /\ Executed("stage_regular_payload")' = Executed("stage_regular_payload")
      /\ Executed("publish_active_object")' = Executed("publish_active_object")
      /\ Executed("observe_result")' = Executed("observe_result")
  BY <1>2 DEF StepKinds
<1>4. \A p : Left(p)' = Left(p)
  BY <1>1, TreeFixesLeft
<1>5. WorldKept'
  BY <1>1, <1>2, <1>3, <1>4 DEF ScheduleInvariant, WorldKept
<1> QED BY <1>1, <1>2, <1>5, RunKeepsSchedule DEF ScheduleInvariant

\* An effect changes its own path only, and what lies below it has been settled.
LEMMA PublishActiveStep ==
  ASSUME ScheduleInvariant, PublishActive PROVE ScheduleInvariant'
<1> DEFINE K == "publish_active_object"
<1> DEFINE c == Subject
<1>1. /\ Perform(K) /\ K \in StepKinds
      /\ namespace' = [namespace EXCEPT ![c] = ActiveResult(c)]
      /\ UNCHANGED <<orderVars, steps, captured, staged, rejects, observed>>
      /\ plan' = plan
  BY DEF PublishActive, StepKinds, orderVars
<1>2. /\ c \in SubjectsOf(K) /\ c \in Paths
      /\ Executed(K)' = Executed(K) \cup {c}
      /\ \A l \in StepKinds : l # K => Executed(l)' = Executed(l)
      /\ \A l \in StepKinds : TurnOf(l) > TurnOf(K) => Executed(l) = {}
      /\ position' \in 0 .. Len(steps')
  BY <1>1, StepTaken DEF ScheduleInvariant
<1>3. c \notin Executed(K) /\ \A p \in Executed(K) : c \notin Predecessors(p)
  BY <1>1, ActiveTurn DEF ScheduleInvariant
<1>4. /\ Executed("capture_old_object")' = Executed("capture_old_object")
      /\ Executed("stage_regular_payload")' = Executed("stage_regular_payload")
      /\ Executed("publish_rejected_object")' = Executed("publish_rejected_object")
      /\ Executed("observe_result")' = Executed("observe_result")
      /\ Executed("observe_result") = {}
  BY <1>2 DEF StepKinds, TurnOf
<1>5. c \in active_nodes
  BY <1>2 DEF SubjectsOf
<1>6. /\ namespace[c] = plan[c].before /\ namespace \in [Paths -> Kind]
      /\ plan \in Plans
  BY <1>2, <1>3 DEF ScheduleInvariant, WorldKept
<1> HIDE DEF c, K
<1>7. ActiveResult(c) = Left(c)
  BY <1>5, <1>6 DEF ActiveResult, Left, parent_before_child, active_nodes,
                    active_mechanism_required
<1>8. \A p \in Paths : namespace'[p] = IF p = c THEN Left(c) ELSE namespace[p]
  BY <1>1, <1>2, <1>6, <1>7
<1>9. ASSUME NEW p \in Executed(K) \cup {c}
      PROVE  Left(p)' = Left(p)
  <2>1. parent_before_child(p)' = parent_before_child(p)
    BY <1>1 DEF parent_before_child
  <2>2. CASE <<p, c>> \in Above
    <3>1. p # c
      BY <1>2, <2>2, PathsAssumption
    <3>2. p \in Executed(K)
      BY <3>1
    <3>3. parent_before_child(p)
      BY <1>3, <1>5, <2>2, <3>2 DEF Predecessors, AncestorEdge
    <3> QED BY <2>1, <3>3 DEF Left
  <2>3. CASE <<p, c>> \notin Above
    <3>1. \A q \in Paths : <<p, q>> \in Above => namespace'[q] = namespace[q]
      BY <1>8, <2>3
    <3>2. Occupied(p)' = Occupied(p)
      BY <3>1 DEF Occupied
    <3> QED BY <1>1, <2>1, <3>2 DEF Left
  <2> QED BY <2>2, <2>3
<1>10. \A p \in Paths : namespace'[p] = IF p \in Executed(K)' THEN Left(p)'
                                        ELSE plan[p].before
  <2>1. \A p \in Paths : namespace[p] = IF p \in Executed(K) THEN Left(p)
                                        ELSE plan[p].before
    BY DEF ScheduleInvariant, WorldKept, K
  <2> QED BY <1>2, <1>8, <1>9, <2>1
<1>11. namespace' \in [Paths -> Kind]
  BY <1>1, <1>2, <1>6, <1>7, LeftTyped
<1>12. WorldKept'
  BY <1>1, <1>4, <1>10, <1>11 DEF ScheduleInvariant, WorldKept, K
<1> QED BY <1>1, <1>2, <1>12, RunKeepsSchedule DEF ScheduleInvariant

\* Observations follow every active effect, so what they see does not change.
LEMMA ObserveResultStep ==
  ASSUME ScheduleInvariant, ObserveResult PROVE ScheduleInvariant'
<1> DEFINE K == "observe_result"
<1>1. /\ Perform(K) /\ K \in StepKinds
      /\ observed' = [observed EXCEPT ![Subject] = namespace[Subject]]
      /\ UNCHANGED <<orderVars, steps, namespace, captured, staged, rejects>>
      /\ plan' = plan
  BY DEF ObserveResult, StepKinds, orderVars
<1>2. /\ Subject \in Paths
      /\ Executed(K)' = Executed(K) \cup {Subject}
      /\ \A l \in StepKinds : l # K => Executed(l)' = Executed(l)
      /\ position' \in 0 .. Len(steps')
  BY <1>1, StepTaken DEF ScheduleInvariant
<1>3. /\ Executed("capture_old_object")' = Executed("capture_old_object")
      /\ Executed("stage_regular_payload")' = Executed("stage_regular_payload")
      /\ Executed("publish_rejected_object")' = Executed("publish_rejected_object")
      /\ Executed("publish_active_object")' = Executed("publish_active_object")
  BY <1>2 DEF StepKinds
<1>4. \A p : Left(p)' = Left(p)
  BY <1>1, TreeFixesLeft
<1>5. /\ namespace \in [Paths -> Kind]
      /\ observed \in [Paths -> Kind \cup {NotSeen}]
      /\ \A p \in Executed(K) : observed[p] = namespace[p]
  BY DEF ScheduleInvariant, WorldKept
<1>6. Executed(K) \subseteq Paths
  BY ExecutedInTurn, <1>1 DEF ScheduleInvariant, SubjectsOf
<1>7. /\ observed' \in [Paths -> Kind \cup {NotSeen}]
      /\ \A p \in Executed(K)' : observed'[p] = namespace'[p]
  BY <1>1, <1>2, <1>5, <1>6
<1>8. WorldKept'
  BY <1>1, <1>3, <1>4, <1>7 DEF ScheduleInvariant, WorldKept
<1> QED BY <1>1, <1>2, <1>8, RunKeepsSchedule DEF ScheduleInvariant

\* Nothing is executed before the schedule is frozen.
LEMMA NoneExecuted ==
  ASSUME position = 0 PROVE \A k : Executed(k) = {}
BY DEF Executed

\* A plan that was just accepted has no schedule yet, and its tree is the one
\* observed.
LEMMA ScheduleStarts == ScheduleInit => ScheduleInvariant
<1> SUFFICES ASSUME ScheduleInit PROVE ScheduleInvariant
  OBVIOUS
<1>1. LoopInvariant /\ plan \in Plans
  BY LoopInvariantInit DEF ScheduleInit, Init
<1>2. phase # "ordered" /\ steps = << >> /\ position = 0
  BY DEF ScheduleInit, Init
<1>3. ScheduleFrozen
  BY <1>2 DEF ScheduleFrozen
<1>4. \A k : Executed(k) = {}
  BY <1>2, NoneExecuted
<1>5. /\ captured = [p \in Paths |-> NotSeen] /\ staged = {} /\ rejects = {}
      /\ namespace = [p \in Paths |-> plan[p].before]
      /\ observed = [p \in Paths |-> NotSeen]
  BY DEF ScheduleInit
<1>6. namespace \in [Paths -> Kind]
  BY <1>1, <1>5, PlanTyped
<1>7. WorldKept
  BY <1>4, <1>5, <1>6 DEF WorldKept
<1> QED BY <1>1, <1>3, <1>7 DEF ScheduleInvariant

\* As long as the run has not moved, neither has the world.
LEMMA RunFixesWorld ==
  ASSUME ScheduleInvariant, plan' = plan, \A k : Executed(k)' = Executed(k),
         UNCHANGED <<namespace, captured, staged, rejects, observed>>
  PROVE  WorldKept'
<1>1. \A p : Left(p)' = Left(p)
  BY TreeFixesLeft
<1> QED BY <1>1 DEF ScheduleInvariant, WorldKept

\* The sort runs before anything is frozen.
LEMMA DeriveOrderStep ==
  ASSUME ScheduleInvariant, DeriveOrder PROVE ScheduleInvariant'
<1>1. /\ CapturesValid /\ PayloadsValid /\ OrderNext
      /\ UNCHANGED <<steps, position, namespace, captured, staged, rejects, observed>>
  BY DEF DeriveOrder, runVars
<1>2. plan' = plan /\ phase = "ordering"
  BY <1>1 DEF OrderNext, Place, Finish
<1>3. LoopInvariant'
  BY <1>1, LoopInvariantPlace, LoopInvariantFinish DEF OrderNext, ScheduleInvariant
<1>4. steps = << >>
  BY <1>2 DEF ScheduleInvariant, ScheduleFrozen
<1>5. ScheduleFrozen'
  <2>1. CapturesValid' /\ PayloadsValid'
    BY <1>1, <1>2, OrderFixesSchedule
  <2> QED BY <1>1, <1>4, <2>1 DEF ScheduleInvariant, ScheduleFrozen
<1>6. \A k : Executed(k)' = Executed(k)
  BY <1>1 DEF Executed
<1>7. WorldKept'
  BY <1>1, <1>2, <1>6, RunFixesWorld
<1> QED BY <1>2, <1>3, <1>5, <1>7 DEF ScheduleInvariant

\* A refused plan never gets a schedule.
LEMMA RefuseStep ==
  ASSUME ScheduleInvariant, Refuse PROVE ScheduleInvariant'
<1>1. /\ phase = "ordering" /\ phase' = "invalid"
      /\ UNCHANGED <<plan, ordered, indegree, ready>>
      /\ UNCHANGED <<steps, position, namespace, captured, staged, rejects, observed>>
  BY DEF Refuse, runVars
<1>2. /\ active_nodes' = active_nodes
      /\ \A p : Predecessors(p)' = Predecessors(p)
      /\ \A n : Placed(n)' = Placed(n)
  BY <1>1, PlanFixesGraph DEF Placed
<1>3. LoopInvariant'
  BY <1>1, <1>2 DEF ScheduleInvariant, LoopInvariant, OrderTypeOK, AllPlaced,
                    Pending, CanonicalOrder
<1>4. steps = << >>
  BY <1>1 DEF ScheduleInvariant, ScheduleFrozen
<1>5. ScheduleFrozen'
  BY <1>1, <1>4 DEF ScheduleInvariant, ScheduleFrozen
<1>6. \A k : Executed(k)' = Executed(k)
  BY <1>1 DEF Executed
<1>7. WorldKept'
  BY <1>1, <1>6, RunFixesWorld
<1> QED BY <1>1, <1>3, <1>5, <1>7 DEF ScheduleInvariant

\* Freezing the schedule executes nothing.
LEMMA FreezeStep ==
  ASSUME ScheduleInvariant, Freeze PROVE ScheduleInvariant'
<1>1. /\ phase = "ordered" /\ steps = << >> /\ steps' = prepare
      /\ plan' = plan /\ phase' = phase /\ ordered' = ordered
      /\ UNCHANGED orderVars
      /\ UNCHANGED <<position, namespace, captured, staged, rejects, observed>>
  BY DEF Freeze, orderVars
<1>2. LoopInvariant'
  BY <1>1, LoopInvariantStutter DEF ScheduleInvariant
<1>3. position = 0
  BY <1>1 DEF ScheduleInvariant, ScheduleFrozen
<1>4. CapturesValid /\ PayloadsValid
  BY <1>1 DEF ScheduleInvariant, ScheduleFrozen
<1>5. CapturesValid' /\ PayloadsValid' /\ prepare' = prepare
  BY <1>1, <1>4, OrderFixesSchedule
<1>6. Lists(prepare, StepKinds)
  BY <1>1, <1>4, PrepareLists DEF Accepted, ScheduleInvariant
<1>7. Len(prepare) \in Nat
  BY <1>6 DEF Lists
<1>8. ScheduleFrozen'
  BY <1>1, <1>3, <1>5, <1>7 DEF ScheduleFrozen
<1>9. \A k : Executed(k)' = Executed(k)
  BY <1>1, <1>3 DEF Executed
<1>10. WorldKept'
  BY <1>1, <1>9, RunFixesWorld
<1> QED BY <1>1, <1>2, <1>8, <1>10 DEF ScheduleInvariant

\* A step of another component changes nothing here.
LEMMA RestStep ==
  ASSUME ScheduleInvariant, UNCHANGED vars PROVE ScheduleInvariant'
<1>1. /\ UNCHANGED <<orderVars, steps, position, namespace, captured, staged,
                     rejects, observed>>
      /\ plan' = plan
  BY DEF vars, runVars, orderVars
<1>2. position' \in 0 .. Len(steps')
  BY <1>1 DEF ScheduleInvariant, ScheduleFrozen
<1>3. \A k : Executed(k)' = Executed(k)
  BY <1>1 DEF Executed
<1>4. WorldKept'
  BY <1>1, <1>3, RunFixesWorld
<1> QED BY <1>1, <1>2, <1>4, RunKeepsSchedule DEF ScheduleInvariant

\* The frozen schedule stays the one prepare derived, it is executed kind after
\* kind and in the order of the sort, and the world is what its steps made.
THEOREM ScheduleCarriedOut == Spec => []ScheduleInvariant
<1>1. ScheduleInvariant /\ [Next]_vars => ScheduleInvariant'
  BY DeriveOrderStep, RefuseStep, FreezeStep, CaptureOldStep, StagePayloadStep,
     PublishRejectedStep, PublishActiveStep, ObserveResultStep, RestStep
  DEF Next
<1> QED BY <1>1, ScheduleStarts, PTL DEF Spec

\* The order of the frozen schedule is the one of the sort.
THEOREM ScheduleOrdered ==
  Spec => [](SafeOrder /\ CompleteOrder /\ CanonicalOrder /\ CycleOnlyIfMalformed)
<1>1. ScheduleInvariant =>
        SafeOrder /\ CompleteOrder /\ CanonicalOrder /\ CycleOnlyIfMalformed
  BY LoopSafe, LoopComplete, LoopCanonical, LoopCycles DEF ScheduleInvariant
<1> QED BY <1>1, ScheduleCarriedOut, PTL

----------------------------------------------------------------------------
\* A capture that was executed saw an object.
LEMMA CapturesExist ==
  ASSUME ScheduleInvariant, NEW p \in Executed("capture_old_object")
  PROVE  plan[p].before # "absent"
<1>1. Executed("capture_old_object") \subseteq CaptureRequests
  BY ExecutedInTurn DEF ScheduleInvariant, SubjectsOf, StepKinds
<1>2. CapturesValid
  <2>1. \E i \in 1 .. position : steps[i].kind = "capture_old_object"
    BY ExecutedSteps
  <2>2. phase = "ordered"
    BY <2>1 DEF ScheduleInvariant, ScheduleFrozen
  <2> QED BY <2>2 DEF ScheduleInvariant, ScheduleFrozen
<1> QED
  BY <1>1, <1>2 DEF CaptureRequests, CapturesValid, active_effect_may_destroy_old

\* Every variable of the schedule and of the world keeps its type; nothing that
\* is not there is captured.
THEOREM ScheduleTyped == Spec => []TypeOK
<1>1. ASSUME ScheduleInvariant PROVE TypeOK
  <2>1. OrderTypeOK
    BY <1>1 DEF ScheduleInvariant, LoopInvariant
  <2>2. \A i \in DOMAIN steps : steps[i].path \in Paths
    <3>1. CASE steps = << >>
      BY <3>1
    <3>2. CASE steps = prepare /\ phase = "ordered"
      <4>1. Lists(steps, StepKinds)
        BY <1>1, <3>2, PrepareLists
        DEF Accepted, ScheduleInvariant, ScheduleFrozen
      <4>2. steps \in Seq(Steps)
        BY <4>1 DEF Lists
      <4>3. \A i \in DOMAIN steps : steps[i] \in Steps
        BY <4>2
      <4> QED BY <4>3 DEF Steps
    <3> QED BY <1>1, <3>1, <3>2 DEF ScheduleInvariant, ScheduleFrozen
  <2>3. position \in 0 .. Len(steps)
    BY <1>1 DEF ScheduleInvariant, ScheduleFrozen
  <2>4. captured \in [Paths -> (Kind \ {"absent"}) \cup {NotSeen}]
    <3>1. captured = [p \in Paths |-> IF p \in Executed("capture_old_object")
                                      THEN plan[p].before ELSE NotSeen]
      BY <1>1 DEF ScheduleInvariant, WorldKept
    <3>2. \A p \in Executed("capture_old_object") : plan[p].before # "absent"
      BY <1>1, CapturesExist
    <3>3. \A p \in Paths : plan[p].before \in Kind
      BY <1>1, PlanTyped DEF ScheduleInvariant
    <3> QED BY <3>1, <3>2, <3>3
  <2>5. staged \subseteq Paths /\ rejects \subseteq Paths
    <3>1. staged \subseteq PayloadEntries
      BY <1>1, ExecutedInTurn DEF ScheduleInvariant, WorldKept, SubjectsOf, StepKinds
    <3>2. rejects \subseteq Paths
      BY <1>1, ExecutedInTurn DEF ScheduleInvariant, WorldKept, SubjectsOf, StepKinds
    <3>3. CASE steps = << >>
      <4>1. position = 0
        BY <1>1, <3>3 DEF ScheduleInvariant, ScheduleFrozen
      <4>2. staged = {}
        BY <1>1, <4>1, NoneExecuted DEF ScheduleInvariant, WorldKept
      <4> QED BY <3>2, <4>2
    <3>4. CASE phase = "ordered"
      <4>1. PayloadEntries \subseteq Paths
        BY <1>1, <3>4 DEF ScheduleInvariant, ScheduleFrozen, PayloadEntries,
                          PayloadsValid
      <4> QED BY <3>1, <3>2, <4>1
    <3> QED BY <1>1, <3>3, <3>4 DEF ScheduleInvariant, ScheduleFrozen
  <2>6. namespace \in [Paths -> Kind] /\ observed \in [Paths -> Kind \cup {NotSeen}]
    BY <1>1 DEF ScheduleInvariant, WorldKept
  <2> QED BY <2>1, <2>2, <2>3, <2>4, <2>5, <2>6 DEF TypeOK
<1> QED BY <1>1, ScheduleCarriedOut, PTL

\* An object that is there, with nothing below it, was there before or has been
\* activated.
LEMMA LowestPresent ==
  ASSUME ScheduleInvariant, NEW r \in Paths, namespace[r] # "absent", ~Occupied(r)
  PROVE  \/ /\ r \notin Executed("publish_active_object")
            /\ plan[r].before # "absent"
         \/ /\ r \in Executed("publish_active_object")
            /\ plan[r].active = "activate_incoming"
<1>1. namespace[r] = IF r \in Executed("publish_active_object")
                     THEN Left(r) ELSE plan[r].before
  BY DEF ScheduleInvariant, WorldKept
<1> QED BY <1>1 DEF Left, parent_before_child

\* Whatever is below a path that the plan leaves present lies in directories,
\* after every prefix of the schedule.
LEMMA TreeKept ==
  ASSUME ScheduleInvariant, Coherent, NEW p \in Paths, NEW q \in Paths,
         <<p, q>> \in Above, namespace[q] # "absent"
  PROVE  namespace[p] = "directory"
<1> DEFINE E == Executed("publish_active_object")
           U == {r \in Paths : (r = q \/ <<q, r>> \in Above) /\ namespace[r] # "absent"}
<1>1. PICK r \in U : \A s \in U : <<r, s>> \notin Above
  <2>1. U \in SUBSET Paths /\ U # {}
    OBVIOUS
  <2> HIDE DEF U
  <2> QED BY <2>1, LowestAndHighest
<1>2. <<p, r>> \in Above /\ r \in Paths /\ namespace[r] # "absent"
  BY <1>1, PathsAssumption
<1>3. ~Occupied(r)
  <2> SUFFICES ASSUME NEW s \in Paths, <<r, s>> \in Above, namespace[s] # "absent"
               PROVE  FALSE
    BY DEF Occupied
  <2>1. s = q \/ <<q, s>> \in Above
    BY <1>1, PathsAssumption
  <2> QED BY <1>1, <2>1
<1>4. \/ r \notin E /\ plan[r].before # "absent"
      \/ r \in E /\ plan[r].active = "activate_incoming"
  BY <1>2, <1>3, LowestPresent
<1>5. /\ \A e \in Above : plan[e[2]].before # "absent" => plan[e[1]].before = "directory"
      /\ plan[r].active = "remain_absent" => plan[r].before = "absent"
      /\ plan[r].active \in Outcome
  <2>1. plan \in Plans
    BY DEF ScheduleInvariant
  <2> QED BY <1>2, <2>1, ObservedAssumption, PlanTyped
<1>6. /\ namespace[p] = IF p \in E THEN Left(p) ELSE plan[p].before
      /\ E \subseteq active_nodes
  <2>1. E \subseteq active_nodes
    BY ExecutedInTurn DEF ScheduleInvariant, SubjectsOf, StepKinds
  <2> QED BY <2>1 DEF ScheduleInvariant, WorldKept
<1>7. \A s \in E : Predecessors(s) \subseteq E
  BY ExecutedInOrder DEF ScheduleInvariant
<1>8. Occupied(p)
  BY <1>2 DEF Occupied
<1> HIDE DEF E, U
<1>9. CASE p \notin E
  <2>1. CASE r \notin E
    <3>1. plan[p].before = "directory"
      <4>1. plan[r].before # "absent"
        BY <1>4, <2>1
      <4> DEFINE e == <<p, r>>
      <4>2. e \in Above /\ e[1] = p /\ e[2] = r
        BY <1>2
      <4> HIDE DEF e
      <4> QED BY <1>5, <4>1, <4>2
    <3> QED BY <1>6, <1>9, <3>1
  <2>2. CASE r \in E
    <3>1. StaysDirectory(p)
      BY <1>2, <1>4, <2>2 DEF Coherent, StaysPresent
    <3>2. ~parent_before_child(p)
      <4> SUFFICES ASSUME parent_before_child(p) PROVE FALSE
        OBVIOUS
      <4>1. p \in active_nodes
        BY DEF parent_before_child, active_nodes, active_mechanism_required
      <4>2. p \in Predecessors(r)
        BY <1>2, <4>1 DEF Predecessors, AncestorEdge
      <4> QED BY <1>7, <1>9, <2>2, <4>2
    <3> QED BY <1>6, <1>9, <3>1, <3>2 DEF StaysDirectory
  <2> QED BY <2>1, <2>2
<1>10. CASE p \in E
  <2>1. CASE parent_before_child(p)
    BY <1>6, <1>10, <2>1 DEF Left
  <2>2. CASE ~parent_before_child(p)
    <3>1. StaysPresent(r)
      <4>1. CASE r \in active_nodes
        <5>1. r \in Predecessors(p)
          BY <1>2, <2>2, <4>1 DEF Predecessors, AncestorEdge
        <5>2. r \in E
          BY <1>7, <1>10, <5>1
        <5> QED BY <1>4, <5>2 DEF StaysPresent
      <4>2. CASE r \notin active_nodes
        <5>1. plan[r].before # "absent"
          BY <1>4, <1>6, <4>2
        <5>2. ~active_mechanism_required(plan[r].active)
          BY <1>2, <4>2 DEF active_nodes
        <5> QED
          BY <1>5, <5>1, <5>2 DEF StaysPresent, active_mechanism_required, Outcome
      <4> QED BY <4>1, <4>2
    <3>2. StaysDirectory(p)
      BY <1>2, <3>1 DEF Coherent
    <3>3. active_mechanism_required(plan[p].active)
      BY <1>6, <1>10 DEF active_nodes
    <3>4. plan[p].active = "remove_directory_if_empty" /\ plan[p].before = "directory"
      BY <2>2, <3>2, <3>3 DEF StaysDirectory, active_mechanism_required
    <3> QED BY <1>6, <1>8, <1>10, <2>2, <3>4 DEF Left
  <2> QED BY <2>1, <2>2
<1> QED BY <1>9, <1>10

\* If the plan's result is a tree, so is what every prefix of the schedule
\* leaves behind.
THEOREM TreesKept == Spec => []TreeAtEveryStep
<1>1. ScheduleInvariant => TreeAtEveryStep
  BY TreeKept DEF TreeAtEveryStep
<1> QED BY <1>1, ScheduleCarriedOut, PTL

\* Every effect finds what it needs: captures and payloads come first, and none
\* is forgotten.
THEOREM SourcesAtHand == Spec => []SourcesReady
<1>1. ASSUME ScheduleInvariant PROVE SourcesReady
  <2> DEFINE C == "capture_old_object"
             S == "stage_regular_payload"
             R == "publish_rejected_object"
             A == "publish_active_object"
  <2>1. /\ Executed(A) \subseteq active_nodes
        /\ Executed(R) \subseteq {p \in Paths : plan[p].rejected # "none"}
        /\ Executed(A) # {} \/ Executed(R) # {} =>
             Executed(C) = CaptureRequests /\ Executed(S) = PayloadEntries
    <3>1. /\ \A k \in StepKinds : Executed(k) \subseteq SubjectsOf(k)
          /\ \A k, l \in StepKinds : TurnOf(k) < TurnOf(l) /\ Executed(l) # {} =>
               Executed(k) = SubjectsOf(k)
      BY <1>1, ExecutedInTurn DEF ScheduleInvariant
    <3>2. {C, S, R, A} \subseteq StepKinds
      BY DEF StepKinds
    <3>3. /\ SubjectsOf(C) = CaptureRequests /\ SubjectsOf(S) = PayloadEntries
          /\ SubjectsOf(R) = {p \in Paths : plan[p].rejected # "none"}
          /\ SubjectsOf(A) = active_nodes
      BY DEF SubjectsOf
    <3>4. /\ TurnOf(C) < TurnOf(R) /\ TurnOf(C) < TurnOf(A)
          /\ TurnOf(S) < TurnOf(R) /\ TurnOf(S) < TurnOf(A)
      BY DEF TurnOf
    <3> HIDE DEF C, S, R, A
    <3> QED BY <3>1, <3>2, <3>3, <3>4
  <2>2. /\ captured = [p \in Paths |-> IF p \in Executed(C)
                                       THEN plan[p].before ELSE NotSeen]
        /\ staged = Executed(S) /\ rejects = Executed(R)
    BY <1>1 DEF ScheduleInvariant, WorldKept
  <2>3. ASSUME Executed(A) # {} \/ Executed(R) # {}
        PROVE  PayloadsValid
    <3>1. PICK i \in 1 .. position : TRUE
      BY <2>3, ExecutedSteps
    <3>2. phase = "ordered"
      BY <1>1, <3>1 DEF ScheduleInvariant, ScheduleFrozen
    <3> QED BY <1>1, <3>2 DEF ScheduleInvariant, ScheduleFrozen
  <2> HIDE DEF C, S, R, A
  <2>4. ASSUME recovery_selected, NEW p \in Executed(A), plan[p].before # "absent"
        PROVE  captured[p] = plan[p].before
    <3>1. p \in CaptureRequests
      BY <2>1, <2>4 DEF CaptureRequests, active_effect_may_destroy_old, active_nodes
    <3> QED BY <2>1, <2>2, <3>1 DEF CaptureRequests
  <2>5. ASSUME NEW p \in rejects, plan[p].rejected = "stage_old"
        PROVE  captured[p] = plan[p].before
    <3>1. p \in Executed(R) /\ p \in Paths
      BY <2>1, <2>2
    <3>2. p \in CaptureRequests
      BY <2>5, <3>1 DEF CaptureRequests
    <3> QED BY <2>1, <2>2, <3>1, <3>2
  <2>6. ASSUME NEW p \in rejects \cup Executed(A), NeedsIncoming(p),
               plan[p].entry \in {"regular", "hardlink"}
        PROVE  \E q \in staged : plan[q].entry = "regular" /\ q \in {p, plan[p].anchor}
    <3>1. p \in Paths /\ PayloadsValid /\ staged = PayloadEntries
      BY <2>1, <2>2, <2>3 DEF active_nodes
    <3>2. regular_payload_entry(p) \subseteq staged
      BY <2>6, <3>1 DEF PayloadEntries
    <3>3. \A q \in regular_payload_entry(p) : plan[q].entry = "regular"
      BY <2>6, <3>1 DEF PayloadsValid
    <3>4. \E q \in regular_payload_entry(p) : q \in {p, plan[p].anchor}
      BY <2>6 DEF regular_payload_entry
    <3> QED BY <3>2, <3>3, <3>4
  <2> QED BY <2>4, <2>5, <2>6 DEF SourcesReady, A
<1> QED BY <1>1, ScheduleCarriedOut, PTL

\* The completed schedule leaves the tree that was planned, and its
\* observations saw that tree.
THEOREM ResultsReached == Spec => []ResultReached
<1>1. ASSUME ScheduleInvariant, steps # << >>, position = Len(steps), NEW p \in Paths
      PROVE  /\ observed[p] = namespace[p]
             /\ plan[p].active = "activate_incoming" =>
                  (namespace[p] = "directory") = (plan[p].entry = "directory")
             /\ plan[p].active \in {"retain_observed", "remain_absent"} =>
                  namespace[p] = plan[p].before
             /\ plan[p].active = "remove_observed" => namespace[p] = "absent"
             /\ plan[p].active = "remove_directory_if_empty" =>
                  (namespace[p] = "absent") = ~Occupied(p)
  <2>1. Executed("publish_active_object") = active_nodes
        /\ Executed("observe_result") = Paths
    BY <1>1, ExecutedInTurn DEF ScheduleInvariant, SubjectsOf, StepKinds
  <2>2. observed[p] = namespace[p]
    BY <1>1, <2>1 DEF ScheduleInvariant, WorldKept
  <2>3. namespace[p] = IF active_mechanism_required(plan[p].active)
                       THEN Left(p) ELSE plan[p].before
    BY <1>1, <2>1 DEF ScheduleInvariant, WorldKept, active_nodes
  <2>4. plan[p].active = "remove_directory_if_empty" => plan[p].before = "directory"
    BY <1>1, ObservedAssumption DEF ScheduleInvariant
  <2> QED
    BY <2>2, <2>3, <2>4 DEF active_mechanism_required, Left, parent_before_child
<1>2. ScheduleInvariant => ResultReached
  BY <1>1 DEF ResultReached
<1> QED BY <1>2, ScheduleCarriedOut, PTL
=============================================================================
