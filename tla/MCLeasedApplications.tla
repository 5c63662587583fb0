------------------------ MODULE MCLeasedApplications ------------------------
(***************************************************************************)
(* Two controllers, two targets in two lock domains, and what callers may  *)
(* hand to the library: requests that contradict themselves, leases of the *)
(* wrong domain, archives of other images.                                 *)
(***************************************************************************)
EXTENDS LeasedApplications, TLC

Namespaces(shared) == [active |-> "active", rejected |-> "rejected",
                       staging |-> "staging", journal |-> shared]

MCTarget ==
  [t1 |-> [system |-> "sys1", backend |-> "m1", observation |-> "o1",
           capabilities |-> "k1", domain |-> "d1", namespaces |-> Namespaces("journal")],
   t2 |-> [system |-> "sys2", backend |-> "m2", observation |-> "o1",
           capabilities |-> "k1", domain |-> "d2", namespaces |-> Namespaces("journal")],
   t3 |-> [system |-> "sys1", backend |-> "m1", observation |-> "o1",
           capabilities |-> "k1", domain |-> "d1", namespaces |-> Namespaces("active")]]

Build(image) == [source |-> "src", artifact |-> image, image |-> image]
Incoming(image) == Build(image)

Upgrade(image, snapshot, before) ==
  [kind |-> "upgrade", system |-> "sys1", snapshot |-> snapshot,
   inventory |-> snapshot, owners |-> "pkg", source |-> "src",
   artifact |-> image, image |-> image, archive |-> image,
   entries |-> {"file"}, before |-> before]

MCPlan ==
  [p1 |-> Upgrade("new", "s1", "old"),
   p2 |-> [kind |-> "remove", system |-> "sys1", snapshot |-> "s2",
           inventory |-> "s2", owners |-> "pkg", archive |-> NotGiven, before |-> "new"]]

Call(kind, plan, incoming, target) ==
  [kind |-> kind, plan |-> plan, incoming |-> incoming, target |-> target,
   control |-> "best_effort"]

MCSubmitted ==
  [q1 |-> Call("upgrade", "p1", Incoming("new"), "t1"),
   q2 |-> Call("remove", "p2", NotGiven, "t1"),
   x1 |-> Call("upgrade", "p1", Incoming("newer"), "t1"),
   x2 |-> Call("upgrade", "p1", Incoming("new"), "t2"),
   x3 |-> Call("upgrade", "p1", Incoming("new"), "t3")]

MCBackends ==
  {[backend |-> m, observation |-> "o1", capabilities |-> "k1"] : m \in {"m1", "m2"}}
MCArchives == {[image |-> i, entries |-> {"file"}] : i \in {"new", "newer"}}
MCAcquisitions ==
  {[target |-> "t1", domain |-> "d1"], [target |-> "t1", domain |-> "d2"]}
MCState ==
  <<[snapshot |-> "s1", inventory |-> "s1", owners |-> "pkg"],
    [snapshot |-> "s2", inventory |-> "s2", owners |-> "pkg"],
    [snapshot |-> "s3", inventory |-> "s3", owners |-> "none"]>>
MCInitial == [m1 |-> "old", m2 |-> "old"]

Symmetry == Permutations(Controllers)
=============================================================================
