-------------------------- MODULE MCEffectSchedule --------------------------
(***************************************************************************)
(* Plans for the model checker.  libpkgplan decides what a path's planned  *)
(* outcome may be given what was observed and what the image brings; the   *)
(* observed objects form a tree.  Images are not restricted to well formed *)
(* ones.                                                                   *)
(***************************************************************************)
EXTENDS EffectSchedule, TLC

\* A chain of directories and one path beside it.
FourPaths == {"a", "a/b", "a/b/c", "d"}
MCAbove == {<<"a", "a/b">>, <<"a", "a/b/c">>, <<"a/b", "a/b/c">>}
MCRank == [p \in Paths |-> CASE p = "a" -> 1 [] p = "a/b" -> 2
                             [] p = "a/b/c" -> 3 [] OTHER -> 4]

Legal(d) ==
  /\ d.anchor # NoPath => d.entry = "hardlink"
  /\ d.active = "activate_incoming" => d.entry # "none"
  /\ d.active = "retain_observed" => d.before # "absent"
  /\ d.active = "remove_observed" => d.before # "absent" /\ d.entry = "none"
  /\ d.active = "remove_directory_if_empty" =>
       d.before = "directory" /\ d.entry = "none"
  /\ d.active = "remain_absent" => d.before = "absent"
  /\ d.rejected = "stage_old" => d.before # "absent"
       /\ d.active \in {"activate_incoming", "remove_observed"}
  /\ d.rejected = "stage_incoming" => d.entry # "none"
       /\ d.active \in {"retain_observed", "remain_absent"}

\* Decisions without a rejected object that activate what the image brings, and
\* with one, those over a regular entry or a hard link to "a".
Accepting(d) ==
  /\ d.rejected = "none"
  /\ d.entry = "symlink" => d.before = "absent"
  /\ d.entry = "none" \/ d.active = "activate_incoming"
Rejecting(d) ==
  /\ d.rejected # "none" /\ d.before # "directory"
  /\ \/ d.entry \in {"none", "regular"}
     \/ d.entry = "hardlink" /\ d.anchor = "a"

MCPlans ==
  {pl \in [Paths -> {d \in Decision : Legal(d) /\ (Accepting(d) \/ Rejecting(d))}] :
     /\ \A e \in Above : pl[e[2]].before # "absent" => pl[e[1]].before = "directory"
     /\ \A p \in Paths : pl[p].anchor # p}
=============================================================================
