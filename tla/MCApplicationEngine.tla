------------------------ MODULE MCApplicationEngine ------------------------
(***************************************************************************)
(* Schedules for the model checker: sequences of the plan's paths.         *)
(***************************************************************************)
EXTENDS ApplicationEngine

Nothing == << >>
OnlyA == <<"a">>
OnlyB == <<"b">>
AThenB == <<"a", "b">>
=============================================================================
