--------------------------- MODULE MCScenarioRun ----------------------------
(***************************************************************************)
(* Two workers, the lead worker with two users.                            *)
(***************************************************************************)
EXTENDS ScenarioRun

TwoAndOne == {<<1, 1>>, <<1, 2>>, <<2, 1>>}
=============================================================================
