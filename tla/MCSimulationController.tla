---------------------- MODULE MCSimulationController ----------------------
(***************************************************************************)
(* Instances of SimulationController for TLC.                              *)
(***************************************************************************)
EXTENDS SimulationController, TLC

\* The draws are interchangeable; used by the runs without liveness only.
Symmetry == Permutations(Draws)
=============================================================================
