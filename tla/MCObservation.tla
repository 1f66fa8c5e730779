---------------------------- MODULE MCObservation ----------------------------
(* Instances of Observation for TLC.  Pids other than the runner's are       *)
(* interchangeable.                                                          *)
EXTENDS Observation, TLC

Symmetry == Permutations(Pids \ {Runner})
=============================================================================
