-------------------------------- MODULE MCJob --------------------------------
(* Instances of Job for TLC: the values are in the .cfg files. *)
EXTENDS Job
=============================================================================
