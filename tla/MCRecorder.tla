------------------------------ MODULE MCRecorder ------------------------------
(* Instances of Recorder for TLC: the values are in the .cfg files. *)
EXTENDS Recorder
=============================================================================
