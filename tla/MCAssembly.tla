------------------------------ MODULE MCAssembly ------------------------------
(* Instances of Assembly for TLC: the other values are in the .cfg files. *)
EXTENDS Assembly, TLC

Reading == [creat |-> FALSE, mode |-> "r"]
Creating == [creat |-> TRUE, mode |-> "w"]
Updating == [creat |-> FALSE, mode |-> "rw"]

SomeFlags == {Reading, Creating, Updating}

\* Each file has one name: relative for those of the root's directory.
OneNameEach == ({Relative} \cup (Dirs \ {Root})) \X Bases
Symmetry == Permutations(Procs)
=============================================================================
