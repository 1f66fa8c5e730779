----------------------------- MODULE MCFileAccess -----------------------------
(* Instances of FileAccess for TLC: the other values are in the .cfg files. *)
EXTENDS FileAccess, TLC

Reading == [creat |-> FALSE, mode |-> "r"]
Creating == [creat |-> TRUE, mode |-> "w"]
Updating == [creat |-> FALSE, mode |-> "rw"]

SomeFlags == {Reading, Creating, Updating}

AllNames == (Dirs \cup {Relative}) \X Bases
Symmetry == Permutations(Procs)
=============================================================================
