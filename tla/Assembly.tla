------------------------------- MODULE Assembly -------------------------------
(***************************************************************************)
(* What a record says of the files of an operation that ends now: the      *)
(* classification of FileAccess followed by hash_set                       *)
(* (ci-tracer/src/assemble.rs) and Hasher (hash.rs).  Every state of       *)
(* FileAccess may be the one in which the operation ends.                  *)
(*                                                                         *)
(* Circumstances say, for each file, how git answers about it and what     *)
(* other processes have done to it since the operation used it.  Content   *)
(* is that of the checkout, which git knows, or later content; a digest is *)
(* the bytes it is computed from.                                          *)
(***************************************************************************)
EXTENDS FileAccess

Circumstance ==
    [repo : BOOLEAN,        \* git finds a repository
     tracked : BOOLEAN,     \* git ls-files knows the file
     blob : BOOLEAN,        \* git hash-object and git cat-file succeed
     fate : {"kept", "changed", "removed"}]

Digests == {"checkout raw", "later raw", "committed blob", "later blob"}

ASSUME NoneAssumption == None \notin Digests

Calm == [repo |-> TRUE, tracked |-> TRUE, blob |-> TRUE, fate |-> "kept"]

\* The bytes on disk: a checkout may differ from the blob (line ends, filters).
Raw(f, c) ==
    IF c.fate = "changed" \/ f \in hasWritten THEN "later raw" ELSE "checkout raw"
Blob(f, c) ==
    IF c.fate = "changed" \/ f \in hasWritten THEN "later blob" ELSE "committed blob"

-----------------------------------------------------------------------------
(* Hasher *)

Readable(f, c) == exists[f] /\ c.fate # "removed"

\* fs::read fails for a file that is gone.
HashRaw(f, c) == IF Readable(f, c) THEN Raw(f, c) ELSE None

\* rel_path: a tracked file lies below the repository root, lexically.
IsTracked(f, c) == InScope(f) /\ c.tracked

\* Mutant of HashInput: a failing normalization is the entry's failure.
HashInputOrNothing(f, c) ==
    IF c.repo /\ IsTracked(f, c)
    THEN IF c.blob /\ Readable(f, c) THEN Blob(f, c) ELSE None
    ELSE HashRaw(f, c)

\* hash_input: what git would store, for a tracked file git can normalize.
HashInput(f, c) ==
    IF c.repo /\ IsTracked(f, c) /\ c.blob /\ Readable(f, c) THEN Blob(f, c)
    ELSE HashRaw(f, c)

HashOutput(f, c) == HashRaw(f, c)

-----------------------------------------------------------------------------
(* assemble *)

\* hash_set: an unreadable file has no entry; null in the record stands for the
\* empty set.
HashSet(hashes) ==
    {[path |-> f, hash |-> hashes[f]] : f \in {g \in DOMAIN hashes : hashes[g] # None}}

Inputs(circ) == HashSet([f \in ScopedInputs |-> HashInput(f, circ[f])])
Outputs(circ) == HashSet([f \in ScopedOutputs |-> HashOutput(f, circ[f])])

-----------------------------------------------------------------------------
(* Properties *)

\* One file in any circumstances, the others in calm ones: files are hashed one
\* by one.
Disturbed(f, c) == [g \in Files |-> IF g = f THEN c ELSE Calm]

\* A file in scope that was read or produced and is still there has an entry in
\* the record, whatever fails in git and whatever became of the records and
\* calls that concern other files.
UsedFilesAreHashed ==
    \A f \in hasRead \cup hasWritten, c \in Circumstance :
        InScope(f) /\ Readable(f, c) /\ Followed(f) =>
            \E e \in Inputs(Disturbed(f, c)) \cup Outputs(Disturbed(f, c)) : e.path = f

OneName(f) ==
    \A n, m \in {k \in Names : ResolveAgainst(k) = f /\ paths[k] # Untouched} : n = m

\* What an input is joined with is the content in the repository: the digest of
\* a tracked input that nobody else has changed is that of the committed blob,
\* or of the checked out bytes if git could not provide it.  The classification
\* sees to it that the operation has not changed the file itself, unless it
\* called it by two names or its records are misleading.
InputsJoinTheSource ==
    \A f \in Files \ misled, c \in Circumstance :
        c.repo /\ c.tracked /\ c.fate = "kept" /\ OneName(f) =>
            \A e \in Inputs(Disturbed(f, c)) :
                e.path = f =>
                    e.hash = IF c.blob THEN "committed blob" ELSE "checkout raw"
=============================================================================
