------------------------------ MODULE PathAccess ------------------------------
(***************************************************************************)
(* What an operation remembers of one path (ci-tracer/src/observe.rs), for *)
(* ProcessTree and FileAccess.                                             *)
(***************************************************************************)

AccessKinds == {"read", "write", "create", "truncate", "delete"}

PathState == [read : BOOLEAN, wrote : BOOLEAN, deleted : BOOLEAN]

\* PathState::default(), also the state of a path without an entry: every
\* access sets a flag, so an entry never stays in it.
Untouched == [read |-> FALSE, wrote |-> FALSE, deleted |-> FALSE]

\* Mutant of Recorded: writing a deleted path again leaves it deleted.
RecordedStaysDeleted(st, access) ==
    CASE access = "read" -> [st EXCEPT !.read = TRUE]
      [] access \in {"write", "create", "truncate"} -> [st EXCEPT !.wrote = TRUE]
      [] access = "delete" -> [st EXCEPT !.deleted = TRUE]

Recorded(st, access) ==
    CASE access = "read" -> [st EXCEPT !.read = TRUE]
      [] access \in {"write", "create", "truncate"} ->
            [st EXCEPT !.wrote = TRUE, !.deleted = FALSE]
      [] access = "delete" -> [st EXCEPT !.deleted = TRUE]

IsInput(st) == st.read /\ ~st.wrote /\ ~st.deleted
IsOutput(st) == st.wrote /\ ~st.deleted
=============================================================================
