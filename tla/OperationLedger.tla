--------------------------- MODULE OperationLedger ---------------------------
(***************************************************************************)
(* What the process tree promises about operations, whatever events reach  *)
(* it and in whatever order: each call concerns one operation at most;     *)
(* what an open operation has accumulated is never lost or replaced; and   *)
(* an operation leaves exactly once, complete, in the call that returns it.*)
(***************************************************************************)
CONSTANTS Pids, Operation, None

VARIABLES operations, emitted

vars == <<operations, emitted>>

IsOpen(r) == operations[r] # None

\* b has all that a has.  Only a later write forgets that a path was deleted.
PathExtends(a, b) ==
    /\ a.read => b.read
    /\ a.wrote => b.wrote
    /\ a.deleted /\ ~b.deleted => b.wrote

Sticky(a, b) == a # None => b = a

Extends(a, b) ==
    /\ b.root_pid = a.root_pid /\ b.root_comm = a.root_comm
    /\ b.exit_code = a.exit_code
    /\ Sticky(a.command, b.command)
    /\ Sticky(a.working_directory, b.working_directory)
    /\ a.pids \subseteq b.pids
    /\ \A f \in DOMAIN a.paths : PathExtends(a.paths[f], b.paths[f])

OthersUnchanged(r) == \A q \in Pids \ {r} : operations'[q] = operations[q]

Init == operations = [p \in Pids |-> None] /\ emitted = {}

Open(r) ==
    /\ ~IsOpen(r)
    /\ operations'[r] \in Operation
    /\ operations'[r].root_pid = r
    /\ operations'[r].pids = {r}
    /\ operations'[r].exit_code = None
    /\ OthersUnchanged(r)
    /\ emitted' = {}

Grow(r) ==
    /\ IsOpen(r)
    /\ operations'[r] \in Operation
    /\ Extends(operations[r], operations'[r])
    /\ OthersUnchanged(r)
    /\ emitted' = {}

\* The root exits: all that was accumulated is returned, with the exit code.
Close(r) ==
    /\ IsOpen(r)
    /\ operations'[r] = None
    /\ OthersUnchanged(r)
    /\ \E o \in emitted' :
          /\ emitted' = {o}
          /\ o = [operations[r] EXCEPT !.exit_code = o.exit_code]

\* A root recognised only by its exit event.
OpenAndClose(r) ==
    /\ ~IsOpen(r)
    /\ UNCHANGED operations
    /\ \E o \in emitted' :
          emitted' = {o} /\ o \in Operation /\ o.root_pid = r /\ o.pids = {r}

CloseAll ==
    /\ operations' = [p \in Pids |-> None]
    /\ emitted' = {operations[p] : p \in {q \in Pids : IsOpen(q)}}

Ignore == emitted' = {} /\ UNCHANGED operations

Next ==
    \/ \E r \in Pids : Open(r) \/ Grow(r) \/ Close(r) \/ OpenAndClose(r)
    \/ CloseAll
    \/ Ignore

Spec == Init /\ [][Next]_vars
=============================================================================
