----------------------------- MODULE Observation -----------------------------
(***************************************************************************)
(* The recorder at work: the kernel's probes, the ring between them and    *)
(* the agent, and the agent's single-threaded loop (run in                 *)
(* ci-tracer/src/main.rs), which drains the ring into the process tree     *)
(* until it is told to stop.                                               *)
(*                                                                         *)
(* rootInc and opened are history variables: which process incarnation     *)
(* opened each operation, and which ever opened one.                       *)
(***************************************************************************)
EXTENDS Probes

CONSTANTS Commands, MaxWalk

VARIABLES
    parents, tracked, operations, emitted,  \* of ProcessTree
    pc,         \* where the loop is: drain, select, final_drain, done
    stop,       \* SIGTERM or SIGINT has arrived
    rootInc,    \* root pid -> the incarnation that opened its operation
    opened      \* the incarnations that ever opened one

treeVars == <<parents, tracked, operations, emitted>>
history == <<rootInc, opened>>
agentVars == <<treeVars, pc, history>>
vars == <<kernelVars, agentVars, stop>>

Tree == INSTANCE ProcessTree

ASSUME AccessAssumption == Accesses \subseteq Tree!AccessKinds
ASSUME NoneAssumption == None \notin Codes \cup Commands
ASSUME MaxWalkAssumption == MaxWalk \in Nat
ASSUME NoneIsNoOperation == None \notin Tree!Operation

-----------------------------------------------------------------------------
(* Decoding records (events.rs) *)

DecodeExec(rec) == [pid |-> rec.pid, ppid |-> rec.ppid, comm |-> rec.comm]

\* Mutant of DecodeExit: the mark is not looked at.
DecodeExitUnmarked(rec) ==
    [pid |-> rec.pid, comm |-> rec.comm, exit_code |-> rec.exit_code]

DecodeExit(rec) ==
    [pid |-> rec.pid, comm |-> rec.comm,
     exit_code |-> IF rec.code_observed THEN rec.exit_code ELSE None]

DecodeFile(rec) ==
    [pid |-> rec.pid, access |-> rec.access, comm |-> rec.comm,
     path |-> rec.path]

-----------------------------------------------------------------------------
(* The agent's loop *)

Init ==
    /\ KernelInit
    /\ Tree!Init
    /\ pc = "drain"
    /\ stop = FALSE
    /\ rootInc = [p \in Pids |-> None]
    /\ opened = {}

\* The operation a step opens is the one whose pid becomes open, or the one a
\* root returns that was never open before.
Opens(r) ==
    /\ operations[r] = None
    /\ operations'[r] # None \/ \E op \in emitted' : op.root_pid = r

Head1 == Head(EVENTS)

\* ProcFs: what /proc answers, nothing for a pid that is not in use any more.
ProcFs(p) ==
    IF task[p].st = "free" THEN {[cmdline |-> None, cwd |-> None]}
    ELSE Tree!ProcSource

\* dispatch: one record goes to the tree, which asks /proc as it needs.
Dispatch ==
    /\ pc \in {"drain", "final_drain"} /\ EVENTS # <<>>
    /\ \E proc \in ProcFs(Head1.pid) :
          \/ Head1.type = "exec" /\ Tree!OnExec(DecodeExec(Head1), proc)
          \/ Head1.type = "file" /\ Tree!OnFile(DecodeFile(Head1), proc)
          \/ Head1.type = "exit" /\ Tree!OnExit(DecodeExit(Head1), proc)
    /\ EVENTS' = Tail(EVENTS)
    /\ rootInc' = [r \in Pids |->
          IF Opens(r) THEN Head1.src.inc
          ELSE IF operations'[r] = None THEN None
          ELSE rootInc[r]]
    /\ opened' = opened \cup {Head1.src.inc : r \in {q \in Pids : Opens(q)}}
    /\ UNCHANGED <<task, asked, PARENT_MAP, EXIT_CODES, pc, stop>>

\* The ring is empty: wait for a signal or 10 ms.
DrainDone ==
    /\ pc = "drain" /\ EVENTS = <<>>
    /\ pc' = "select"
    /\ UNCHANGED <<kernelVars, treeVars, history, stop>>

Tick ==
    /\ pc = "select"
    /\ pc' = "drain"
    /\ UNCHANGED <<kernelVars, treeVars, history, stop>>

Stopped ==
    /\ pc = "select" /\ stop
    /\ pc' = "final_drain"
    /\ UNCHANGED <<kernelVars, treeVars, history, stop>>

\* The ring is empty after the stop: operations still open are returned as
\* they are and the agent ends.
Finalize ==
    /\ pc = "final_drain" /\ EVENTS = <<>>
    /\ Tree!FinalizeAll
    /\ pc' = "done"
    /\ rootInc' = [r \in Pids |-> None]
    /\ UNCHANGED <<kernelVars, opened, stop>>

Agent == Dispatch \/ DrainDone \/ Tick \/ Stopped \/ Finalize

Signal ==
    /\ Allows("stop") /\ ~stop
    /\ stop' = TRUE
    /\ UNCHANGED <<kernelVars, agentVars>>

\* Once the agent has ended its programs are detached.
Kernel ==
    /\ pc # "done"
    /\ KernelNext
    /\ UNCHANGED <<agentVars, stop>>

Next == Agent \/ Kernel \/ Signal

Spec == Init /\ [][Next]_vars

-----------------------------------------------------------------------------
(* Properties *)

TypeOK ==
    /\ KernelTypeOK
    /\ Tree!TypeOK
    /\ pc \in {"drain", "select", "final_drain", "done"}
    /\ stop \in BOOLEAN
    /\ rootInc \in [Pids -> Incarnations \cup {None}]
    /\ opened \subseteq Incarnations

\* A file access is credited to an operation only if the process that made it
\* is the one that opened the operation or descends from it.
NoForeignIO ==
    [][\A r \in Pids :
          (/\ operations[r] # None /\ operations'[r] # None
           /\ operations'[r].paths # operations[r].paths)
          => rootInc[r] \in Head1.src.anc]_vars

\* An access by a descendant of an open operation's root is credited to an
\* operation of one of its ancestors.
InheritanceComplete ==
    [][LET e == Head1
           mine == {r \in Pids : operations'[r] # None
                                 /\ rootInc'[r] \in e.src.anc}
           Has(st) == Tree!Recorded(st, e.access) = st
       IN  Dispatch /\ e.type = "file" /\ mine # {} =>
              \E r \in mine : Has(operations'[r].paths[e.path])]_vars

\* An operation is opened only for a process that runs a whitelisted command
\* and for each such process at most once.
OneOperationPerInvocation ==
    [][\A r \in Pids : Dispatch /\ Opens(r) =>
          Head1.src.invoked /\ Head1.src.inc \notin opened]_vars

\* A reported exit code is one that a thread of the root's own process, not of
\* an earlier owner of the pid, passed to exit_group.
ExitCodeIsOwn ==
    [][Dispatch => \A op \in emitted' :
          op.exit_code # None => op.exit_code \in Head1.src.asked]_vars

\* The exit code of a root that called exit_group is reported when its exit
\* record closes the operation.
ExitCodeReported ==
    [][Dispatch /\ emitted' # {} /\ Head1.src.asked # {} =>
          \A op \in emitted' : op.exit_code # None]_vars
=============================================================================
