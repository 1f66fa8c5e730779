----------------------------- MODULE ProcessTree -----------------------------
(***************************************************************************)
(* The user-space process tree of the recorder (ci-tracer/src/observe.rs): *)
(* it turns the stream of exec, file and exit events into operations, one  *)
(* per whitelisted root process, and hands an operation over when its root *)
(* exits or when the agent stops.                                          *)
(*                                                                         *)
(* Maps are total functions whose absent value is NoPid or None.  Matching *)
(* a comm against the whitelist is membership in Whitelist; times and the  *)
(* whitelist's type tag are left out.  What /proc answers for a pid is an  *)
(* input of each call, an Option that may be None at one call and present  *)
(* at the next.                                                            *)
(***************************************************************************)
EXTENDS PathAccess, Naturals, FiniteSets

CONSTANTS
    Pids,       \* process ids, without 0
    NoPid,      \* the pid 0 of an exec event without a known parent; no entry
    Comms,      \* command names the kernel reports
    Whitelist,  \* the names that start an operation
    Paths,      \* observed file names
    Accesses,   \* the kinds of access that occur, a subset of AccessKinds
    Codes,      \* exit codes
    Commands,   \* command lines and working directories read from /proc
    None,       \* an absent Option
    MaxWalk     \* how many parents the walk visits, 64 in the code

ASSUME NoPidAssumption == NoPid \notin Pids
ASSUME AccessAssumption == Accesses \subseteq AccessKinds
ASSUME NoneAssumption == None \notin Codes \cup Commands
ASSUME MaxWalkAssumption == MaxWalk \in Nat

VARIABLES
    parents,    \* pid -> parent pid, learnt from exec events
    tracked,    \* pid -> root pid of its membership
    operations, \* root pid -> open operation
    emitted     \* the operations the last call returned

vars == <<parents, tracked, operations, emitted>>

Option(S) == S \cup {None}

Operation ==
    [root_pid : Pids,
     root_comm : Whitelist,
     command : Option(Commands),
     working_directory : Option(Commands),
     exit_code : Option(Codes),
     pids : SUBSET Pids,
     paths : [Paths -> PathState]]

ASSUME NoneIsNoOperation == None \notin Operation

ProcSource == [cmdline : Option(Commands), cwd : Option(Commands)]

ExecEvent == [pid : Pids, ppid : Pids \cup {NoPid}, comm : Comms]
FileEvent == [pid : Pids, access : Accesses, comm : Comms, path : Paths]
ExitEvent == [pid : Pids, exit_code : Option(Codes), comm : Comms]

-----------------------------------------------------------------------------
(* Operations *)

\* Mutant of NewOperation: the root is not counted among the pids.
NewOperationWithoutRoot(p, comm, proc) ==
    [root_pid |-> p,
     root_comm |-> comm,
     command |-> proc.cmdline,
     working_directory |-> proc.cwd,
     exit_code |-> None,
     pids |-> {},
     paths |-> [f \in Paths |-> Untouched]]

NewOperation(p, comm, proc) ==
    [root_pid |-> p,
     root_comm |-> comm,
     command |-> proc.cmdline,
     working_directory |-> proc.cwd,
     exit_code |-> None,
     pids |-> {p},
     paths |-> [f \in Paths |-> Untouched]]

\* One path's state in an operation.
RecordIn(op, path, access) ==
    [op EXCEPT !.paths[path] = Recorded(@, access)]

IfNone(old, new) == IF old = None THEN new ELSE old

\* refresh_root_proc: the pid's own operation, if it has one, retries what
\* /proc did not answer before.
Refreshed(ops, p, proc) ==
    IF ops[p] = None THEN ops
    ELSE [ops EXCEPT ![p].command = IfNone(@, proc.cmdline),
                     ![p].working_directory = IfNone(@, proc.cwd)]

-----------------------------------------------------------------------------
(* Membership *)

\* The pids the parent walk visits from p: ancestor[k] after k steps, NoPid
\* once an entry is missing.
Ancestors(p, par) ==
    LET ancestor[k \in 0..MaxWalk] ==
            IF k = 0 THEN p
            ELSE IF ancestor[k - 1] = NoPid THEN NoPid
            ELSE par[ancestor[k - 1]]
    IN  ancestor

\* Mutant of InheritedRoot: the walk stops one parent early.
InheritedRootShort(p, par) ==
    LET up == Ancestors(p, par)
        hits == {k \in 1..(MaxWalk - 1) : up[k] \in Pids /\ tracked[up[k]] # NoPid}
        first == CHOOSE k \in hits : \A j \in hits : k <= j
    IN  IF hits = {} THEN NoPid ELSE tracked[up[first]]

\* Mutant of InheritedRoot: only the parent is looked at.
InheritedRootOneStep(p, par) ==
    IF par[p] = NoPid THEN NoPid ELSE tracked[par[p]]

\* The root of the nearest tracked ancestor.
InheritedRoot(p, par) ==
    LET up == Ancestors(p, par)
        hits == {k \in 1..MaxWalk : up[k] \in Pids /\ tracked[up[k]] # NoPid}
        first == CHOOSE k \in hits : \A j \in hits : k <= j
    IN  IF hits = {} THEN NoPid ELSE tracked[up[first]]

\* Mutant of Starts: the whitelist is consulted before the tracked pids.
StartsAgain(p, comm) == comm \in Whitelist

Starts(p, comm) == tracked[p] = NoPid /\ comm \in Whitelist

\* The root the pid belongs to once membership returns, NoPid for none.
RootOf(p, comm, par) ==
    IF tracked[p] # NoPid THEN tracked[p]
    ELSE IF comm \in Whitelist THEN p
    ELSE InheritedRoot(p, par)

\* The operations once membership returns: a new one for a whitelisted root,
\* one more pid in the operation inherited from an ancestor if that is open.
Admitted(p, comm, par, proc) ==
    LET root == RootOf(p, comm, par)
    IN  IF Starts(p, comm)
        THEN [operations EXCEPT ![p] = NewOperation(p, comm, proc)]
        ELSE IF tracked[p] = NoPid /\ root # NoPid /\ operations[root] # None
        THEN [operations EXCEPT ![root].pids = @ \cup {p}]
        ELSE operations

-----------------------------------------------------------------------------
(* The calls of the agent *)

Init ==
    /\ parents = [p \in Pids |-> NoPid]
    /\ tracked = [p \in Pids |-> NoPid]
    /\ operations = [p \in Pids |-> None]
    /\ emitted = {}

OnExec(e, proc) ==
    LET par == IF e.ppid = NoPid THEN parents
               ELSE [parents EXCEPT ![e.pid] = e.ppid]
    IN  /\ parents' = par
        /\ tracked' = [tracked EXCEPT ![e.pid] = RootOf(e.pid, e.comm, par)]
        /\ operations' =
              Refreshed(Admitted(e.pid, e.comm, par, proc), e.pid, proc)
        /\ emitted' = {}

OnFile(e, proc) ==
    LET root == RootOf(e.pid, e.comm, parents)
        ops == Admitted(e.pid, e.comm, parents, proc)
    IN  /\ tracked' = [tracked EXCEPT ![e.pid] = root]
        /\ operations' =
              IF root = NoPid \/ ops[root] = None THEN ops
              ELSE [ops EXCEPT ![root] = RecordIn(@, e.path, e.access)]
        /\ emitted' = {}
        /\ UNCHANGED parents

\* Mutant of OnExit: an exit without an observed code does not close.
OnExitNeedsCode(e, proc) ==
    LET p == e.pid
        ops == Admitted(p, e.comm, parents, proc)
        closes == /\ RootOf(p, e.comm, parents) = p /\ ops[p] # None
                  /\ e.exit_code # None
    IN  /\ parents' = [parents EXCEPT ![p] = NoPid]
        /\ tracked' = [tracked EXCEPT ![p] = NoPid]
        /\ operations' = IF closes THEN [ops EXCEPT ![p] = None] ELSE ops
        /\ emitted' = IF closes
                      THEN {[ops[p] EXCEPT !.exit_code = e.exit_code]}
                      ELSE {}

\* Mutant of OnExit: the pid stays tracked.
OnExitKeepsTracked(e, proc) ==
    LET p == e.pid
        root == RootOf(p, e.comm, parents)
        ops == Admitted(p, e.comm, parents, proc)
        closes == root = p /\ ops[p] # None
    IN  /\ parents' = [parents EXCEPT ![p] = NoPid]
        /\ tracked' = [tracked EXCEPT ![p] = root]
        /\ operations' = IF closes THEN [ops EXCEPT ![p] = None] ELSE ops
        /\ emitted' = IF closes
                      THEN {[ops[p] EXCEPT !.exit_code = e.exit_code]}
                      ELSE {}

\* The exit of a root closes its operation; any other exit only forgets the
\* pid.  A pid tracked to itself may have no operation (a reused pid that
\* inherited from a survivor of its predecessor): nothing is returned then.
OnExit(e, proc) ==
    LET p == e.pid
        ops == Admitted(p, e.comm, parents, proc)
        closes == RootOf(p, e.comm, parents) = p /\ ops[p] # None
    IN  /\ parents' = [parents EXCEPT ![p] = NoPid]
        /\ tracked' = [tracked EXCEPT ![p] = NoPid]
        /\ operations' = IF closes THEN [ops EXCEPT ![p] = None] ELSE ops
        /\ emitted' = IF closes
                      THEN {[ops[p] EXCEPT !.exit_code = e.exit_code]}
                      ELSE {}

\* Mutant of FinalizeAll: an operation is taken for every tracked pid.
FinalizeTracked ==
    /\ operations' = [p \in Pids |-> None]
    /\ emitted' = {operations[p] : p \in {q \in Pids : tracked[q] # NoPid}}
    /\ UNCHANGED <<parents, tracked>>

FinalizeAll ==
    /\ operations' = [p \in Pids |-> None]
    /\ emitted' = {operations[p] : p \in {q \in Pids : operations[q] # None}}
    /\ UNCHANGED <<parents, tracked>>

Next ==
    \/ \E e \in ExecEvent, proc \in ProcSource : OnExec(e, proc)
    \/ \E e \in FileEvent, proc \in ProcSource : OnFile(e, proc)
    \/ \E e \in ExitEvent, proc \in ProcSource : OnExit(e, proc)
    \/ FinalizeAll

Spec == Init /\ [][Next]_vars

-----------------------------------------------------------------------------
(* Properties *)

\* Every map keeps to its types.
TypeOK ==
    /\ parents \in [Pids -> Pids \cup {NoPid}]
    /\ tracked \in [Pids -> Pids \cup {NoPid}]
    /\ operations \in [Pids -> Option(Operation)]
    /\ emitted \subseteq Operation

\* An operation is filed under its root, counts its root among its pids and
\* has no exit code while it is open.
OperationsAreFiled ==
    \A r \in Pids : operations[r] # None =>
        /\ operations[r].root_pid = r
        /\ r \in operations[r].pids
        /\ operations[r].exit_code = None

\* The root of an open operation is tracked to itself.  membership looks at
\* tracked only: this is why a second event of the root, or an event of a pid
\* that inherits, cannot replace an open operation by a fresh one and lose what
\* it had accumulated.
OpenRootsAreTracked ==
    \A r \in Pids : operations[r] # None => tracked[r] = r

\* p's parent, the parent's parent and so on: the least set that holds p's
\* parent and the parent of each of its members, as far as they are known.
ChainOf(p) ==
    LET Closed(S) == \A q \in S \cup {p} : parents[q] \in S \cup {NoPid}
    IN  {q \in Pids : \A S \in SUBSET Pids : Closed(S) => q \in S}

\* The walk misses nobody within its MaxWalk steps: a pid that is not tracked
\* itself inherits the root of a tracked pid on its chain, if one is there, also
\* when pid reuse has closed the chain into a cycle, and nothing otherwise.
WalkIsComplete ==
    \A p \in Pids : tracked[p] = NoPid =>
        LET root == InheritedRoot(p, parents)
            roots == {tracked[q] : q \in ChainOf(p)} \ {NoPid}
        IN  /\ root \in roots \cup {NoPid}
            /\ roots # {} /\ Cardinality(ChainOf(p) \ {p}) <= MaxWalk =>
                  root # NoPid

Inv == TypeOK /\ OperationsAreFiled /\ OpenRootsAreTracked

\* The tree keeps the promise of OperationLedger: no call mixes two operations,
\* drops or replaces what one has accumulated, or returns one twice.
Ledger == INSTANCE OperationLedger
KeepsTheLedger == Ledger!Spec
=============================================================================
