------------------------------- MODULE Probes -------------------------------
(***************************************************************************)
(* The kernel side: the tasks of the runner and the eBPF programs hooked   *)
(* to them (ci-tracer-ebpf/src/main.rs), which keep two LRU maps and write *)
(* event records to a bounded ring buffer.                                 *)
(*                                                                         *)
(* The tasks are the environment: what the kernel lets processes and       *)
(* threads do, limited by Workload to the kinds of behaviour an instance   *)
(* asks about.  Each event carries `src`, the truth about the process that *)
(* caused it.  The code never sees it; properties compare with it.         *)
(***************************************************************************)
EXTENDS Naturals, Sequences, FiniteSets

CONSTANTS
    Pids, NoPid, Comms, Whitelist, Paths, Accesses, None,
    Codes,      \* the low bytes passed to exit_group
    Runner,     \* the process that runs the job, alive from the start
    Workload,   \* what may happen beyond the disciplined case, see below
    MaxGen,     \* how often the kernel hands out a pid
    MaxTasks,   \* how many tasks there are in all, beside the runner
    RingCap,    \* records the ring holds
    MapCap      \* entries an LRU map holds

WorkloadKinds ==
    {"threads",     \* processes have several threads
     "bare_fork",   \* a forked child acts before, or without, an exec
     "orphans",     \* a process exits before its descendants do
     "titles",      \* a process changes its comm after exec
     "drops",       \* a full ring drops records; otherwise writers wait
     "stop"}        \* the job ends: the agent is sent SIGTERM at any moment

ASSUME NoPidAssumption == NoPid \notin Pids
ASSUME CommsAssumption == \E c \in Comms : c \notin Whitelist
ASSUME CodesAssumption == Codes \subseteq 0..255
ASSUME RunnerAssumption == Runner \in Pids
ASSUME WorkloadAssumption == Workload \subseteq WorkloadKinds
ASSUME BoundsAssumption ==
    /\ MaxGen \in Nat \ {0} /\ MaxTasks \in Nat
    /\ RingCap \in Nat \ {0} /\ MapCap \in Nat \ {0}

VARIABLES
    task,       \* tid -> its state, thread group, comm and ghosts
    asked,      \* tgid -> the exit codes its threads passed to exit_group
    PARENT_MAP, \* tid -> tgid of the task that created it
    EXIT_CODES, \* tgid -> low byte of the last exit_group argument
    EVENTS      \* the ring buffer

kernelVars == <<task, asked, PARENT_MAP, EXIT_CODES, EVENTS>>

\* A process incarnation: a pid and the number of times it was handed out.
Incarnations == Pids \X (1..MaxGen)

Task ==
    [st : {"free", "forked", "live", "exiting", "zombie"},
     tgid : Pids, comm : Comms, gen : 0..MaxGen,
     invoked : BOOLEAN, anc : SUBSET Incarnations]

\* The truth about the process that caused an event.
Truth ==
    [inc : Incarnations, anc : SUBSET Incarnations, invoked : BOOLEAN,
     asked : SUBSET Codes]

ProcessExecEvent ==
    [type : {"exec"}, pid : Pids, ppid : Pids \cup {NoPid}, comm : Comms,
     src : Truth]

ProcessExitEvent ==
    [type : {"exit"}, pid : Pids, exit_code : Codes \cup {0},
     code_observed : BOOLEAN, comm : Comms, src : Truth]

FileAccessEvent ==
    [type : {"file"}, pid : Pids, access : Accesses, comm : Comms,
     path : Paths, src : Truth]

Record == ProcessExecEvent \cup ProcessExitEvent \cup FileAccessEvent

KernelTypeOK ==
    /\ task \in [Pids -> Task]
    /\ asked \in [Pids -> SUBSET Codes]
    /\ PARENT_MAP \in [Pids -> Pids \cup {NoPid}]
    /\ EXIT_CODES \in [Pids -> Codes \cup {None}]
    /\ EVENTS \in Seq(Record) /\ Len(EVENTS) <= RingCap

Alive(t) == task[t].st \in {"forked", "live", "exiting"}
Threads(p) == {t \in Pids : Alive(t) /\ task[t].tgid = p}
Inc(p) == <<p, task[p].gen>>
Allows(kind) == kind \in Workload

-----------------------------------------------------------------------------
(* The probes *)

\* LruHashMap::insert: a full map evicts some other entry for a new key.
LruInserts(map, k, v, absent) ==
    LET used == {q \in DOMAIN map : map[q] # absent}
        full == map[k] = absent /\ Cardinality(used) >= MapCap
    IN  IF full THEN {[map EXCEPT ![q] = absent, ![k] = v] : q \in used}
        ELSE {[map EXCEPT ![k] = v]}

\* Mutant of Output: the ring is never full.
OutputUnbounded(e) == EVENTS' = Append(EVENTS, e)

\* RingBuf::output: fails, and the record is lost, when the ring is full.
Output(e) ==
    IF Len(EVENTS) < RingCap THEN EVENTS' = Append(EVENTS, e)
    ELSE Allows("drops") /\ UNCHANGED EVENTS

Source(t) ==
    LET p == task[t].tgid
    IN  [inc |-> Inc(p), anc |-> task[p].anc, invoked |-> task[p].invoked,
         asked |-> asked[p]]

\* Mutant of TraceFork: key and value are swapped.
TraceForkSwapped(t, child) ==
    PARENT_MAP' \in LruInserts(PARENT_MAP, task[t].tgid, child, NoPid)

TraceFork(t, child) ==
    PARENT_MAP' \in LruInserts(PARENT_MAP, child, task[t].tgid, NoPid)

\* Mutant of TraceExec: the comm is read before exec has set it.
TraceExecOldComm(t, comm, src) ==
    Output([type |-> "exec", pid |-> t, ppid |-> PARENT_MAP[t],
            comm |-> task[t].comm, src |-> src])

TraceExec(t, comm, src) ==
    Output([type |-> "exec", pid |-> t, ppid |-> PARENT_MAP[t], comm |-> comm,
            src |-> src])

TraceExitGroup(t, code) ==
    EXIT_CODES' \in LruInserts(EXIT_CODES, task[t].tgid, code, None)

\* ProcessExitEvent: a status that was not seen is 0, and marked.
ExitRecord(t, status) ==
    [type |-> "exit", pid |-> t, comm |-> task[t].comm,
     exit_code |-> IF status = None THEN 0 ELSE status,
     code_observed |-> status # None,
     src |-> Source(t)]

\* Mutant of TraceExit: the entry is removed before it is read.
TraceExitRemovesFirst(t) ==
    LET p == task[t].tgid
    IN  /\ EXIT_CODES' = [EXIT_CODES EXCEPT ![p] = None]
        /\ Output(ExitRecord(t, EXIT_CODES'[p]))

\* Mutant of TraceExit: the entry is never removed.
TraceExitKeepsEntry(t) ==
    /\ UNCHANGED EXIT_CODES
    /\ Output(ExitRecord(t, EXIT_CODES[task[t].tgid]))

\* The exit status is taken out of the map by the first task of the group that
\* exits, and before the record is known to fit the ring.
TraceExit(t) ==
    LET p == task[t].tgid
    IN  /\ EXIT_CODES' = [EXIT_CODES EXCEPT ![p] = None]
        /\ Output(ExitRecord(t, EXIT_CODES[p]))

EmitFileAccess(t, access, path) ==
    Output([type |-> "file", pid |-> t, access |-> access,
            comm |-> task[t].comm, path |-> path, src |-> Source(t)])

-----------------------------------------------------------------------------
(* The tasks *)

FreeTask(t, gen, comm) ==
    [st |-> "free", tgid |-> t, comm |-> comm, gen |-> gen, invoked |-> FALSE,
     anc |-> {}]

IdleComm == CHOOSE c \in Comms : c \notin Whitelist

KernelInit ==
    /\ task = [t \in Pids |->
                 IF t = Runner
                 THEN [FreeTask(t, 1, IdleComm) EXCEPT
                         !.st = "live", !.anc = {<<t, 1>>}]
                 ELSE FreeTask(t, 0, IdleComm)]
    /\ asked = [p \in Pids |-> {}]
    /\ PARENT_MAP = [t \in Pids |-> NoPid]
    /\ EXIT_CODES = [p \in Pids |-> None]
    /\ EVENTS = <<>>

\* A task that runs user code: a forked child only under "bare_fork".
Acts(t) ==
    \/ task[t].st = "live"
    \/ task[t].st = "forked" /\ Allows("bare_fork")

Born == {i \in Incarnations : i[2] <= task[i[1]].gen}

Available(t) ==
    task[t].st = "free" /\ task[t].gen < MaxGen /\ Cardinality(Born) <= MaxTasks

\* Unless orphans are allowed a process outlives its descendants.
MayEnd(t) ==
    LET p == task[t].tgid
    IN  \/ Allows("orphans")
        \/ \A d \in Pids : Alive(d) /\ task[d].tgid # p =>
              Inc(p) \notin task[task[d].tgid].anc

Fork(t, c) ==
    LET p == task[t].tgid
        gen == task[c].gen + 1
    IN  /\ Acts(t) /\ Available(c)
        /\ task' = [task EXCEPT ![c] =
              [st |-> "forked", tgid |-> c, comm |-> task[t].comm, gen |-> gen,
               invoked |-> FALSE, anc |-> task[p].anc \cup {<<c, gen>>}]]
        /\ asked' = [asked EXCEPT ![c] = {}]
        /\ TraceFork(t, c)
        /\ UNCHANGED <<EXIT_CODES, EVENTS>>

CloneThread(t, c) ==
    /\ Allows("threads") /\ t # Runner
    /\ Acts(t) /\ Available(c)
    /\ task' = [task EXCEPT ![c] =
          [FreeTask(c, task[c].gen + 1, task[t].comm) EXCEPT
             !.st = "live", !.tgid = task[t].tgid]]
    /\ TraceFork(t, c)
    /\ UNCHANGED <<asked, EXIT_CODES, EVENTS>>

\* exec of a single-threaded process; its comm becomes the command's name.
Exec(t, comm) ==
    /\ t # Runner
    /\ task[t].st \in {"forked", "live"}
    /\ task[t].tgid = t /\ Threads(t) = {t}
    /\ task' = [task EXCEPT ![t].st = "live", ![t].comm = comm,
                            ![t].invoked = (comm \in Whitelist)]
    /\ TraceExec(t, comm, [Source(t) EXCEPT !.invoked = (comm \in Whitelist)])
    /\ UNCHANGED <<asked, PARENT_MAP, EXIT_CODES>>

\* A process names itself (npm sets process.title).
SetTitle(t, comm) ==
    /\ Allows("titles") /\ t # Runner
    /\ Acts(t) /\ task[t].tgid = t /\ task[t].comm # comm
    /\ task' = [task EXCEPT ![t].comm = comm,
                            ![t].invoked = @ \/ comm \in Whitelist]
    /\ UNCHANGED <<asked, PARENT_MAP, EXIT_CODES, EVENTS>>

FileAccess(t, access, path) ==
    /\ t # Runner /\ Acts(t)
    /\ EmitFileAccess(t, access, path)
    /\ UNCHANGED <<task, asked, PARENT_MAP, EXIT_CODES>>

ExitGroup(t, code) ==
    /\ t # Runner /\ Acts(t) /\ MayEnd(t)
    /\ task' = [task EXCEPT ![t].st = "exiting"]
    /\ asked' = [asked EXCEPT ![task[t].tgid] = @ \cup {code}]
    /\ TraceExitGroup(t, code)
    /\ UNCHANGED <<PARENT_MAP, EVENTS>>

\* A task ends: after exit_group, by a signal, or as one of several threads.
\* A leader stays a zombie until its last thread has gone.
Exit(t) ==
    LET p == task[t].tgid
        gone == IF Threads(p) = {t} THEN {t, p} ELSE {t} \ {p}
    IN  /\ t # Runner /\ Alive(t)
        /\ Acts(t) \/ task[t].st = "exiting"
        /\ Threads(p) = {t} => MayEnd(t)
        /\ task' = [q \in Pids |->
              IF q \in gone THEN FreeTask(q, task[q].gen, IdleComm)
              ELSE IF q = t THEN [task[q] EXCEPT !.st = "zombie"]
              ELSE task[q]]
        /\ asked' = [asked EXCEPT ![p] = IF p \in gone THEN {} ELSE @]
        /\ TraceExit(t)
        /\ UNCHANGED PARENT_MAP

KernelNext ==
    \E t \in Pids :
        \/ \E c \in Pids : Fork(t, c) \/ CloneThread(t, c)
        \/ \E comm \in Comms : Exec(t, comm) \/ SetTitle(t, comm)
        \/ \E a \in Accesses, f \in Paths : FileAccess(t, a, f)
        \/ \E code \in Codes : ExitGroup(t, code)
        \/ Exit(t)
=============================================================================
