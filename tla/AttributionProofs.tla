--------------------------- MODULE AttributionProofs ---------------------------
(***************************************************************************)
(* Which operation a file access is credited to, and who may open one.     *)
(*                                                                         *)
(* Without reuse a tid belongs to one process for good.  Lineage(P, A)     *)
(* says that P gives each tid's process and A its ancestors, and that the  *)
(* links of PARENT_MAP, of the records on their way and of the tree all    *)
(* lead to a process whose ancestors are ancestors of the tid as well.     *)
(* It holds with threads, orphans, bare forks and any losses.              *)
(*                                                                         *)
(* One operation for an invocation rests on the order of the records of a  *)
(* pid (OInv): what the tree forgot at an exit never comes again.          *)
(*                                                                         *)
(* With reuse, and a workload that loses nothing and keeps its ancestors,  *)
(* Heritage(A, L, V) gives each incarnation its ancestors and its parent,  *)
(* and each pid the incarnation the tree knows it by: the one that its     *)
(* next record is about.  It carries isolation and, because the links in   *)
(* the tree and those on their way are complete, inheritance.              *)
(***************************************************************************)
EXTENDS ObservationProofs

Used(t) == task[t].gen # 0

\* Every link leads from a tid to one with no other ancestors.
LinksDescend(A, link) ==
    \A t \in Pids : link[t] # NoPid =>
        Used(t) /\ Used(link[t]) /\ A[link[t]] \subseteq A[t]

\* The records that tell the truth about P and A.
Known(P, A) ==
    {e \in Record :
        /\ Used(e.pid) /\ e.src.inc = <<P[e.pid], 1>> /\ e.src.anc = A[e.pid]
        /\ e.type = "exec" /\ e.ppid # NoPid =>
              Used(e.ppid) /\ A[e.ppid] \subseteq A[e.pid]}

\* The kernel's part, and the agent's.
KernelLineage(P, A) ==
    /\ P \in [Pids -> Pids] /\ A \in [Pids -> SUBSET Incarnations]
    /\ \A t \in Pids : task[t].st # "free" =>
          P[t] = task[t].tgid /\ A[t] = task[task[t].tgid].anc
    /\ \A t \in Pids : Used(t) => <<P[t], 1>> \in A[t]
    /\ LinksDescend(A, PARENT_MAP)
    /\ EVENTS \in Seq(Known(P, A))

TreeLineage(P, A) ==
    /\ LinksDescend(A, parents)
    /\ \A t \in Pids : tracked[t] # NoPid =>
          Used(t) /\ Used(tracked[t]) /\ <<P[tracked[t]], 1>> \in A[t]
    /\ \A r \in Pids : operations[r] # None => rootInc[r] = <<P[r], 1>>

Lineage(P, A) == KernelLineage(P, A) /\ TreeLineage(P, A)

\* Within one generation every pid keeps its process and its ancestors.
LInv == TInv /\ \E P, A : Lineage(P, A)

-----------------------------------------------------------------------------
(* The kernel *)

\* What the kernel's steps do that hand out no pid.
LEMMA LineageStays ==
    ASSUME TInv, TInv', NEW P, NEW A, Lineage(P, A), UNCHANGED <<treeVars, rootInc>>,
           \A t \in Pids : /\ task'[t].gen = task[t].gen
                           /\ task'[t].st # "free" =>
                                 /\ task[t].st # "free" /\ task'[t].tgid = task[t].tgid
                                 /\ task'[t].anc = task[t].anc,
           UNCHANGED PARENT_MAP,
           \/ UNCHANGED EVENTS
           \/ \E e \in Known(P, A) : EVENTS' = Append(EVENTS, e)
    PROVE  Lineage(P, A)'
<1>1. \A t \in Pids : Used(t)' <=> Used(t)
  BY DEF Used
<1>2. Known(P, A)' = Known(P, A)
  <2>1. \A e \in Record : e.pid \in Pids /\ (e.type = "exec" => e.ppid \in Pids \cup {NoPid})
    BY DEF Record, ProcessExecEvent, ProcessExitEvent, FileAccessEvent
  <2>2. QED BY <1>1, <2>1 DEF Known
<1>3. EVENTS' \in Seq(Known(P, A)')
  <2> HIDE DEF Known
  <2>1. EVENTS \in Seq(Known(P, A))
    BY DEF Lineage, KernelLineage
  <2>2. QED BY <1>2, <2>1
<1>4. \A t \in Pids : task'[t].st # "free" =>
         P[t] = task'[t].tgid /\ A[t] = task'[task'[t].tgid].anc
  <2> SUFFICES ASSUME NEW t \in Pids, task'[t].st # "free"
               PROVE  P[t] = task'[t].tgid /\ A[t] = task'[task'[t].tgid].anc
    OBVIOUS
  <2>1. task'[t].tgid \in Pids /\ task'[task'[t].tgid].st # "free"
    BY DEF TInv, CInv, TasksAreGrouped, SomeTask
  <2>2. QED BY <2>1 DEF Lineage, KernelLineage
<1>5. LinksDescend(A, PARENT_MAP)' /\ LinksDescend(A, parents)'
  <2>1. /\ PARENT_MAP \in [Pids -> Pids \cup {NoPid}]
        /\ parents \in [Pids -> Pids \cup {NoPid}]
    BY DEF TInv, TypeOK, KernelTypeOK, Tree!TypeOK
  <2>2. QED
    BY <1>1, <2>1 DEF LinksDescend, Lineage, KernelLineage, TreeLineage, treeVars
<1>6. KernelLineage(P, A)'
  BY <1>1, <1>3, <1>4, <1>5 DEF KernelLineage, Lineage
<1>7. TreeLineage(P, A)'
  <2>1. tracked \in [Pids -> Pids \cup {NoPid}]
    BY DEF TInv, TypeOK, Tree!TypeOK
  <2>2. QED BY <1>1, <1>5, <2>1 DEF TreeLineage, Lineage, treeVars
<1>8. QED BY <1>6, <1>7 DEF Lineage

\* The truth about the process of a tid in use.
LEMMA SourceIsKnown ==
    ASSUME TInv, MaxGen = 1, NEW P, NEW A, Lineage(P, A), NEW t \in Pids, task[t].st # "free"
    PROVE  Used(t) /\ Source(t).inc = <<P[t], 1>> /\ Source(t).anc = A[t]
<1> DEFINE p == task[t].tgid
<1>1. p \in Pids /\ task[p].st # "free" /\ P[t] = p /\ A[t] = task[p].anc
  BY DEF TInv, CInv, TasksAreGrouped, SomeTask, Lineage, KernelLineage
<1>2. task[p].gen = 1 /\ task[t].gen # 0
  <2>1. task[p].gen \in 0..1 /\ task[p].gen # 0 /\ task[t].gen # 0
    BY <1>1 DEF TInv, Started, TypeOK, KernelTypeOK, Task
  <2>2. QED BY <2>1
<1>3. QED BY <1>1, <1>2 DEF Used, Source, Inc

\* What a probe writes about it.
LEMMA OutputIsKnown ==
    ASSUME TInv, NEW P, NEW A, NEW e \in Known(P, A), Output(e)
    PROVE  \/ UNCHANGED EVENTS
           \/ \E x \in Known(P, A) : EVENTS' = Append(EVENTS, x)
BY DEF Output

\* A new task c, created by t, joins t's process or starts one of its own.
LEMMA LineageGrows ==
    ASSUME TInv, TInv', NEW P, NEW A, Lineage(P, A),
           UNCHANGED <<treeVars, rootInc, EVENTS>>,
           NEW t \in Pids, NEW c \in Pids, task[t].st # "free", ~Used(c),
           NEW new, task' = [task EXCEPT ![c] = new], new.gen = 1,
           NEW a \in SUBSET Incarnations, A[t] \subseteq a, <<new.tgid, 1>> \in a,
           \/ new.tgid = c /\ new.anc = a
           \/ new.tgid = task[t].tgid /\ a = A[t],
           PARENT_MAP' \in LruInserts(PARENT_MAP, c, task[t].tgid, NoPid)
    PROVE  \E P1, A1 : Lineage(P1, A1)'
<1> DEFINE p == task[t].tgid
           P1 == [P EXCEPT ![c] = new.tgid]
           A1 == [A EXCEPT ![c] = a]
<1>1. /\ task \in [Pids -> Task] /\ p \in Pids /\ task[p].st # "free" /\ task[p].tgid = p
      /\ P \in [Pids -> Pids] /\ A \in [Pids -> SUBSET Incarnations]
      /\ PARENT_MAP \in [Pids -> Pids \cup {NoPid}] /\ parents \in [Pids -> Pids \cup {NoPid}]
      /\ tracked \in [Pids -> Pids \cup {NoPid}]
  BY DEF TInv, CInv, TasksAreGrouped, SomeTask, Lineage, KernelLineage, TypeOK,
         KernelTypeOK, Tree!TypeOK
<1>2. /\ Used(t) /\ Used(p) /\ c # t /\ c # p /\ task[c].st = "free" /\ new.tgid \in Pids
      /\ A[p] = A[t]
  BY <1>1 DEF TInv, Started, Used, Lineage, KernelLineage
<1>3. /\ P1 \in [Pids -> Pids] /\ A1 \in [Pids -> SUBSET Incarnations]
      /\ P1[c] = new.tgid /\ A1[c] = a
      /\ \A q \in Pids \ {c} : P1[q] = P[q] /\ A1[q] = A[q]
  BY <1>1, <1>2
<1>4. \A q \in Pids : Used(q)' <=> Used(q) \/ q = c
  BY <1>1 DEF Used
<1> HIDE DEF P1, A1
<1>5. Known(P, A) \subseteq Known(P1, A1)'
  <2> SUFFICES ASSUME NEW e \in Known(P, A) PROVE e \in Known(P1, A1)'
    OBVIOUS
  <2>1. e.pid \in Pids /\ (e.type = "exec" => e.ppid \in Pids \cup {NoPid}) /\ e \in Record
    BY DEF Known, Record, ProcessExecEvent, ProcessExitEvent, FileAccessEvent
  <2>2. e.pid # c /\ (e.type = "exec" => e.ppid # c)
    BY NoPidAssumption DEF Known
  <2>3. QED BY <1>3, <1>4, <2>1, <2>2 DEF Known
<1>6. EVENTS' \in Seq(Known(P1, A1)')
  <2>1. EVENTS \in Seq(Known(P, A))
    BY DEF Lineage, KernelLineage
  <2> HIDE DEF Known
  <2>2. QED BY <1>5, <2>1
<1>7. \A q \in Pids : task'[q].st # "free" =>
         P1[q] = task'[q].tgid /\ A1[q] = task'[task'[q].tgid].anc
  <2> SUFFICES ASSUME NEW q \in Pids, task'[q].st # "free"
               PROVE  P1[q] = task'[q].tgid /\ A1[q] = task'[task'[q].tgid].anc
    OBVIOUS
  <2>1. CASE q = c
    <3>1. task'[c].tgid = new.tgid
      BY <1>1
    <3>2. CASE new.tgid = c /\ new.anc = a
      BY <1>1, <1>3, <2>1, <3>2
    <3>3. CASE new.tgid = p /\ a = A[t]
      <4>1. task'[p].anc = task[p].anc /\ A[t] = task[p].anc
        BY <1>1, <1>2 DEF Lineage, KernelLineage
      <4>2. QED BY <1>3, <2>1, <3>1, <3>3, <4>1
    <3>4. QED BY <3>2, <3>3
  <2>2. CASE q # c
    <3>1. task[q].st # "free" /\ task'[q] = task[q]
      BY <1>1, <2>2
    <3>2. task[q].tgid \in Pids /\ task[task[q].tgid].st # "free"
      BY <3>1 DEF TInv, CInv, TasksAreGrouped, SomeTask
    <3>3. task'[task[q].tgid] = task[task[q].tgid]
      BY <1>1, <1>2, <3>2
    <3>4. QED BY <1>3, <2>2, <3>1, <3>3 DEF Lineage, KernelLineage
  <2>3. QED BY <2>1, <2>2
<1>8. \A q \in Pids : Used(q)' => <<P1[q], 1>> \in A1[q]
  BY <1>3, <1>4 DEF Lineage, KernelLineage
<1>9. LinksDescend(A1, PARENT_MAP)'
  <2>1. PARENT_MAP'[c] = p /\ \A q \in Pids \ {c} : PARENT_MAP'[q] \in {PARENT_MAP[q], NoPid}
    BY <1>1, ParentsKeep
  <2>2. A1[p] \subseteq A1[c]
    BY <1>1, <1>2, <1>3
  <2>3. \A q \in Pids : PARENT_MAP[q] # NoPid => q # c /\ PARENT_MAP[q] # c
    BY DEF Lineage, KernelLineage, LinksDescend
  <2>4. QED BY <1>1, <1>2, <1>3, <1>4, <2>1, <2>2, <2>3
            DEF Lineage, KernelLineage, LinksDescend
<1>10. TreeLineage(P1, A1)'
  <2>1. /\ \A q \in Pids : parents[q] # NoPid => q # c /\ parents[q] # c
        /\ \A q \in Pids : tracked[q] # NoPid => q # c /\ tracked[q] # c
    BY DEF Lineage, TreeLineage, LinksDescend
  <2>2. LinksDescend(A1, parents)'
    BY <1>1, <1>3, <1>4, <2>1 DEF Lineage, TreeLineage, LinksDescend, treeVars
  <2>3. \A q \in Pids : tracked[q] # NoPid =>
           Used(q)' /\ Used(tracked[q])' /\ <<P1[tracked[q]], 1>> \in A1[q]
    BY <1>1, <1>3, <1>4, <2>1 DEF Lineage, TreeLineage, treeVars
  <2>4. \A r \in Pids : operations[r] # None => r # c
    BY NoPidAssumption, <2>1 DEF TInv, Tree!Inv, Tree!OpenRootsAreTracked
  <2>5. QED
    BY <1>3, <2>2, <2>3, <2>4 DEF Lineage, TreeLineage, treeVars
<1>11. Lineage(P1, A1)'
  BY <1>3, <1>6, <1>7, <1>8, <1>9, <1>10 DEF Lineage, KernelLineage
<1>12. QED BY <1>11

LEMMA ForkLineage ==
    ASSUME TInv, TInv', MaxGen = 1, NEW P, NEW A, Lineage(P, A),
           UNCHANGED <<treeVars, rootInc>>, NEW t \in Pids, NEW c \in Pids, Fork(t, c)
    PROVE  \E P1, A1 : Lineage(P1, A1)'
<1> DEFINE p == task[t].tgid
<1>1. PICK new, a : /\ new = [st |-> "forked", tgid |-> c, comm |-> task[t].comm,
                              gen |-> task[c].gen + 1, invoked |-> FALSE, anc |-> a]
                    /\ a = task[p].anc \cup {<<c, task[c].gen + 1>>}
  OBVIOUS
<1>2. /\ task' = [task EXCEPT ![c] = new]
      /\ PARENT_MAP' \in LruInserts(PARENT_MAP, c, p, NoPid) /\ UNCHANGED EVENTS
      /\ task[t].st # "free" /\ task[c].gen < 1 /\ task[c].gen \in Nat
  BY <1>1 DEF Fork, TraceFork, Acts, Available, TInv, TypeOK, KernelTypeOK, Task
<1>3. task[c].gen = 0 /\ ~Used(c) /\ new.gen = 1 /\ new.tgid = c /\ new.anc = a
  BY <1>1, <1>2 DEF Used
<1>4. A[t] = task[p].anc /\ A[t] \in SUBSET Incarnations
  BY <1>2 DEF Lineage, KernelLineage
<1>5. <<c, 1>> \in Incarnations /\ a = A[t] \cup {<<c, 1>>}
  BY <1>1, <1>3, <1>4 DEF Incarnations
<1> HIDE DEF p
<1>6. a \in SUBSET Incarnations /\ A[t] \subseteq a /\ <<new.tgid, 1>> \in a
  BY <1>3, <1>4, <1>5
<1> USE DEF p
<1>7. QED BY <1>2, <1>3, <1>6, LineageGrows

LEMMA CloneLineage ==
    ASSUME TInv, TInv', MaxGen = 1, NEW P, NEW A, Lineage(P, A),
           UNCHANGED <<treeVars, rootInc>>, NEW t \in Pids, NEW c \in Pids, CloneThread(t, c)
    PROVE  \E P1, A1 : Lineage(P1, A1)'
<1> DEFINE p == task[t].tgid
<1>1. PICK new : new = [FreeTask(c, task[c].gen + 1, task[t].comm) EXCEPT
                          !.st = "live", !.tgid = p]
  OBVIOUS
<1>2. /\ task' = [task EXCEPT ![c] = new]
      /\ PARENT_MAP' \in LruInserts(PARENT_MAP, c, p, NoPid) /\ UNCHANGED EVENTS
      /\ task[t].st # "free" /\ task[c].gen < 1 /\ task[c].gen \in Nat
  BY <1>1 DEF CloneThread, TraceFork, Acts, Available, TInv, TypeOK, KernelTypeOK, Task
<1>3. task[c].gen = 0 /\ ~Used(c) /\ new.gen = 1 /\ new.tgid = p
  BY <1>1, <1>2 DEF Used, FreeTask
<1>4. A[t] \in SUBSET Incarnations /\ <<p, 1>> \in A[t]
  <2>1. P[t] = p /\ Used(t)
    BY <1>2 DEF Lineage, KernelLineage, TInv, Started, Used
  <2>2. QED BY <2>1 DEF Lineage, KernelLineage
<1>5. QED BY <1>2, <1>3, <1>4, LineageGrows

LEMMA ExecLineage ==
    ASSUME TInv, TInv', MaxGen = 1, NEW P, NEW A, Lineage(P, A),
           UNCHANGED <<treeVars, rootInc>>, NEW t \in Pids, NEW comm \in Comms, Exec(t, comm)
    PROVE  Lineage(P, A)'
<1> DEFINE src == [Source(t) EXCEPT !.invoked = (comm \in Whitelist)]
           e == [type |-> "exec", pid |-> t, ppid |-> PARENT_MAP[t], comm |-> comm,
                 src |-> src]
<1>1. task[t].st # "free" /\ task \in [Pids -> Task] /\ PARENT_MAP[t] \in Pids \cup {NoPid}
  BY DEF Exec, TInv, TypeOK, KernelTypeOK
<1>2. Used(t) /\ Source(t).inc = <<P[t], 1>> /\ Source(t).anc = A[t] /\ Source(t) \in Truth
  BY <1>1, SourceIsKnown, SourceType
<1>3. src \in Truth /\ src.inc = <<P[t], 1>> /\ src.anc = A[t]
  <2>1. (comm \in Whitelist) \in BOOLEAN
    OBVIOUS
  <2>2. QED BY <1>2, <2>1 DEF Truth
<1> HIDE DEF src
<1>4. e \in Record
  BY <1>1, <1>3 DEF Record, ProcessExecEvent
<1>5. PARENT_MAP[t] # NoPid => Used(PARENT_MAP[t]) /\ A[PARENT_MAP[t]] \subseteq A[t]
  BY DEF Lineage, KernelLineage, LinksDescend
<1>6. e \in Known(P, A)
  BY <1>2, <1>3, <1>4, <1>5 DEF Known
<1>7. Output(e) /\ UNCHANGED PARENT_MAP
  BY DEF Exec, TraceExec, src
<1>8. \A q \in Pids : /\ task'[q].gen = task[q].gen
                      /\ task'[q].st # "free" =>
                            /\ task[q].st # "free" /\ task'[q].tgid = task[q].tgid
                            /\ task'[q].anc = task[q].anc
  BY <1>1 DEF Exec, Task
<1> HIDE DEF e
<1>9. QED BY <1>6, <1>7, <1>8, OutputIsKnown, LineageStays

LEMMA TitleLineage ==
    ASSUME TInv, TInv', NEW P, NEW A, Lineage(P, A),
           UNCHANGED <<treeVars, rootInc>>, NEW t \in Pids, NEW comm, SetTitle(t, comm)
    PROVE  Lineage(P, A)'
<1>1. task \in [Pids -> Task]
  BY DEF TInv, TypeOK, KernelTypeOK
<1>2. \A q \in Pids : /\ task'[q].gen = task[q].gen
                      /\ task'[q].st # "free" =>
                            /\ task[q].st # "free" /\ task'[q].tgid = task[q].tgid
                            /\ task'[q].anc = task[q].anc
  BY <1>1 DEF SetTitle, Task
<1>3. UNCHANGED <<PARENT_MAP, EVENTS>>
  BY DEF SetTitle
<1>4. QED BY <1>2, <1>3, LineageStays

LEMMA AccessLineage ==
    ASSUME TInv, TInv', MaxGen = 1, NEW P, NEW A, Lineage(P, A),
           UNCHANGED <<treeVars, rootInc>>, NEW t \in Pids, NEW a \in Accesses,
           NEW f \in Paths, FileAccess(t, a, f)
    PROVE  Lineage(P, A)'
<1> DEFINE e == [type |-> "file", pid |-> t, access |-> a, comm |-> task[t].comm,
                 path |-> f, src |-> Source(t)]
<1>1. task[t].st # "free" /\ task[t].comm \in Comms
  BY DEF FileAccess, Acts, TInv, TypeOK, KernelTypeOK, Task
<1>2. Used(t) /\ Source(t).inc = <<P[t], 1>> /\ Source(t).anc = A[t] /\ Source(t) \in Truth
  BY <1>1, SourceIsKnown, SourceType
<1>3. e \in Record
  BY <1>1, <1>2 DEF Record, FileAccessEvent
<1>4. e \in Known(P, A)
  BY <1>2, <1>3 DEF Known
<1>5. Output(e) /\ UNCHANGED <<task, PARENT_MAP>>
  BY DEF FileAccess, EmitFileAccess
<1> HIDE DEF e
<1>6. QED BY <1>4, <1>5, OutputIsKnown, LineageStays

LEMMA ExitGroupLineage ==
    ASSUME TInv, TInv', NEW P, NEW A, Lineage(P, A),
           UNCHANGED <<treeVars, rootInc>>, NEW t \in Pids, NEW code, ExitGroup(t, code)
    PROVE  Lineage(P, A)'
<1>1. task \in [Pids -> Task] /\ task[t].st # "free"
  BY DEF TInv, TypeOK, KernelTypeOK, ExitGroup, Acts
<1>2. \A q \in Pids : /\ task'[q].gen = task[q].gen
                      /\ task'[q].st # "free" =>
                            /\ task[q].st # "free" /\ task'[q].tgid = task[q].tgid
                            /\ task'[q].anc = task[q].anc
  BY <1>1 DEF ExitGroup, Task
<1>3. UNCHANGED <<PARENT_MAP, EVENTS>>
  BY DEF ExitGroup
<1>4. QED BY <1>2, <1>3, LineageStays

LEMMA ExitLineage ==
    ASSUME TInv, TInv', MaxGen = 1, NEW P, NEW A, Lineage(P, A),
           UNCHANGED <<treeVars, rootInc>>, NEW t \in Pids, Exit(t)
    PROVE  Lineage(P, A)'
<1> DEFINE gone == IF Threads(task[t].tgid) = {t} THEN {t, task[t].tgid}
                   ELSE {t} \ {task[t].tgid}
           e == ExitRecord(t, EXIT_CODES[task[t].tgid])
<1>1. task \in [Pids -> Task] /\ task[t].st # "free"
  BY DEF TInv, TypeOK, KernelTypeOK, Exit, Alive
<1>2. /\ task' = [q \in Pids |->
              IF q \in gone THEN FreeTask(q, task[q].gen, IdleComm)
              ELSE IF q = t THEN [task[q] EXCEPT !.st = "zombie"]
              ELSE task[q]]
      /\ Output(e) /\ UNCHANGED PARENT_MAP
  BY DEF Exit, TraceExit
<1> HIDE DEF gone
<1>3. \A q \in Pids : /\ task'[q].gen = task[q].gen
                      /\ task'[q].st # "free" =>
                            /\ task[q].st # "free" /\ task'[q].tgid = task[q].tgid
                            /\ task'[q].anc = task[q].anc
  BY <1>1, <1>2 DEF FreeTask, Task
<1>4. Used(t) /\ Source(t).inc = <<P[t], 1>> /\ Source(t).anc = A[t]
  BY <1>1, SourceIsKnown
<1>5. e \in Record
  BY <1>1, ExitRecordType
<1>6. e \in Known(P, A)
  BY <1>4, <1>5 DEF Known, ExitRecord
<1> HIDE DEF e
<1>7. QED BY <1>2, <1>3, <1>6, OutputIsKnown, LineageStays

LEMMA KernelStepLineage ==
    ASSUME TInv, TInv', MaxGen = 1, NEW P, NEW A, Lineage(P, A), Kernel
    PROVE  \E P1, A1 : Lineage(P1, A1)'
<1>1. KernelNext /\ UNCHANGED <<treeVars, rootInc>>
  BY DEF Kernel, agentVars, history
<1>2. QED
  BY <1>1, ForkLineage, CloneLineage, ExecLineage, TitleLineage, AccessLineage,
     ExitGroupLineage, ExitLineage
     DEF KernelNext

-----------------------------------------------------------------------------
(* The agent *)

\* Whom the parent walk visits has no other ancestors than where it starts.
LEMMA WalkDescends ==
    ASSUME NEW A, NEW p \in Pids, Used(p), NEW par \in [Pids -> Pids \cup {NoPid}],
           LinksDescend(A, par)
    PROVE  \A k \in 0..MaxWalk :
              LET q == Tree!Ancestors(p, par)[k]
              IN  q # NoPid => Used(q) /\ A[q] \subseteq A[p]
<1> DEFINE up == Tree!Ancestors(p, par)
           Strays == {k \in 0..MaxWalk :
                        up[k] # NoPid /\ ~ (Used(up[k]) /\ A[up[k]] \subseteq A[p])}
<1>1. /\ up \in [0..MaxWalk -> Pids \cup {NoPid}] /\ up[0] = p
      /\ \A k \in 1..MaxWalk : up[k] = IF up[k - 1] = NoPid THEN NoPid ELSE par[up[k - 1]]
  BY WalkFollowsLinks
<1> HIDE DEF up
<1>2. SUFFICES ASSUME Strays # {} PROVE FALSE
  BY DEF up
<1>3. Strays \subseteq Nat
  OBVIOUS
<1>4. PICK k \in Strays : \A j \in Strays : k <= j
  <2> HIDE DEF Strays
  <2>1. QED BY <1>2, <1>3, LeastElement
<1>5. /\ k \in 1..MaxWalk /\ up[k] # NoPid
      /\ ~ (Used(up[k]) /\ A[up[k]] \subseteq A[p])
  BY <1>1, <1>4
<1>6. k - 1 \in 0..MaxWalk /\ ~ (k <= k - 1)
  BY <1>5, MaxWalkAssumption
<1>7. k - 1 \notin Strays
  <2> HIDE DEF Strays
  <2>1. QED BY <1>4, <1>6
<1>8. up[k - 1] # NoPid /\ up[k] = par[up[k - 1]] /\ up[k - 1] \in Pids
  BY <1>1, <1>5, <1>6
<1>9. Used(up[k - 1]) /\ A[up[k - 1]] \subseteq A[p]
  BY <1>6, <1>7, <1>8
<1>10. Used(up[k]) /\ A[up[k]] \subseteq A[up[k - 1]]
  BY <1>5, <1>8 DEF LinksDescend
<1>11. QED BY <1>5, <1>9, <1>10

\* The record dispatch takes and the links it is attributed with.
LEMMA TakenIsKnown ==
    ASSUME TInv, NEW P, NEW A, Lineage(P, A), Dispatch
    PROVE  /\ Head1 \in Known(P, A) /\ EVENTS' \in Seq(Known(P, A))
           /\ Head1.pid \in Pids /\ Linked(Head1) \in [Pids -> Pids \cup {NoPid}]
           /\ LinksDescend(A, Linked(Head1))
<1>1. Head1 \in Known(P, A) /\ EVENTS' \in Seq(Known(P, A))
  <2>1. EVENTS # <<>> /\ EVENTS' = Tail(EVENTS) /\ EVENTS \in Seq(Known(P, A))
    BY DEF Dispatch, Lineage, KernelLineage
  <2> HIDE DEF Known
  <2>2. QED BY <2>1 DEF Head1
<1>2. Head1.pid \in Pids /\ (Head1.type = "exec" => Head1.ppid \in Pids \cup {NoPid})
  BY <1>1 DEF Known, Record, ProcessExecEvent, ProcessExitEvent, FileAccessEvent
<1>3. parents \in [Pids -> Pids \cup {NoPid}]
  BY DEF TInv, TypeOK, Tree!TypeOK
<1>4. Linked(Head1) \in [Pids -> Pids \cup {NoPid}] /\ LinksDescend(A, Linked(Head1))
  BY <1>1, <1>2, <1>3 DEF Known, Linked, LinksDescend, Lineage, TreeLineage
<1>5. QED BY <1>1, <1>2, <1>4

\* The root a record is attributed to belongs to a process that is an ancestor
\* of the record's.
LEMMA RootIsAncestor ==
    ASSUME TInv, NEW P, NEW A, Lineage(P, A), Dispatch, RootFor(Head1) # NoPid
    PROVE  Used(RootFor(Head1)) /\ <<P[RootFor(Head1)], 1>> \in A[Head1.pid]
<1> DEFINE p == Head1.pid
           par == Linked(Head1)
<1>1. p \in Pids /\ Used(p) /\ par \in [Pids -> Pids \cup {NoPid}] /\ LinksDescend(A, par)
  BY TakenIsKnown DEF Known
<1> HIDE DEF p, par
<1>2. \A q \in Pids : tracked[q] # NoPid =>
         Used(q) /\ Used(tracked[q]) /\ <<P[tracked[q]], 1>> \in A[q]
  BY DEF Lineage, TreeLineage
<1>3. CASE tracked[p] # NoPid
  BY <1>1, <1>2, <1>3 DEF RootFor, Tree!RootOf, p
<1>4. CASE tracked[p] = NoPid /\ Head1.comm \in Whitelist
  BY <1>1, <1>4 DEF RootFor, Tree!RootOf, p, Lineage, KernelLineage
<1>5. CASE tracked[p] = NoPid /\ Head1.comm \notin Whitelist
  <2>1. RootFor(Head1) = Tree!InheritedRoot(p, par)
    BY <1>5 DEF RootFor, Tree!RootOf, p, par
  <2>2. PICK k \in 1..MaxWalk :
           LET q == Tree!Ancestors(p, par)[k]
           IN  q \in Pids /\ tracked[q] # NoPid /\ Tree!InheritedRoot(p, par) = tracked[q]
    BY <1>1, <2>1, InheritedRootIsSeen
  <2> DEFINE q == Tree!Ancestors(p, par)[k]
  <2>3. q \in Pids /\ q # NoPid /\ k \in 0..MaxWalk
    BY <2>2, NoPidAssumption, MaxWalkAssumption
  <2>4. A[q] \subseteq A[p]
    BY <1>1, <2>3, WalkDescends
  <2> HIDE DEF q
  <2>5. tracked[q] # NoPid /\ RootFor(Head1) = tracked[q]
    BY <2>1, <2>2 DEF q
  <2>6. QED BY <1>2, <2>3, <2>4, <2>5 DEF p
<1>6. QED BY <1>3, <1>4, <1>5

LEMMA DispatchLineage ==
    ASSUME TInv, TInv', NEW P, NEW A, Lineage(P, A), Dispatch
    PROVE  Lineage(P, A)'
<1> DEFINE e == Head1
           p == e.pid
           root == RootFor(e)
<1>1. /\ e \in Known(P, A) /\ EVENTS' \in Seq(Known(P, A)) /\ p \in Pids
      /\ LinksDescend(A, Linked(e)) /\ Linked(e) \in [Pids -> Pids \cup {NoPid}]
  BY TakenIsKnown
<1>2. Attributes(e)
  BY DispatchAttributes
<1>3. UNCHANGED <<task, PARENT_MAP>>
  BY DEF Dispatch
<1>4. Known(P, A)' = Known(P, A)
  BY <1>3 DEF Known, Used
<1>5. KernelLineage(P, A)'
  <2> HIDE DEF Known
  <2>1. EVENTS' \in Seq(Known(P, A)')
    BY <1>1, <1>4
  <2>2. QED BY <1>3, <2>1 DEF Lineage, KernelLineage, LinksDescend, Used
<1>6. Used(p) /\ (root # NoPid => Used(root) /\ <<P[root], 1>> \in A[p])
  BY <1>1, RootIsAncestor DEF Known
<1>7. /\ parents' \in [Pids -> Pids \cup {NoPid}] /\ tracked \in [Pids -> Pids \cup {NoPid}]
      /\ \A q \in Pids : parents'[q] \in {Linked(e)[q], NoPid}
      /\ \A q \in Pids : tracked'[q] = tracked[q] \/ (q = p /\ tracked'[q] \in {root, NoPid})
  <2>1. /\ parents \in [Pids -> Pids \cup {NoPid}] /\ tracked \in [Pids -> Pids \cup {NoPid}]
        /\ parents' \in [Pids -> Pids \cup {NoPid}]
    BY DEF TInv, TypeOK, Tree!TypeOK
  <2>2. e.type = "exit" => Linked(e) = parents
    BY DEF Linked
  <2> HIDE DEF e
  <2>3. parents' \in {[parents EXCEPT ![p] = NoPid], Linked(e)}
        /\ (parents' # Linked(e) => Linked(e) = parents)
    BY <1>2, <2>2 DEF Attributes
  <2>4. \A q \in Pids : parents'[q] \in {Linked(e)[q], NoPid}
    BY <2>1, <2>3
  <2>5. tracked' \in {[tracked EXCEPT ![p] = NoPid], [tracked EXCEPT ![p] = root]}
    BY <1>2 DEF Attributes
  <2> HIDE DEF p, root
  <2>6. \A q \in Pids : tracked'[q] = tracked[q] \/ (q = p /\ tracked'[q] \in {root, NoPid})
    BY <2>1, <2>5
  <2>7. QED BY <2>1, <2>4, <2>6
<1> HIDE DEF root
<1>8. LinksDescend(A, parents)'
  BY <1>1, <1>3, <1>7 DEF LinksDescend, Used
<1>9. \A q \in Pids : tracked'[q] # NoPid =>
         Used(q)' /\ Used(tracked[q])' /\ <<P[tracked'[q]], 1>> \in A[q]
  BY <1>3, <1>6, <1>7 DEF Lineage, TreeLineage, Used
<1>10. \A r \in Pids : operations'[r] # None => rootInc'[r] = <<P[r], 1>>
  <2> SUFFICES ASSUME NEW r \in Pids, operations'[r] # None PROVE rootInc'[r] = <<P[r], 1>>
    OBVIOUS
  <2>1. rootInc'[r] = IF Opens(r) THEN e.src.inc ELSE rootInc[r]
    BY DEF Dispatch
  <2>2. CASE Opens(r)
    BY <1>1, <1>2, <2>1, <2>2 DEF Attributes, Known
  <2>3. CASE ~Opens(r)
    BY <2>1, <2>3 DEF Opens, Lineage, TreeLineage
  <2>4. QED BY <2>2, <2>3
<1>11. QED BY <1>5, <1>8, <1>9, <1>10 DEF Lineage, TreeLineage

LEMMA LineageInit == Init => LInv
<1> SUFFICES ASSUME Init PROVE LInv
  OBVIOUS
<1>1. TInv
  BY TypesInit
<1> DEFINE P == [t \in Pids |-> t]
           A == [t \in Pids |-> {<<t, 1>>}]
<1>2. P \in [Pids -> Pids] /\ A \in [Pids -> SUBSET Incarnations]
  BY BoundsAssumption DEF Incarnations
<1>3. \A t \in Pids : task[t].st # "free" => task[t].tgid = t /\ task[t].anc = {<<t, 1>>}
  BY DEF Init, KernelInit, FreeTask
<1>4. /\ PARENT_MAP = [t \in Pids |-> NoPid] /\ parents = [t \in Pids |-> NoPid]
      /\ tracked = [t \in Pids |-> NoPid] /\ operations = [t \in Pids |-> None]
      /\ EVENTS = <<>>
  BY DEF Init, KernelInit, Tree!Init
<1>5. Lineage(P, A)
  <2>1. EVENTS \in Seq(Known(P, A))
    BY <1>4
  <2>2. \A t \in Pids : task[t].st # "free" =>
           P[t] = task[t].tgid /\ A[t] = task[task[t].tgid].anc
    BY <1>3
  <2>3. QED
    BY <1>2, <1>4, <2>1, <2>2 DEF Lineage, KernelLineage, TreeLineage, LinksDescend
<1>6. QED BY <1>1, <1>5 DEF LInv

LEMMA LineageStep ==
    ASSUME MaxGen = 1
    PROVE  LInv /\ [Next]_vars => LInv'
<1> SUFFICES ASSUME LInv, [Next]_vars PROVE LInv'
  OBVIOUS
<1>1. TInv /\ TInv'
  BY TypesStep DEF LInv
<1>2. PICK P, A : Lineage(P, A)
  BY DEF LInv
<1>3. CASE Kernel
  BY <1>1, <1>2, <1>3, KernelStepLineage DEF LInv
<1>4. CASE Dispatch
  BY <1>1, <1>2, <1>4, DispatchLineage DEF LInv
<1>5. CASE /\ UNCHANGED <<kernelVars, parents, tracked>>
           /\ UNCHANGED <<operations, rootInc>> \/ operations' = [r \in Pids |-> None]
  <2>1. Lineage(P, A)'
    BY <1>2, <1>5
       DEF kernelVars, Lineage, KernelLineage, TreeLineage, LinksDescend, Known, Used
  <2>2. QED BY <1>1, <2>1 DEF LInv
<1>6. CASE DrainDone \/ Tick \/ Stopped \/ Signal \/ Finalize \/ UNCHANGED vars
  BY <1>5, <1>6 DEF DrainDone, Tick, Stopped, Signal, Finalize, Tree!FinalizeAll, vars,
                    agentVars, treeVars, history
<1>7. QED BY <1>3, <1>4, <1>6 DEF Next, Agent

-----------------------------------------------------------------------------
(* One operation per invocation *)

\* Every process has one thread, and a forked child execs before it acts.
Sequential == Workload \cap {"threads", "bare_fork"} = {}

Gen(e) == e.src.inc[2]

\* The records of processes whose comm is of the whitelist only if invoked.
Faithful ==
    {e \in Record : e.src.inc[1] = e.pid /\ (e.comm \in Whitelist => e.src.invoked)}

Invoked ==
    /\ \A t \in Pids :
          /\ task[t].tgid = t
          /\ task[t].st \in {"live", "exiting"} /\ task[t].comm \in Whitelist =>
                task[t].invoked
    /\ EVENTS \in Seq(Faithful)

\* The records of a pid come in the order of its processes, and none of a
\* process after its exit record.
Ordered ==
    /\ \A i, j \in 1..Len(EVENTS) : i < j /\ EVENTS[i].pid = EVENTS[j].pid =>
          /\ Gen(EVENTS[i]) <= Gen(EVENTS[j])
          /\ EVENTS[i].type = "exit" => Gen(EVENTS[i]) < Gen(EVENTS[j])
    /\ \A i \in 1..Len(EVENTS) :
          LET e == EVENTS[i]
          IN  /\ Gen(e) <= task[e.pid].gen
              /\ e.type = "exit" /\ Gen(e) = task[e.pid].gen => task[e.pid].st = "free"

\* The process u has ended and none of its records is left.
Spent(u) ==
    /\ task[u[1]].gen = u[2] => task[u[1]].st = "free"
    /\ \A i \in 1..Len(EVENTS) : EVENTS[i].src.inc # u

\* The tree remembers who opened an operation as long as a record of it can come.
Remembered ==
    \A u \in opened :
        /\ u[2] <= task[u[1]].gen
        /\ \A i \in 1..Len(EVENTS) : EVENTS[i].pid = u[1] => u[2] <= Gen(EVENTS[i])
        /\ tracked[u[1]] # NoPid \/ Spent(u)

OInv == Invoked /\ Ordered /\ Remembered

LEMMA RecordFields ==
    ASSUME TInv, Invoked
    PROVE  \A i \in 1..Len(EVENTS) :
              LET e == EVENTS[i]
              IN  /\ e \in Record /\ e.pid \in Pids /\ e.src.inc = <<e.pid, Gen(e)>>
                  /\ Gen(e) \in Nat /\ (e.comm \in Whitelist => e.src.invoked)
<1>1. \A e \in Faithful : /\ e \in Record /\ e.pid \in Pids /\ e.src.inc = <<e.pid, Gen(e)>>
                          /\ Gen(e) \in Nat /\ (e.comm \in Whitelist => e.src.invoked)
  <2> SUFFICES ASSUME NEW e \in Faithful
               PROVE  /\ e \in Record /\ e.pid \in Pids /\ e.src.inc = <<e.pid, Gen(e)>>
                      /\ Gen(e) \in Nat /\ (e.comm \in Whitelist => e.src.invoked)
    OBVIOUS
  <2>1. e \in Record /\ e.src.inc[1] = e.pid /\ (e.comm \in Whitelist => e.src.invoked)
    BY DEF Faithful
  <2>2. e.pid \in Pids /\ e.src.inc \in Pids \X (1..MaxGen)
    BY <2>1 DEF Record, ProcessExecEvent, ProcessExitEvent, FileAccessEvent, Truth, Incarnations
  <2>3. QED BY <2>1, <2>2, BoundsAssumption DEF Gen
<1>2. QED BY <1>1 DEF Invoked

\* What a step of the kernel leaves of the order.
LEMMA OrderStays ==
    ASSUME TInv, TInv', OInv, Invoked', UNCHANGED <<tracked, opened>>,
           \A q \in Pids : \/ /\ task'[q].gen = task[q].gen
                              /\ task[q].st = "free" => task'[q].st = "free"
                           \/ task'[q].gen > task[q].gen,
           \/ UNCHANGED EVENTS
           \/ \E e \in Record : /\ EVENTS' = Append(EVENTS, e)
                                /\ e.src.inc = <<e.pid, task[e.pid].gen>>
                                /\ task[e.pid].st # "free"
                                /\ task'[e.pid].gen = task[e.pid].gen
                                /\ e.type = "exit" => task'[e.pid].st = "free"
    PROVE  OInv'
<1>1. \A q \in Pids : task[q].gen \in Nat /\ task'[q].gen \in Nat
  BY BoundsAssumption DEF TInv, TypeOK, KernelTypeOK, Task
<1>2. \A u \in opened : u[1] \in Pids /\ u[2] \in Nat /\ u = <<u[1], u[2]>>
  BY DEF TInv, TypeOK, Incarnations
<1>3. \A i \in 1..Len(EVENTS) : /\ EVENTS[i].pid \in Pids /\ Gen(EVENTS[i]) \in Nat
                                /\ EVENTS[i].src.inc = <<EVENTS[i].pid, Gen(EVENTS[i])>>
  BY RecordFields DEF OInv
<1>4. CASE UNCHANGED EVENTS
  <2>1. Ordered'
    BY <1>1, <1>3, <1>4 DEF OInv, Ordered
  <2>2. Remembered'
    <3> SUFFICES ASSUME NEW u \in opened
                 PROVE  /\ u[2] <= task'[u[1]].gen
                        /\ \A i \in 1..Len(EVENTS) : EVENTS[i].pid = u[1] => u[2] <= Gen(EVENTS[i])
                        /\ tracked[u[1]] # NoPid \/ Spent(u)'
      BY <1>4 DEF Remembered, Gen
    <3>1. u[1] \in Pids /\ u[2] \in Nat
      BY <1>2
    <3>2. /\ u[2] <= task[u[1]].gen
          /\ \A i \in 1..Len(EVENTS) : EVENTS[i].pid = u[1] => u[2] <= Gen(EVENTS[i])
          /\ tracked[u[1]] # NoPid \/ Spent(u)
      BY DEF OInv, Remembered
    <3>3. u[2] <= task'[u[1]].gen
      BY <1>1, <3>1, <3>2
    <3>4. Spent(u) => Spent(u)'
      BY <1>1, <1>4, <3>1, <3>2 DEF Spent
    <3>5. QED BY <3>2, <3>3, <3>4
  <2>3. QED BY <2>1, <2>2 DEF OInv
<1>5. CASE ~ UNCHANGED EVENTS
  <2>1. PICK e \in Record : /\ EVENTS' = Append(EVENTS, e)
                            /\ e.src.inc = <<e.pid, task[e.pid].gen>>
                            /\ task[e.pid].st # "free"
                            /\ task'[e.pid].gen = task[e.pid].gen
                            /\ e.type = "exit" => task'[e.pid].st = "free"
    BY <1>5
  <2> DEFINE n == Len(EVENTS)
  <2>2. /\ n \in Nat /\ Len(EVENTS') = n + 1 /\ EVENTS'[n + 1] = e
        /\ \A i \in 1..n : EVENTS'[i] = EVENTS[i]
    BY <2>1 DEF TInv, TypeOK, KernelTypeOK
  <2>3. e.pid \in Pids /\ Gen(e) = task[e.pid].gen
    BY <2>1 DEF Gen, Record, ProcessExecEvent, ProcessExitEvent, FileAccessEvent
  <2>4. \A i \in 1..n : EVENTS[i].pid = e.pid =>
           /\ Gen(EVENTS[i]) <= Gen(e)
           /\ EVENTS[i].type = "exit" => Gen(EVENTS[i]) < Gen(e)
    BY <1>1, <1>3, <2>1, <2>3 DEF OInv, Ordered
  <2>5. \A i \in 1..(n + 1) : i \in 1..n \/ i = n + 1
    BY <2>2
  <2> HIDE DEF n
  <2>6. Ordered'
    <3>1. \A i, j \in 1..(n + 1) : i < j /\ EVENTS'[i].pid = EVENTS'[j].pid =>
             /\ Gen(EVENTS'[i]) <= Gen(EVENTS'[j])
             /\ EVENTS'[i].type = "exit" => Gen(EVENTS'[i]) < Gen(EVENTS'[j])
      <4> SUFFICES ASSUME NEW i \in 1..(n + 1), NEW j \in 1..(n + 1), i < j,
                          EVENTS'[i].pid = EVENTS'[j].pid
                   PROVE  /\ Gen(EVENTS'[i]) <= Gen(EVENTS'[j])
                          /\ EVENTS'[i].type = "exit" => Gen(EVENTS'[i]) < Gen(EVENTS'[j])
        OBVIOUS
      <4>1. i \in 1..n /\ EVENTS'[i] = EVENTS[i]
        BY <2>2
      <4>2. CASE j = n + 1
        BY <2>2, <2>4, <4>1, <4>2
      <4>3. CASE j \in 1..n
        BY <2>2, <4>1, <4>3 DEF OInv, Ordered, n
      <4>4. QED BY <2>5, <4>2, <4>3
    <3>2. \A i \in 1..(n + 1) : /\ Gen(EVENTS'[i]) <= task'[EVENTS'[i].pid].gen
                                /\ EVENTS'[i].type = "exit"
                                   /\ Gen(EVENTS'[i]) = task'[EVENTS'[i].pid].gen
                                   => task'[EVENTS'[i].pid].st = "free"
      <4> SUFFICES ASSUME NEW i \in 1..(n + 1)
                   PROVE  /\ Gen(EVENTS'[i]) <= task'[EVENTS'[i].pid].gen
                          /\ EVENTS'[i].type = "exit"
                             /\ Gen(EVENTS'[i]) = task'[EVENTS'[i].pid].gen
                             => task'[EVENTS'[i].pid].st = "free"
        OBVIOUS
      <4>1. CASE i = n + 1
        BY <1>1, <2>1, <2>2, <2>3, <4>1
      <4>2. CASE i \in 1..n
        <5> DEFINE q == EVENTS[i].pid
                   g == Gen(EVENTS[i])
        <5>1. q \in Pids /\ g \in Nat /\ EVENTS'[i] = EVENTS[i]
          BY <1>3, <2>2, <4>2 DEF n
        <5>2. g <= task[q].gen /\ (EVENTS[i].type = "exit" /\ g = task[q].gen
                                    => task[q].st = "free")
          BY <4>2 DEF OInv, Ordered, n
        <5> HIDE DEF q, g
        <5>3. g <= task'[q].gen /\ (EVENTS[i].type = "exit" /\ g = task'[q].gen
                                     => task'[q].st = "free")
          BY <1>1, <5>1, <5>2
        <5>4. QED BY <5>1, <5>3 DEF q, g
      <4>3. QED BY <2>5, <4>1, <4>2
    <3>3. QED BY <2>2, <3>1, <3>2 DEF Ordered
  <2>7. Remembered'
    <3> SUFFICES ASSUME NEW u \in opened
                 PROVE  /\ u[2] <= task'[u[1]].gen
                        /\ \A i \in 1..(n + 1) :
                              EVENTS'[i].pid = u[1] => u[2] <= Gen(EVENTS'[i])
                        /\ tracked[u[1]] # NoPid \/ Spent(u)'
      BY <2>2 DEF Remembered
    <3>1. /\ u[2] <= task[u[1]].gen /\ u[1] \in Pids /\ u[2] \in Nat
          /\ \A i \in 1..n : EVENTS[i].pid = u[1] => u[2] <= Gen(EVENTS[i])
          /\ tracked[u[1]] # NoPid \/ Spent(u)
      BY <1>2 DEF OInv, Remembered, n
    <3>2. u[2] <= task'[u[1]].gen
      BY <1>1, <3>1
    <3>3. \A i \in 1..(n + 1) : EVENTS'[i].pid = u[1] => u[2] <= Gen(EVENTS'[i])
      BY <2>2, <2>3, <2>5, <3>1
    <3>4. ASSUME Spent(u) PROVE Spent(u)'
      <4>1. e.src.inc # u
        BY <1>2, <2>1, <2>3, <3>4 DEF Spent
      <4>2. \A i \in 1..(n + 1) : EVENTS'[i].src.inc # u
        BY <2>2, <2>5, <3>4, <4>1 DEF Spent, n
      <4>3. task'[u[1]].gen = u[2] => task'[u[1]].st = "free"
        BY <1>1, <3>1, <3>4 DEF Spent
      <4>4. QED BY <2>2, <4>2, <4>3 DEF Spent
    <3>5. QED BY <3>1, <3>2, <3>3, <3>4
  <2>8. QED BY <2>6, <2>7 DEF OInv
<1>6. QED BY <1>4, <1>5

LEMMA FaithfulOutput ==
    ASSUME EVENTS \in Seq(Faithful), NEW e \in Faithful, Output(e)
    PROVE  EVENTS' \in Seq(Faithful)
<1> HIDE DEF Faithful
<1>1. QED BY DEF Output

\* A probe's record of the task t, which has not ended before the step.
LEMMA ProbeOrders ==
    ASSUME TInv, TInv', OInv, UNCHANGED <<tracked, opened>>, NEW t \in Pids,
           task[t].st # "free", task'[t].gen = task[t].gen,
           \A q \in Pids \ {t} : task'[q] = task[q],
           task'[t].tgid = t,
           task'[t].st \in {"live", "exiting"} /\ task'[t].comm \in Whitelist =>
              task'[t].invoked,
           NEW e \in Faithful, Output(e), e.pid = t, e.src.inc = <<t, task[t].gen>>,
           e.type = "exit" => task'[t].st = "free"
    PROVE  OInv'
<1>1. EVENTS' \in Seq(Faithful)
  BY FaithfulOutput DEF OInv, Invoked
<1>2. Invoked'
  BY <1>1 DEF OInv, Invoked
<1>3. \A q \in Pids : /\ task'[q].gen = task[q].gen
                      /\ task[q].st = "free" => task'[q].st = "free"
  OBVIOUS
<1>4. e \in Record
  BY DEF Faithful
<1>5. UNCHANGED EVENTS \/ EVENTS' = Append(EVENTS, e)
  BY DEF Output
<1> HIDE DEF Faithful
<1>6. QED BY <1>2, <1>3, <1>4, <1>5, OrderStays

LEMMA KernelOrders ==
    ASSUME Sequential, TInv, TInv', OInv, Kernel
    PROVE  OInv'
<1>1. PICK t \in Pids :
         \/ \E c \in Pids : Fork(t, c) \/ CloneThread(t, c)
         \/ \E comm \in Comms : Exec(t, comm) \/ SetTitle(t, comm)
         \/ \E a \in Accesses, f \in Paths : FileAccess(t, a, f)
         \/ \E code \in Codes : ExitGroup(t, code)
         \/ Exit(t)
  BY DEF Kernel, KernelNext
<1>2. /\ task \in [Pids -> Task] /\ task[t] \in Task /\ task[t].tgid = t
      /\ UNCHANGED <<tracked, opened>>
      /\ task[t].st \in {"live", "exiting"} /\ task[t].comm \in Whitelist => task[t].invoked
  BY DEF TInv, TypeOK, KernelTypeOK, OInv, Invoked, Kernel, agentVars, treeVars, history
<1>3. Source(t).inc = <<t, task[t].gen>> /\ Source(t).invoked = task[t].invoked
  BY <1>2 DEF Source, Inc
<1>4. Acts(t) => task[t].st = "live"
  BY DEF Sequential, Acts, Allows
<1>5. CASE \E c \in Pids : Fork(t, c)
  <2>1. PICK c \in Pids : Fork(t, c)
    BY <1>5
  <2>2. PICK new : /\ new.st = "forked" /\ new.tgid = c /\ new.gen = task[c].gen + 1
                   /\ task' = [task EXCEPT ![c] = new]
    BY <2>1 DEF Fork
  <2>3. Invoked'
    BY <1>2, <2>1, <2>2 DEF OInv, Invoked, Fork
  <2>4. /\ UNCHANGED EVENTS
        /\ \A q \in Pids : \/ /\ task'[q].gen = task[q].gen
                              /\ task[q].st = "free" => task'[q].st = "free"
                           \/ task'[q].gen > task[q].gen
    BY <1>2, <2>1, <2>2, BoundsAssumption DEF Fork, Task
  <2>5. QED BY <1>2, <2>3, <2>4, OrderStays
<1>6. ~ \E c \in Pids : CloneThread(t, c)
  BY DEF Sequential, CloneThread, Allows
<1>7. CASE \E comm \in Comms : Exec(t, comm)
  <2>1. PICK comm \in Comms : Exec(t, comm)
    BY <1>7
  <2>2. PICK e : e = [type |-> "exec", pid |-> t, ppid |-> PARENT_MAP[t], comm |-> comm,
                      src |-> [Source(t) EXCEPT !.invoked = (comm \in Whitelist)]]
    OBVIOUS
  <2>3. Output(e) /\ e.type = "exec" /\ e.pid = t /\ task[t].st # "free"
    BY <2>1, <2>2 DEF Exec, TraceExec
  <2>4. e.src.inc = <<t, task[t].gen>> /\ e.src.invoked = (comm \in Whitelist)
    BY <1>2, <2>2 DEF Source, Inc
  <2>5. e \in Faithful
    <3>1. e \in Record
      BY <2>2, <2>3, ExecRecordType
    <3>2. e.src.inc[1] = e.pid /\ e.comm = comm
      BY <2>2, <2>3, <2>4
    <3>3. QED BY <2>4, <3>1, <3>2 DEF Faithful
  <2>6. /\ task'[t].gen = task[t].gen /\ task'[t].tgid = t
        /\ task'[t].comm = comm /\ task'[t].invoked = (comm \in Whitelist)
        /\ \A q \in Pids \ {t} : task'[q] = task[q]
    BY <1>2, <2>1 DEF Exec, Task
  <2>7. QED BY <1>2, <2>3, <2>4, <2>5, <2>6, ProbeOrders
<1>8. CASE \E comm \in Comms : SetTitle(t, comm)
  <2>1. PICK comm \in Comms : SetTitle(t, comm)
    BY <1>8
  <2>2. /\ task'[t].gen = task[t].gen /\ task'[t].tgid = t /\ task'[t].st = task[t].st
        /\ task'[t].comm = comm /\ (comm \in Whitelist => task'[t].invoked)
        /\ \A q \in Pids \ {t} : task'[q] = task[q]
        /\ UNCHANGED EVENTS
    BY <1>2, <2>1 DEF SetTitle, Task
  <2>3. Invoked'
    BY <2>2 DEF OInv, Invoked
  <2>4. \A q \in Pids : /\ task'[q].gen = task[q].gen
                        /\ task[q].st = "free" => task'[q].st = "free"
    BY <2>2
  <2>5. QED BY <1>2, <2>2, <2>3, <2>4, OrderStays
<1>9. CASE \E a \in Accesses, f \in Paths : FileAccess(t, a, f)
  <2>1. PICK a \in Accesses, f \in Paths : FileAccess(t, a, f)
    BY <1>9
  <2>2. PICK e : e = [type |-> "file", pid |-> t, access |-> a, comm |-> task[t].comm,
                      path |-> f, src |-> Source(t)]
    OBVIOUS
  <2>3. Output(e) /\ e.type = "file" /\ e.pid = t /\ task[t].st = "live"
    BY <1>4, <2>1, <2>2 DEF FileAccess, EmitFileAccess
  <2>4. e \in Record
    BY <1>2, <2>2, <2>3, SourceType DEF Record, FileAccessEvent, Task
  <2>5. e \in Faithful
    BY <1>2, <1>3, <2>2, <2>3, <2>4 DEF Faithful
  <2>6. UNCHANGED task
    BY <2>1 DEF FileAccess
  <2>7. QED BY <1>2, <1>3, <2>2, <2>3, <2>5, <2>6, ProbeOrders
<1>10. CASE \E code \in Codes : ExitGroup(t, code)
  <2>1. PICK code \in Codes : ExitGroup(t, code)
    BY <1>10
  <2>2. /\ task'[t].gen = task[t].gen /\ task'[t].tgid = t /\ task[t].st = "live"
        /\ task'[t].comm = task[t].comm /\ task'[t].invoked = task[t].invoked
        /\ \A q \in Pids \ {t} : task'[q] = task[q]
        /\ UNCHANGED EVENTS
    BY <1>2, <1>4, <2>1 DEF ExitGroup, Task
  <2>3. Invoked'
    BY <1>2, <2>2 DEF OInv, Invoked
  <2>4. \A q \in Pids : /\ task'[q].gen = task[q].gen
                        /\ task[q].st = "free" => task'[q].st = "free"
    BY <2>2
  <2>5. QED BY <1>2, <2>2, <2>3, <2>4, OrderStays
<1>11. CASE Exit(t)
  <2>1. Threads(t) = {t} /\ task[t].st \in {"live", "exiting"}
    BY <1>2, <1>4, <1>11 DEF OInv, Invoked, Exit, Threads, Alive
  <2>2. PICK e : e = ExitRecord(t, EXIT_CODES[t])
    OBVIOUS
  <2>3. /\ Output(e)
        /\ task' = [q \in Pids |-> IF q = t THEN FreeTask(q, task[q].gen, IdleComm)
                                   ELSE task[q]]
    BY <1>2, <1>11, <2>1, <2>2 DEF Exit, TraceExit
  <2>4. e \in Record
    BY <1>2, <2>1, <2>2, ExitRecordType
  <2>5. e.pid = t /\ e.comm = task[t].comm /\ e.src = Source(t)
    BY <2>2 DEF ExitRecord
  <2>6. e \in Faithful
    BY <1>2, <1>3, <2>1, <2>4, <2>5 DEF Faithful
  <2>7. /\ task'[t].gen = task[t].gen /\ task'[t].tgid = t /\ task'[t].st = "free"
        /\ \A q \in Pids \ {t} : task'[q] = task[q]
    BY <2>3 DEF FreeTask
  <2>8. QED BY <1>2, <1>3, <2>1, <2>3, <2>5, <2>6, <2>7, ProbeOrders
<1>12. QED BY <1>1, <1>5, <1>6, <1>7, <1>8, <1>9, <1>10, <1>11

\* What is left of the process of the record that dispatch takes.
LEMMA TakenIsSpent ==
    ASSUME TInv, OInv, Dispatch
    PROVE  /\ Head1 \in Faithful /\ Head1.pid \in Pids /\ Gen(Head1) \in Nat
           /\ Head1.src.inc = <<Head1.pid, Gen(Head1)>>
           /\ EVENTS[1] = Head1 /\ 1 \in 1..Len(EVENTS)
           /\ Len(EVENTS') = Len(EVENTS) - 1 /\ EVENTS' \in Seq(Faithful)
           /\ \A i \in 1..Len(EVENTS') : /\ i + 1 \in 1..Len(EVENTS) /\ 1 < i + 1
                                         /\ EVENTS'[i] = EVENTS[i + 1]
           /\ \A u \in Incarnations :
                 Head1.type = "exit" /\ u[1] = Head1.pid /\ u[2] <= Gen(Head1) => Spent(u)'
<1>1. EVENTS \in Seq(Faithful) /\ EVENTS # <<>> /\ EVENTS' = Tail(EVENTS) /\ UNCHANGED task
  BY DEF Dispatch, OInv, Invoked
<1>2. /\ Head1 \in Faithful /\ EVENTS[1] = Head1 /\ 1 \in 1..Len(EVENTS)
      /\ Len(EVENTS') = Len(EVENTS) - 1 /\ EVENTS' \in Seq(Faithful)
      /\ \A i \in 1..Len(EVENTS') : /\ i + 1 \in 1..Len(EVENTS) /\ 1 < i + 1
                                    /\ EVENTS'[i] = EVENTS[i + 1]
  <2> HIDE DEF Faithful
  <2>1. QED BY <1>1 DEF Head1
<1>3. \A i \in 1..Len(EVENTS) : /\ EVENTS[i].pid \in Pids /\ Gen(EVENTS[i]) \in Nat
                                /\ EVENTS[i].src.inc = <<EVENTS[i].pid, Gen(EVENTS[i])>>
  BY RecordFields DEF OInv
<1>4. ASSUME NEW u \in Incarnations, Head1.type = "exit", u[1] = Head1.pid, u[2] <= Gen(Head1)
      PROVE  Spent(u)'
  <2>1. u[2] \in Nat /\ u = <<u[1], u[2]>> /\ task[u[1]].gen \in Nat
    BY <1>2, <1>3, <1>4, BoundsAssumption
       DEF Incarnations, TInv, TypeOK, KernelTypeOK, Task
  <2>2. task[u[1]].gen = u[2] => task[u[1]].st = "free"
    BY <1>2, <1>3, <1>4, <2>1 DEF OInv, Ordered
  <2>3. ASSUME NEW i \in 1..Len(EVENTS') PROVE EVENTS'[i].src.inc # u
    <3>1. i + 1 \in 1..Len(EVENTS) /\ 1 < i + 1 /\ EVENTS'[i] = EVENTS[i + 1]
      BY <1>2
    <3>2. EVENTS[i + 1].pid = Head1.pid => Gen(Head1) < Gen(EVENTS[i + 1])
      BY <1>2, <1>4, <3>1 DEF OInv, Ordered
    <3>3. EVENTS[i + 1].src.inc = <<EVENTS[i + 1].pid, Gen(EVENTS[i + 1])>>
          /\ Gen(EVENTS[i + 1]) \in Nat /\ Gen(Head1) \in Nat
      BY <1>2, <1>3, <3>1
    <3>4. QED BY <1>4, <2>1, <3>1, <3>2, <3>3
  <2>4. QED BY <1>1, <2>2, <2>3 DEF Spent
<1>5. QED BY <1>2, <1>3, <1>4

LEMMA DispatchOrders ==
    ASSUME TInv, TInv', OInv, Dispatch
    PROVE  OInv'
<1> DEFINE p == Head1.pid
<1>1. /\ p \in Pids /\ Gen(Head1) \in Nat /\ Head1.src.inc = <<p, Gen(Head1)>>
      /\ EVENTS[1] = Head1 /\ 1 \in 1..Len(EVENTS) /\ EVENTS' \in Seq(Faithful)
      /\ \A i \in 1..Len(EVENTS') : /\ i + 1 \in 1..Len(EVENTS) /\ 1 < i + 1
                                    /\ EVENTS'[i] = EVENTS[i + 1]
      /\ \A u \in Incarnations :
            Head1.type = "exit" /\ u[1] = p /\ u[2] <= Gen(Head1) => Spent(u)'
  BY TakenIsSpent
<1>2. /\ UNCHANGED task /\ tracked \in [Pids -> Pids \cup {NoPid}]
      /\ opened \subseteq Incarnations /\ opened' \subseteq Incarnations
      /\ opened' = opened \cup {Head1.src.inc : r \in {q \in Pids : Opens(q)}}
  BY DEF Dispatch, TInv, TypeOK, Tree!TypeOK
<1>3. Attributes(Head1)
  BY DispatchAttributes
<1>4. \A q \in Pids \ {p} : tracked'[q] = tracked[q]
  BY <1>1, <1>2, <1>3 DEF Attributes
<1>5. Invoked'
  BY <1>1, <1>2 DEF OInv, Invoked
<1>6. Ordered'
  <2>1. \A i, j \in 1..Len(EVENTS') : i < j => i + 1 < j + 1
    OBVIOUS
  <2>2. QED BY <1>1, <1>2, <2>1 DEF OInv, Ordered
<1>7. Remembered'
  <2> SUFFICES ASSUME NEW u \in opened'
               PROVE  /\ u[2] <= task[u[1]].gen
                      /\ \A i \in 1..Len(EVENTS') :
                            EVENTS'[i].pid = u[1] => u[2] <= Gen(EVENTS'[i])
                      /\ tracked'[u[1]] # NoPid \/ Spent(u)'
    BY <1>2 DEF Remembered
  <2>1. CASE u \in opened
    <3>1. /\ u[2] <= task[u[1]].gen /\ u \in Incarnations /\ u[1] \in Pids
          /\ \A i \in 1..Len(EVENTS) : EVENTS[i].pid = u[1] => u[2] <= Gen(EVENTS[i])
          /\ tracked[u[1]] # NoPid \/ Spent(u)
      BY <1>2, <2>1 DEF OInv, Remembered, Incarnations
    <3>2. Spent(u) => Spent(u)'
      BY <1>1, <1>2 DEF Spent
    <3>3. \A i \in 1..Len(EVENTS') : EVENTS'[i].pid = u[1] => u[2] <= Gen(EVENTS'[i])
      BY <1>1, <3>1
    <3>4. CASE tracked[u[1]] # NoPid /\ u[1] = p /\ Head1.type # "exit"
      <4>1. tracked'[p] = tracked[p]
        BY <1>1, <1>2, <1>3, <3>4 DEF Attributes, RootFor, Tree!RootOf
      <4>2. QED BY <3>1, <3>3, <3>4, <4>1
    <3>5. CASE u[1] = p /\ Head1.type = "exit"
      BY <1>1, <3>1, <3>3, <3>5
    <3>6. CASE tracked[u[1]] # NoPid /\ u[1] # p
      BY <1>4, <3>1, <3>3, <3>6
    <3>7. QED BY <3>1, <3>2, <3>3, <3>4, <3>5, <3>6
  <2>2. CASE u \notin opened
    <3>1. Opens(p) /\ Tree!Starts(p, Head1.comm) /\ u = <<p, Gen(Head1)>>
      BY <1>1, <1>2, <1>3, <2>2 DEF Attributes
    <3>2. \A i \in 1..Len(EVENTS') : EVENTS'[i].pid = u[1] => u[2] <= Gen(EVENTS'[i])
      BY <1>1, <3>1 DEF OInv, Ordered
    <3>3. u[2] <= task[u[1]].gen
      BY <1>1, <3>1 DEF OInv, Ordered
    <3>4. CASE Head1.type = "exit"
      <4>1. u \in Incarnations /\ u[1] = p /\ u[2] <= Gen(Head1)
        BY <1>1, <1>2, <3>1
      <4>2. QED BY <1>1, <3>2, <3>3, <3>4, <4>1
    <3>5. CASE Head1.type # "exit"
      <4>1. RootFor(Head1) = p
        BY <3>1 DEF RootFor, Tree!RootOf, Tree!Starts
      <4>2. tracked'[p] = p
        BY <1>1, <1>2, <1>3, <3>5, <4>1 DEF Attributes
      <4>3. QED BY <1>1, <3>1, <3>2, <3>3, <4>2, NoPidAssumption
    <3>6. QED BY <3>4, <3>5
  <2>3. QED BY <2>1, <2>2
<1>8. QED BY <1>5, <1>6, <1>7 DEF OInv

LEMMA OrderInit == Init => OInv
<1> SUFFICES ASSUME Init PROVE OInv
  OBVIOUS
<1>1. EVENTS \in Seq(Faithful) /\ Len(EVENTS) = 0 /\ opened = {}
  <2> HIDE DEF Faithful
  <2>1. EVENTS = <<>> /\ opened = {}
    BY DEF Init, KernelInit
  <2>2. QED BY <2>1
<1>2. \A t \in Pids : task[t].tgid = t /\ task[t].comm = IdleComm
  BY DEF Init, KernelInit, FreeTask
<1>3. IdleComm \notin Whitelist
  BY CommsAssumption DEF IdleComm
<1>4. QED BY <1>1, <1>2, <1>3 DEF OInv, Invoked, Ordered, Remembered

LEMMA OrderStep ==
    ASSUME Sequential
    PROVE  TInv /\ OInv /\ [Next]_vars => OInv'
<1> SUFFICES ASSUME TInv, OInv, [Next]_vars PROVE OInv'
  OBVIOUS
<1>1. TInv'
  BY TypesStep
<1>2. CASE Kernel
  BY <1>1, <1>2, KernelOrders
<1>3. CASE Dispatch
  BY <1>1, <1>3, DispatchOrders
<1>4. CASE DrainDone \/ Tick \/ Stopped \/ Finalize \/ Signal \/ UNCHANGED vars
  <2>1. UNCHANGED <<task, EVENTS, tracked, opened>>
    BY <1>4 DEF DrainDone, Tick, Stopped, Finalize, Tree!FinalizeAll, Signal, vars,
                kernelVars, agentVars, treeVars, history
  <2>2. QED BY <2>1 DEF OInv, Invoked, Ordered, Remembered, Spent
<1>5. QED BY <1>2, <1>3, <1>4 DEF Next, Agent

-----------------------------------------------------------------------------
(* The disciplined workload: reuse without loss *)

\* Single-threaded processes that exec before they act and outlive their
\* descendants, and no record is dropped.
Disciplined == Workload \subseteq {"titles", "stop"} /\ IsFiniteSet(Pids)

\* A fork evicts no other process's entry from PARENT_MAP.
LinksHaveRoom == HasRoom(PARENT_MAP, NoPid)

\* No process that the ring has a record of has more proper ancestors than the
\* walk of find_inherited_root has steps.
RecordsAreShallow ==
    \A i \in 1..Len(EVENTS) : Cardinality(EVENTS[i].src.anc) <= MaxWalk + 1

\* The processes handed out so far, and those that have not ended.
Begun(u) == u[2] <= task[u[1]].gen
Running(u) == u[2] = task[u[1]].gen /\ task[u[1]].st # "free"

\* A gives each process its ancestors, itself included, and L its parent's pid.
Family(A, L) ==
    \A u \in Incarnations : Begun(u) =>
        /\ u \in A[u]
        /\ \A v \in A[u] : Begun(v) /\ A[v] \subseteq A[u]
        /\ \A v, w \in A[u] : v[1] = w[1] => v = w
        /\ L[u] = NoPid => A[u] = {u}
        /\ L[u] # NoPid =>
              \E v \in A[u] : v[1] = L[u] /\ u \notin A[v] /\ A[u] = {u} \cup A[v]

\* A task is known by its ancestors, which live as long as it does.
Living(A, L) ==
    \A t \in Pids :
        /\ task[t].st # "zombie"
        /\ task[t].st # "free" =>
              /\ task[t].anc = A[Inc(t)] /\ PARENT_MAP[t] = L[Inc(t)]
              /\ \A v \in A[Inc(t)] : Running(v)

Told(A, L) ==
    \A i \in 1..Len(EVENTS) :
        LET e == EVENTS[i]
        IN  e.src.anc = A[e.src.inc] /\ (e.type = "exec" => e.ppid = L[e.src.inc])

Sent(type, u, n) == \E i \in 1..n : EVENTS[i].type = type /\ EVENTS[i].src.inc = u

\* V gives each pid the generation the tree is in: it moves on with the exit
\* record, and every process that ended sent one.
Behind(V) ==
    /\ \A p \in Pids : /\ V[p] <= task[p].gen + 1
                       /\ task[p].st # "free" => V[p] <= task[p].gen
    /\ \A u \in Incarnations :
          Begun(u) /\ ~Running(u) => u[2] < V[u[1]] \/ Sent("exit", u, Len(EVENTS))
    /\ \A u \in Incarnations : Sent("exit", u, Len(EVENTS)) => ~Running(u)

\* The tree knows u's parent, or will once it has taken n records.
Connected(L, V, u, n) ==
    \/ L[u] = NoPid
    \/ V[u[1]] = u[2] /\ parents[u[1]] = L[u]
    \/ Sent("exec", u, n)

\* The exit records of earlier owners of an ancestor's pid come before the
\* record, those of the ancestor and of later owners after it; and the
\* ancestor's exec comes before.
Timely(A, L, V) ==
    \A j \in 1..Len(EVENTS) : \A u \in A[EVENTS[j].src.inc] :
        /\ V[u[1]] <= u[2]
        /\ Connected(L, V, u, j)
        /\ \A i \in 1..Len(EVENTS) : EVENTS[i].type = "exit" /\ EVENTS[i].pid = u[1] =>
              (Gen(EVENTS[i]) < u[2] <=> i < j)

Ready(A, L, V) ==
    \A t \in Pids : task[t].st # "free" =>
        \A u \in A[Inc(t)] :
            task[t].st # "forked" \/ u # Inc(t) => Connected(L, V, u, Len(EVENTS))

\* What the tree has is of the generation it is in.
Grown(A, L, V) ==
    /\ \A p \in Pids : parents[p] # NoPid =>
          Begun(<<p, V[p]>>) /\ parents[p] = L[<<p, V[p]>>]
    /\ \A p \in Pids : tracked[p] # NoPid =>
          /\ Begun(<<p, V[p]>>)
          /\ <<tracked[p], V[tracked[p]]>> \in A[<<p, V[p]>>]
          /\ pc # "done" => operations[tracked[p]] # None
    /\ \A r \in Pids : operations[r] # None => rootInc[r] = <<r, V[r]>>

Heritage(A, L, V) ==
    /\ A \in [Incarnations -> SUBSET Incarnations]
    /\ L \in [Incarnations -> Pids \cup {NoPid}]
    /\ V \in [Pids -> Nat \ {0}]
    /\ Family(A, L) /\ Living(A, L) /\ Told(A, L)
    /\ Behind(V) /\ Timely(A, L, V) /\ Ready(A, L, V) /\ Grown(A, L, V)

DInv == TInv /\ OInv /\ \E A, L, V : Heritage(A, L, V)

LEMMA Owners ==
    ASSUME TInv, OInv
    PROVE  /\ \A u \in Incarnations :
                 /\ u[1] \in Pids /\ u[2] \in Nat \ {0} /\ u = <<u[1], u[2]>>
                 /\ task[u[1]].gen \in Nat
                 /\ Running(u) => Begun(u) /\ u = Inc(u[1]) /\ task[u[1]].st # "free"
           /\ \A t \in Pids : task[t].st # "free" =>
                 Inc(t) \in Incarnations /\ Running(Inc(t)) /\ Begun(Inc(t))
           /\ \A i \in 1..Len(EVENTS) :
                 /\ EVENTS[i].src.inc \in Incarnations /\ Begun(EVENTS[i].src.inc)
                 /\ EVENTS[i].src.inc = <<EVENTS[i].pid, Gen(EVENTS[i])>>
                 /\ EVENTS[i].pid \in Pids /\ Gen(EVENTS[i]) \in Nat
<1>1. \A t \in Pids : /\ task[t].gen \in 0..MaxGen
                      /\ task[t].st # "free" => task[t].gen # 0
  BY DEF TInv, TypeOK, KernelTypeOK, Task, Started
<1>2. \A u \in Incarnations :
         /\ u[1] \in Pids /\ u[2] \in Nat \ {0} /\ u = <<u[1], u[2]>>
         /\ task[u[1]].gen \in Nat
         /\ Running(u) => Begun(u) /\ u = Inc(u[1]) /\ task[u[1]].st # "free"
  BY <1>1, BoundsAssumption DEF Incarnations, Running, Begun, Inc
<1>3. \A t \in Pids : task[t].st # "free" =>
         Inc(t) \in Incarnations /\ Running(Inc(t)) /\ Begun(Inc(t))
  BY <1>1, BoundsAssumption DEF Incarnations, Running, Begun, Inc
<1>4. \A i \in 1..Len(EVENTS) :
         /\ EVENTS[i].src.inc \in Incarnations /\ Begun(EVENTS[i].src.inc)
         /\ EVENTS[i].src.inc = <<EVENTS[i].pid, Gen(EVENTS[i])>>
         /\ EVENTS[i].pid \in Pids /\ Gen(EVENTS[i]) \in Nat
  <2> SUFFICES ASSUME NEW i \in 1..Len(EVENTS), NEW e, e = EVENTS[i]
               PROVE  /\ e.src.inc \in Incarnations /\ Begun(e.src.inc)
                      /\ e.src.inc = <<e.pid, Gen(e)>> /\ e.pid \in Pids /\ Gen(e) \in Nat
    OBVIOUS
  <2>1. e \in Record /\ e.pid \in Pids /\ e.src.inc = <<e.pid, Gen(e)>> /\ Gen(e) \in Nat
    BY RecordFields DEF OInv
  <2>2. e.src.inc \in Incarnations
    BY <2>1 DEF Record, ProcessExecEvent, ProcessExitEvent, FileAccessEvent, Truth
  <2>3. Gen(e) <= task[e.pid].gen
    BY DEF OInv, Ordered
  <2>4. QED BY <2>1, <2>2, <2>3 DEF Begun
<1>5. QED BY <1>2, <1>3, <1>4

\* A step of the task t that neither ends it nor makes it act, and sends nothing.
LEMMA QuietHeritage ==
    ASSUME TInv, OInv, NEW A, NEW L, NEW V, Heritage(A, L, V),
           UNCHANGED <<parents, tracked, operations, rootInc, pc, PARENT_MAP, EVENTS>>,
           \A q \in Pids :
              /\ task'[q].gen = task[q].gen /\ task'[q].anc = task[q].anc
              /\ task'[q].st \in {task[q].st, "exiting"}
              /\ task'[q].st # task[q].st => task[q].st = "live"
    PROVE  Heritage(A, L, V)'
<1>1. /\ \A u \in Incarnations : /\ u[1] \in Pids
                                 /\ Running(u) => Begun(u)
      /\ \A t \in Pids : task[t].st # "free" => Inc(t) \in Incarnations
      /\ \A i \in 1..Len(EVENTS) : EVENTS[i].src.inc \in Incarnations
  BY Owners
<1>2. \A u \in Incarnations : (Begun(u)' <=> Begun(u)) /\ (Running(u)' <=> Running(u))
  BY <1>1 DEF Begun, Running
<1>3. \A t \in Pids : /\ Inc(t)' = Inc(t)
                      /\ task'[t].st # "zombie" <=> task[t].st # "zombie"
                      /\ task'[t].st # "free" <=> task[t].st # "free"
                      /\ task'[t].st # "forked" <=> task[t].st # "forked"
  BY DEF Inc
<1>4. /\ A \in [Incarnations -> SUBSET Incarnations] /\ L \in [Incarnations -> Pids \cup {NoPid}]
      /\ V \in [Pids -> Nat \ {0}]
      /\ Family(A, L) /\ Living(A, L) /\ Told(A, L)
      /\ Behind(V) /\ Timely(A, L, V) /\ Ready(A, L, V) /\ Grown(A, L, V)
  BY DEF Heritage
<1>5. Family(A, L)'
  BY <1>2, <1>4 DEF Family
<1>6. Living(A, L)'
  BY <1>1, <1>2, <1>3, <1>4 DEF Living
<1>7. Told(A, L)' /\ Timely(A, L, V)'
  BY <1>4 DEF Told, Timely, Connected, Sent, Gen
<1>8. Behind(V)'
  BY <1>2, <1>3, <1>4 DEF Behind, Sent
<1>9. Ready(A, L, V)'
  BY <1>1, <1>3, <1>4 DEF Ready, Connected, Sent
<1>10. Grown(A, L, V)'
  BY <1>4 DEF Grown, Begun
<1>11. QED BY <1>4, <1>5, <1>6, <1>7, <1>8, <1>9, <1>10 DEF Heritage

\* A probe's record of the task t.
LEMMA ProbeHeritage ==
    ASSUME TInv, OInv, NEW A, NEW L, NEW V, Heritage(A, L, V),
           UNCHANGED <<parents, tracked, operations, rootInc, pc, PARENT_MAP>>,
           NEW t \in Pids, task[t].st # "free", task'[t].gen = task[t].gen,
           \A q \in Pids \ {t} : task'[q] = task[q],
           NEW e, EVENTS' = Append(EVENTS, e), e.pid = t, e.src.inc = Inc(t),
           e.src.anc = task[t].anc,
           \/ /\ e.type = "exec" /\ e.ppid = PARENT_MAP[t]
              /\ task'[t].st = "live" /\ task'[t].anc = task[t].anc
           \/ e.type = "file" /\ task[t].st # "forked" /\ task'[t] = task[t]
           \/ /\ e.type = "exit" /\ task[t].st # "forked" /\ task'[t].st = "free"
              /\ \A q \in Pids \ {t} : task[q].st # "free" => Inc(t) \notin task[q].anc
    PROVE  Heritage(A, L, V)'
<1>0. PICK n, k : n = Len(EVENTS) /\ k = Inc(t)
  OBVIOUS
<1>1. /\ \A u \in Incarnations :
            /\ u[1] \in Pids /\ u[2] \in Nat \ {0} /\ u = <<u[1], u[2]>>
            /\ task[u[1]].gen \in Nat
            /\ Running(u) => Begun(u) /\ u = Inc(u[1]) /\ task[u[1]].st # "free"
      /\ \A q \in Pids : task[q].st # "free" => Inc(q) \in Incarnations
      /\ k \in Incarnations /\ Running(k) /\ Begun(k)
      /\ \A i \in 1..n : /\ EVENTS[i].src.inc \in Incarnations /\ Begun(EVENTS[i].src.inc)
                         /\ EVENTS[i].src.inc = <<EVENTS[i].pid, Gen(EVENTS[i])>>
                         /\ EVENTS[i].pid \in Pids /\ Gen(EVENTS[i]) \in Nat
  BY <1>0, Owners
<1>2. /\ n \in Nat /\ Len(EVENTS') = n + 1 /\ EVENTS'[n + 1] = e
      /\ \A i \in 1..n : EVENTS'[i] = EVENTS[i]
      /\ \A i \in 1..(n + 1) : i \in 1..n \/ i = n + 1
  BY <1>0 DEF TInv, TypeOK, KernelTypeOK
<1>3. k[1] = t /\ k[2] = task[t].gen /\ Gen(e) = k[2]
  BY <1>0 DEF Inc, Gen
<1>4. \A u \in Incarnations :
         /\ Begun(u)' <=> Begun(u)
         /\ Running(u)' => Running(u)
         /\ Running(u) /\ u # k => Running(u)'
         /\ e.type # "exit" /\ Running(u) => Running(u)'
         /\ e.type = "exit" => ~Running(k)'
  <2> SUFFICES ASSUME NEW u \in Incarnations
               PROVE  /\ Begun(u)' <=> Begun(u)
                      /\ Running(u)' => Running(u)
                      /\ Running(u) /\ u # k => Running(u)'
                      /\ e.type # "exit" /\ Running(u) => Running(u)'
                      /\ e.type = "exit" => ~Running(k)'
    OBVIOUS
  <2>1. CASE u[1] = t
    BY <1>1, <1>3, <2>1 DEF Begun, Running
  <2>2. CASE u[1] # t
    BY <1>1, <1>3, <2>2 DEF Begun, Running
  <2>3. QED BY <2>1, <2>2
<1>5. /\ \A q \in Pids : Inc(q)' = Inc(q)
      /\ \A q \in Pids : task'[q].st # "free" => task[q].st # "free" /\ task'[q].anc = task[q].anc
      /\ \A q \in Pids : task'[q].st # "forked" /\ task[q].st = "forked" =>
            q = t /\ e.type = "exec"
  BY <1>0 DEF Inc
<1>6. /\ A \in [Incarnations -> SUBSET Incarnations] /\ L \in [Incarnations -> Pids \cup {NoPid}]
      /\ V \in [Pids -> Nat \ {0}]
      /\ Family(A, L) /\ Living(A, L) /\ Told(A, L)
      /\ Behind(V) /\ Timely(A, L, V) /\ Ready(A, L, V) /\ Grown(A, L, V)
  BY DEF Heritage
<1>7. /\ task[t].anc = A[k] /\ PARENT_MAP[t] = L[k] /\ k \in A[k]
      /\ \A u \in A[k] : Running(u) /\ u \in Incarnations /\ (u[1] = t => u = k)
  BY <1>0, <1>1, <1>3, <1>6 DEF Living, Family
<1>8. ASSUME NEW type, NEW u
      PROVE  /\ \A i \in 0..n : Sent(type, u, i)' <=> Sent(type, u, i)
             /\ Sent(type, u, n) => Sent(type, u, n + 1)'
             /\ Sent(type, u, n + 1)' => Sent(type, u, n) \/ (type = e.type /\ u = k)
             /\ type = e.type /\ u = k => Sent(type, u, n + 1)'
  BY <1>0, <1>2 DEF Sent
<1>9. Family(A, L)'
  BY <1>4, <1>6 DEF Family
<1>10. Living(A, L)'
  <2>1. \A q \in Pids : task'[q].st # "zombie"
    BY <1>6 DEF Living
  <2>2. ASSUME NEW q \in Pids, task'[q].st # "free"
        PROVE  /\ task'[q].anc = A[Inc(q)] /\ PARENT_MAP[q] = L[Inc(q)]
               /\ \A u \in A[Inc(q)] : Running(u)'
    <3>1. /\ task[q].st # "free" /\ task'[q].anc = task[q].anc
          /\ task[q].anc = A[Inc(q)] /\ PARENT_MAP[q] = L[Inc(q)]
          /\ \A u \in A[Inc(q)] : Running(u) /\ u \in Incarnations
      BY <1>1, <1>5, <1>6, <2>2 DEF Living
    <3>2. e.type = "exit" => k \notin A[Inc(q)]
      BY <1>0, <2>2, <3>1
    <3>3. QED BY <1>4, <3>1, <3>2
  <2>3. QED BY <1>5, <2>1, <2>2 DEF Living
<1>11. Told(A, L)'
  BY <1>0, <1>2, <1>6, <1>7 DEF Told
<1>12. Behind(V)'
  <2>1. \A p \in Pids : /\ V[p] <= task'[p].gen + 1
                        /\ task'[p].st # "free" => V[p] <= task'[p].gen
    BY <1>5, <1>6 DEF Behind
  <2>2. ASSUME NEW u \in Incarnations, Begun(u)', ~Running(u)'
        PROVE  u[2] < V[u[1]] \/ Sent("exit", u, n + 1)'
    <3>1. CASE Running(u)
      <4>1. u = k /\ e.type = "exit"
        BY <1>4, <2>2, <3>1
      <4>2. QED BY <1>8, <4>1
    <3>2. CASE ~Running(u)
      BY <1>0, <1>4, <1>6, <1>8, <2>2, <3>2 DEF Behind
    <3>3. QED BY <3>1, <3>2
  <2>3. ASSUME NEW u \in Incarnations, Sent("exit", u, n + 1)'
        PROVE  ~Running(u)'
    <3>1. Sent("exit", u, n) \/ (e.type = "exit" /\ u = k)
      BY <1>8, <2>3
    <3>2. QED BY <1>0, <1>4, <1>6, <3>1 DEF Behind
  <2>4. QED BY <1>2, <2>1, <2>2, <2>3 DEF Behind
<1>13. Timely(A, L, V)'
  <2> SUFFICES ASSUME NEW j \in 1..(n + 1), NEW u \in A[EVENTS'[j].src.inc]
               PROVE  /\ V[u[1]] <= u[2]
                      /\ Connected(L, V, u, j)'
                      /\ \A i \in 1..(n + 1) :
                            EVENTS'[i].type = "exit" /\ EVENTS'[i].pid = u[1] =>
                               (Gen(EVENTS'[i]) < u[2] <=> i < j)
    BY <1>2 DEF Timely, Gen
  <2>1. CASE j \in 1..n
    <3>1. /\ u \in A[EVENTS[j].src.inc] /\ u \in Incarnations /\ Begun(u) /\ j \in 0..n
      BY <1>1, <1>2, <1>6, <2>1 DEF Family
    <3>2. /\ V[u[1]] <= u[2] /\ Connected(L, V, u, j)
          /\ \A i \in 1..n : EVENTS[i].type = "exit" /\ EVENTS[i].pid = u[1] =>
                (Gen(EVENTS[i]) < u[2] <=> i < j)
      BY <1>0, <1>6, <2>1, <3>1 DEF Timely
    <3>3. Connected(L, V, u, j)'
      BY <1>8, <3>1, <3>2 DEF Connected
    <3>4. u[1] = t => ~ (Gen(e) < u[2]) /\ ~ (n + 1 < j)
      BY <1>1, <1>2, <1>3, <2>1, <3>1 DEF Begun
    <3>5. QED BY <1>2, <3>2, <3>3, <3>4
  <2>2. CASE j = n + 1
    <3>1. u \in A[k] /\ Running(u) /\ u \in Incarnations /\ (u[1] = t => u = k)
      BY <1>0, <1>2, <1>7, <2>2
    <3>2. V[u[1]] <= u[2] /\ task[u[1]].st # "free" /\ u[2] = task[u[1]].gen
      BY <1>1, <1>6, <3>1 DEF Behind, Running
    <3>3. Connected(L, V, u, n + 1)'
      <4>1. CASE e.type = "exec" /\ u = k
        BY <1>8, <4>1 DEF Connected
      <4>2. CASE task[t].st # "forked" \/ u # k
        <5>1. Connected(L, V, u, n)
          BY <1>0, <1>6, <3>1, <4>2 DEF Ready
        <5>2. QED BY <1>8, <5>1 DEF Connected
      <4>3. QED BY <4>1, <4>2
    <3>4. ASSUME NEW i \in 1..n, EVENTS[i].type = "exit", EVENTS[i].pid = u[1]
          PROVE  Gen(EVENTS[i]) < u[2] /\ i < n + 1
      <4>1. EVENTS[i].src.inc \in Incarnations /\ ~Running(EVENTS[i].src.inc)
        BY <1>0, <1>1, <1>6, <3>4 DEF Behind, Sent
      <4>2. EVENTS[i].src.inc = <<u[1], Gen(EVENTS[i])>> /\ u = <<u[1], u[2]>>
            /\ Begun(EVENTS[i].src.inc)
        BY <1>1, <3>1, <3>4
      <4>3. Gen(EVENTS[i]) # u[2]
        BY <3>1, <4>1, <4>2
      <4>4. Gen(EVENTS[i]) <= u[2]
        BY <3>2, <4>2 DEF Begun
      <4>5. QED BY <1>1, <1>2, <3>1, <4>3, <4>4
    <3>5. u[1] = t => ~ (Gen(e) < u[2]) /\ ~ (n + 1 < n + 1)
      BY <1>1, <1>2, <1>3, <3>1
    <3>6. QED BY <1>2, <2>2, <3>2, <3>3, <3>4, <3>5
  <2>3. QED BY <1>2, <2>1, <2>2
<1>14. Ready(A, L, V)'
  <2> SUFFICES ASSUME NEW q \in Pids, task'[q].st # "free", NEW u \in A[Inc(q)],
                      task'[q].st # "forked" \/ u # Inc(q)
               PROVE  Connected(L, V, u, n + 1)'
    BY <1>2, <1>5 DEF Ready, Inc
  <2>1. CASE e.type = "exec" /\ u = k
    BY <1>8, <2>1 DEF Connected
  <2>2. CASE task[q].st # "forked" \/ u # Inc(q)
    <3>1. Connected(L, V, u, n)
      BY <1>0, <1>5, <1>6, <2>2 DEF Ready
    <3>2. QED BY <1>8, <3>1 DEF Connected
  <2>3. QED BY <1>0, <1>5, <2>1, <2>2
<1>15. Grown(A, L, V)'
  <2>1. \A u : u[1] \in Pids => (Begun(u)' <=> Begun(u))
    BY DEF Begun
  <2>2. \A q \in Pids : Begun(<<q, V[q]>>)' <=> Begun(<<q, V[q]>>)
    BY <2>1
  <2>3. QED BY <1>6, <2>2 DEF Grown
<1>16. QED BY <1>6, <1>9, <1>10, <1>11, <1>12, <1>13, <1>14, <1>15 DEF Heritage

\* A process c forked by t joins t's family.
LEMMA ForkHeritage ==
    ASSUME Disciplined, LinksHaveRoom, TInv, OInv, NEW A, NEW L, NEW V, Heritage(A, L, V),
           UNCHANGED <<parents, tracked, operations, rootInc, pc>>,
           NEW t \in Pids, NEW c \in Pids, Fork(t, c)
    PROVE  \E A1, L1 : Heritage(A1, L1, V)'
<1>0. PICK n, a, k : n = Len(EVENTS) /\ a = Inc(t) /\ k = <<c, task[c].gen + 1>>
  OBVIOUS
<1> DEFINE A1 == [A EXCEPT ![k] = {k} \cup A[a]]
           L1 == [L EXCEPT ![k] = t]
<1>1. /\ \A u \in Incarnations :
            /\ u[1] \in Pids /\ u[2] \in Nat \ {0} /\ u = <<u[1], u[2]>>
            /\ task[u[1]].gen \in Nat
            /\ Running(u) => Begun(u) /\ u = Inc(u[1]) /\ task[u[1]].st # "free"
      /\ \A q \in Pids : task[q].st # "free" => Inc(q) \in Incarnations /\ Begun(Inc(q))
      /\ \A i \in 1..n : EVENTS[i].src.inc \in Incarnations /\ Begun(EVENTS[i].src.inc)
  BY <1>0, Owners
<1>2. /\ task \in [Pids -> Task] /\ PARENT_MAP \in [Pids -> Pids \cup {NoPid}]
      /\ task[t].tgid = t /\ task[c].gen \in Nat
  BY DEF TInv, TypeOK, KernelTypeOK, Task, OInv, Invoked
<1>3. /\ task[t].st = "live" /\ task[c].st = "free" /\ task[c].gen < MaxGen
      /\ UNCHANGED EVENTS
  BY DEF Fork, Acts, Available, Disciplined, Allows
<1>4. /\ \A q \in Pids \ {c} : task'[q] = task[q]
      /\ task'[c].gen = task[c].gen + 1 /\ task'[c].st = "forked"
      /\ task'[c].anc = task[t].anc \cup {k}
  BY <1>0, <1>2 DEF Fork
<1>5. PARENT_MAP' = [PARENT_MAP EXCEPT ![c] = t]
  BY <1>2, NothingEvicted DEF Fork, TraceFork, Disciplined, LinksHaveRoom
<1>6. /\ k \in Incarnations /\ k[1] = c /\ k[2] = task[c].gen + 1 /\ ~Begun(k) /\ Inc(c)' = k
      /\ \A q \in Pids \ {c} : Inc(q)' = Inc(q)
  BY <1>0, <1>2, <1>3, <1>4, BoundsAssumption DEF Incarnations, Begun, Inc
<1>7. \A u \in Incarnations :
         /\ Begun(u)' <=> Begun(u) \/ u = k
         /\ Running(u) => Running(u)'
         /\ Running(u)' => Running(u) \/ u = k
         /\ Running(u) => u[1] # c
  BY <1>1, <1>2, <1>3, <1>4, <1>6 DEF Begun, Running
<1>7a. Running(k)'
  BY <1>4, <1>6 DEF Running
<1>8. /\ A \in [Incarnations -> SUBSET Incarnations] /\ L \in [Incarnations -> Pids \cup {NoPid}]
      /\ V \in [Pids -> Nat \ {0}]
      /\ Family(A, L) /\ Living(A, L) /\ Told(A, L)
      /\ Behind(V) /\ Timely(A, L, V) /\ Ready(A, L, V) /\ Grown(A, L, V)
  BY DEF Heritage
<1>9. /\ A1 \in [Incarnations -> SUBSET Incarnations] /\ L1 \in [Incarnations -> Pids \cup {NoPid}]
      /\ A1[k] = {k} \cup A[a] /\ L1[k] = t
      /\ \A u \in Incarnations : Begun(u) => A1[u] = A[u] /\ L1[u] = L[u]
  BY <1>0, <1>1, <1>3, <1>6, <1>8
<1> HIDE DEF A1, L1
<1>10. /\ a \in Incarnations /\ a[1] = t /\ a \in A[a] /\ task[t].anc = A[a] /\ t # c /\ Begun(a)
       /\ \A u \in A[a] : /\ u \in Incarnations /\ Running(u) /\ Begun(u) /\ u # k
                          /\ A[u] \subseteq A[a]
  <2>1. a \in Incarnations /\ a[1] = t /\ task[t].anc = A[a] /\ t # c /\ Begun(a)
        /\ \A u \in A[a] : Running(u) /\ u \in Incarnations
    BY <1>0, <1>1, <1>3, <1>8 DEF Living, Inc
  <2>2. a \in A[a] /\ \A u \in A[a] : Begun(u) /\ A[u] \subseteq A[a]
    BY <1>8, <2>1 DEF Family
  <2>3. QED BY <1>6, <2>1, <2>2
<1>11. Family(A1, L1)'
  <2> SUFFICES ASSUME NEW u \in Incarnations, Begun(u)'
               PROVE  /\ u \in A1[u]
                      /\ \A v \in A1[u] : Begun(v)' /\ A1[v] \subseteq A1[u]
                      /\ \A v, w \in A1[u] : v[1] = w[1] => v = w
                      /\ L1[u] = NoPid => A1[u] = {u}
                      /\ L1[u] # NoPid =>
                           \E v \in A1[u] : v[1] = L1[u] /\ u \notin A1[v] /\ A1[u] = {u} \cup A1[v]
    BY DEF Family
  <2>1. CASE u = k
    <3>1. \A v \in A1[k] : Begun(v)' /\ A1[v] \subseteq A1[k]
      BY <1>6, <1>7, <1>9, <1>10
    <3>2. \A v, w \in A1[k] : v[1] = w[1] => v = w
      <4>1. \A v, w \in A[a] : v[1] = w[1] => v = w
        BY <1>8, <1>10 DEF Family
      <4>2. \A v \in A[a] : v[1] # c
        BY <1>7, <1>10
      <4>3. QED BY <1>6, <1>9, <4>1, <4>2
    <3>3. a \in A1[k] /\ a[1] = t /\ k \notin A1[a] /\ A1[k] = {k} \cup A1[a]
      BY <1>9, <1>10
    <3>4. QED BY <1>9, <2>1, <3>1, <3>2, <3>3, NoPidAssumption
  <2>2. CASE u # k
    <3>1. Begun(u) /\ A1[u] = A[u] /\ L1[u] = L[u]
      BY <1>7, <1>9, <2>2
    <3>2. \A v \in A[u] : v \in Incarnations /\ Begun(v) /\ Begun(v)' /\ A1[v] = A[v]
      BY <1>7, <1>8, <1>9, <3>1 DEF Family
    <3>3. QED BY <1>8, <3>1, <3>2 DEF Family
  <2>3. QED BY <2>1, <2>2
<1>12. Living(A1, L1)'
  <2> SUFFICES ASSUME NEW q \in Pids
               PROVE  /\ task'[q].st # "zombie"
                      /\ task'[q].st # "free" =>
                            /\ task'[q].anc = A1[Inc(q)'] /\ PARENT_MAP'[q] = L1[Inc(q)']
                            /\ \A v \in A1[Inc(q)'] : Running(v)'
    BY DEF Living
  <2>1. CASE q = c
    <3>1. Inc(q)' = k /\ task'[q].st = "forked" /\ task'[q].anc = A1[k] /\ PARENT_MAP'[q] = L1[k]
      BY <1>2, <1>4, <1>5, <1>6, <1>9, <1>10, <2>1
    <3>2. \A v \in A1[k] : Running(v)'
      BY <1>7, <1>7a, <1>9, <1>10
    <3>3. QED BY <3>1, <3>2
  <2>2. CASE q # c
    <3>1. task'[q] = task[q] /\ Inc(q)' = Inc(q) /\ PARENT_MAP'[q] = PARENT_MAP[q]
      BY <1>2, <1>4, <1>5, <1>6, <2>2
    <3>2. ASSUME task[q].st # "free"
          PROVE  /\ task[q].anc = A1[Inc(q)] /\ PARENT_MAP[q] = L1[Inc(q)]
                 /\ \A v \in A1[Inc(q)] : Running(v)'
      <4>1. Inc(q) \in Incarnations /\ A1[Inc(q)] = A[Inc(q)] /\ L1[Inc(q)] = L[Inc(q)]
        BY <1>1, <1>9, <3>2
      <4>2. QED BY <1>7, <1>8, <3>2, <4>1 DEF Living
    <3>3. task[q].st # "zombie"
      BY <1>8 DEF Living
    <3>4. QED BY <3>1, <3>2, <3>3
  <2>3. QED BY <2>1, <2>2
<1>13. Told(A1, L1)'
  BY <1>0, <1>1, <1>3, <1>8, <1>9 DEF Told
<1>14. Behind(V)'
  <2>1. \A p \in Pids : /\ V[p] <= task'[p].gen + 1
                        /\ task'[p].st # "free" => V[p] <= task'[p].gen
    <3>1. V[c] \in Nat /\ V[c] <= task[c].gen + 1
      BY <1>8 DEF Behind
    <3>2. V[c] <= task'[c].gen /\ V[c] <= task'[c].gen + 1
      BY <1>2, <1>4, <3>1
    <3>3. QED BY <1>4, <1>8, <3>2 DEF Behind
  <2>2. \A u \in Incarnations : /\ Begun(u)' /\ ~Running(u)' => Begun(u) /\ ~Running(u)
                                /\ Begun(u) /\ ~Running(u) => ~Running(u)'
    BY <1>6, <1>7, <1>7a
  <2>3. \A u \in Incarnations : Sent("exit", u, n) => Begun(u)
    BY <1>1 DEF Sent
  <2>4. \A u : Sent("exit", u, n)' <=> Sent("exit", u, n)
    BY <1>3 DEF Sent
  <2>5. QED BY <1>0, <1>3, <1>8, <2>1, <2>2, <2>3, <2>4 DEF Behind
<1>15. \A u, i : Begun(u) /\ u \in Incarnations /\ Connected(L, V, u, i) => Connected(L1, V, u, i)'
  BY <1>3, <1>9 DEF Connected, Sent
<1>16. Timely(A1, L1, V)'
  <2> SUFFICES ASSUME NEW j \in 1..n, NEW u \in A1[EVENTS[j].src.inc]
               PROVE  /\ V[u[1]] <= u[2]
                      /\ Connected(L1, V, u, j)'
                      /\ \A i \in 1..n : EVENTS[i].type = "exit" /\ EVENTS[i].pid = u[1] =>
                            (Gen(EVENTS[i]) < u[2] <=> i < j)
    BY <1>0, <1>3 DEF Timely, Gen
  <2>1. u \in A[EVENTS[j].src.inc] /\ u \in Incarnations /\ Begun(u)
    BY <1>1, <1>8, <1>9 DEF Family
  <2>2. QED BY <1>0, <1>8, <1>15, <2>1 DEF Timely
<1>17. Ready(A1, L1, V)'
  <2> SUFFICES ASSUME NEW q \in Pids, task'[q].st # "free", NEW u \in A1[Inc(q)'],
                      task'[q].st # "forked" \/ u # Inc(q)'
               PROVE  Connected(L1, V, u, n)'
    BY <1>0, <1>3 DEF Ready
  <2>1. CASE q = c
    <3>1. u \in A[a] /\ task[t].st # "forked" /\ task[t].st # "free"
      BY <1>3, <1>4, <1>6, <1>9, <2>1
    <3>2. Connected(L, V, u, n)
      BY <1>0, <1>8, <3>1 DEF Ready
    <3>3. QED BY <1>10, <1>15, <3>1, <3>2
  <2>2. CASE q # c
    <3>1. task'[q] = task[q] /\ Inc(q)' = Inc(q) /\ Inc(q) \in Incarnations /\ Begun(Inc(q))
      BY <1>1, <1>4, <1>6, <2>2
    <3>2. u \in A[Inc(q)] /\ u \in Incarnations /\ Begun(u)
      BY <1>8, <1>9, <3>1 DEF Family
    <3>3. Connected(L, V, u, n)
      BY <1>0, <1>8, <3>1, <3>2 DEF Ready
    <3>4. QED BY <1>15, <3>2, <3>3
  <2>3. QED BY <2>1, <2>2
<1>18. Grown(A1, L1, V)'
  <2>1. /\ parents \in [Pids -> Pids \cup {NoPid}] /\ tracked \in [Pids -> Pids \cup {NoPid}]
    BY DEF TInv, TypeOK, Tree!TypeOK
  <2>2. \A p \in Pids : Begun(<<p, V[p]>>) =>
           /\ <<p, V[p]>> \in Incarnations /\ Begun(<<p, V[p]>>)'
           /\ A1[<<p, V[p]>>] = A[<<p, V[p]>>] /\ L1[<<p, V[p]>>] = L[<<p, V[p]>>]
    <3> SUFFICES ASSUME NEW p \in Pids, Begun(<<p, V[p]>>)
                 PROVE  <<p, V[p]>> \in Incarnations
      BY <1>7, <1>9
    <3>1. V[p] \in Nat \ {0} /\ V[p] <= task[p].gen /\ task[p].gen \in 0..MaxGen
      BY <1>2, <1>8 DEF Begun, Task
    <3>2. QED BY <3>1, BoundsAssumption DEF Incarnations
  <2>3. QED BY <1>8, <2>1, <2>2 DEF Grown
<1>19. QED
  BY <1>8, <1>9, <1>11, <1>12, <1>13, <1>14, <1>16, <1>17, <1>18 DEF Heritage

LEMMA KernelHeritage ==
    ASSUME Disciplined, LinksHaveRoom, TInv, OInv, NEW A, NEW L, NEW V, Heritage(A, L, V),
           Kernel
    PROVE  \E A1, L1 : Heritage(A1, L1, V)'
<1>1. PICK t \in Pids :
         \/ \E c \in Pids : Fork(t, c) \/ CloneThread(t, c)
         \/ \E comm \in Comms : Exec(t, comm) \/ SetTitle(t, comm)
         \/ \E a \in Accesses, f \in Paths : FileAccess(t, a, f)
         \/ \E code \in Codes : ExitGroup(t, code)
         \/ Exit(t)
  BY DEF Kernel, KernelNext
<1>2. /\ task \in [Pids -> Task] /\ task[t] \in Task /\ task[t].tgid = t
      /\ \A q \in Pids : task[q].tgid = q /\ task[q].st # "zombie"
      /\ UNCHANGED <<parents, tracked, operations, rootInc, pc>>
  BY DEF TInv, TypeOK, KernelTypeOK, OInv, Invoked, Kernel, agentVars, treeVars, history,
         Heritage, Living
<1>3. Source(t).inc = Inc(t) /\ Source(t).anc = task[t].anc
  BY <1>2 DEF Source
<1>4. /\ Acts(t) => task[t].st = "live"
      /\ ~Allows("threads") /\ ~Allows("drops") /\ ~Allows("orphans")
  BY DEF Disciplined, Acts, Allows
<1>5. \A e : Output(e) => EVENTS' = Append(EVENTS, e)
  BY <1>4 DEF Output
<1>6. CASE \E c \in Pids : Fork(t, c)
  BY <1>2, <1>6, ForkHeritage
<1>7. ~ \E c \in Pids : CloneThread(t, c)
  BY <1>4 DEF CloneThread
<1>8. CASE \E comm \in Comms : Exec(t, comm)
  <2>1. PICK comm \in Comms : Exec(t, comm)
    BY <1>8
  <2>2. PICK e : e = [type |-> "exec", pid |-> t, ppid |-> PARENT_MAP[t], comm |-> comm,
                      src |-> [Source(t) EXCEPT !.invoked = (comm \in Whitelist)]]
    OBVIOUS
  <2>3. /\ EVENTS' = Append(EVENTS, e) /\ e.type = "exec" /\ e.pid = t
        /\ e.ppid = PARENT_MAP[t]
    BY <1>5, <2>1, <2>2 DEF Exec, TraceExec
  <2>4. e.src.inc = Inc(t) /\ e.src.anc = task[t].anc
    BY <1>2, <2>2 DEF Source
  <2>5. /\ task'[t].gen = task[t].gen /\ task'[t].st = "live" /\ task'[t].anc = task[t].anc
        /\ \A q \in Pids \ {t} : task'[q] = task[q]
        /\ UNCHANGED PARENT_MAP /\ task[t].st # "free"
    BY <1>2, <2>1 DEF Exec, Task
  <2>6. QED BY <1>2, <2>3, <2>4, <2>5, ProbeHeritage
<1>9. CASE \E comm \in Comms : SetTitle(t, comm)
  <2>1. PICK comm \in Comms : SetTitle(t, comm)
    BY <1>9
  <2>2. /\ \A q \in Pids : /\ task'[q].gen = task[q].gen /\ task'[q].anc = task[q].anc
                           /\ task'[q].st = task[q].st
        /\ UNCHANGED <<PARENT_MAP, EVENTS>>
    BY <1>2, <2>1 DEF SetTitle, Task
  <2>3. Heritage(A, L, V)'
    BY <1>2, <2>2, QuietHeritage
  <2>4. QED BY <2>3
<1>10. CASE \E a \in Accesses, f \in Paths : FileAccess(t, a, f)
  <2>1. PICK a \in Accesses, f \in Paths : FileAccess(t, a, f)
    BY <1>10
  <2>2. PICK e : e = [type |-> "file", pid |-> t, access |-> a, comm |-> task[t].comm,
                      path |-> f, src |-> Source(t)]
    OBVIOUS
  <2>3. /\ EVENTS' = Append(EVENTS, e) /\ e.type = "file" /\ e.pid = t /\ task[t].st = "live"
        /\ e.src.inc = Inc(t) /\ e.src.anc = task[t].anc
        /\ UNCHANGED <<task, PARENT_MAP>>
    BY <1>3, <1>4, <1>5, <2>1, <2>2 DEF FileAccess, EmitFileAccess
  <2>4. Heritage(A, L, V)'
    BY <1>2, <2>3, ProbeHeritage
  <2>5. QED BY <2>4
<1>11. CASE \E code \in Codes : ExitGroup(t, code)
  <2>1. PICK code \in Codes : ExitGroup(t, code)
    BY <1>11
  <2>2. /\ \A q \in Pids : /\ task'[q].gen = task[q].gen /\ task'[q].anc = task[q].anc
                           /\ task'[q].st \in {task[q].st, "exiting"}
                           /\ task'[q].st # task[q].st => task[q].st = "live"
        /\ UNCHANGED <<PARENT_MAP, EVENTS>>
    BY <1>2, <1>4, <2>1 DEF ExitGroup, Task
  <2>3. Heritage(A, L, V)'
    BY <1>2, <2>2, QuietHeritage
  <2>4. QED BY <2>3
<1>12. CASE Exit(t)
  <2>1. Threads(t) = {t} /\ task[t].st \in {"live", "exiting"}
    BY <1>2, <1>4, <1>12 DEF Exit, Threads, Alive
  <2>2. PICK e : e = ExitRecord(t, EXIT_CODES[t])
    OBVIOUS
  <2>3. /\ EVENTS' = Append(EVENTS, e) /\ UNCHANGED PARENT_MAP
        /\ task' = [q \in Pids |-> IF q = t THEN FreeTask(q, task[q].gen, IdleComm)
                                   ELSE task[q]]
    BY <1>2, <1>5, <1>12, <2>1, <2>2 DEF Exit, TraceExit
  <2>4. e.type = "exit" /\ e.pid = t /\ e.src.inc = Inc(t) /\ e.src.anc = task[t].anc
    BY <1>3, <2>2 DEF ExitRecord
  <2>5. /\ task'[t].gen = task[t].gen /\ task'[t].st = "free"
        /\ \A q \in Pids \ {t} : task'[q] = task[q]
    BY <2>3 DEF FreeTask
  <2>6. \A q \in Pids \ {t} : task[q].st # "free" => Inc(t) \notin task[q].anc
    <3>1. MayEnd(t)
      BY <1>2, <1>12, <2>1 DEF Exit
    <3>2. \A q \in Pids : task[q].st # "free" => Alive(q)
      BY <1>2 DEF Alive, Task
    <3>3. QED BY <1>2, <1>4, <3>1, <3>2 DEF MayEnd
  <2>7. Heritage(A, L, V)'
    BY <1>2, <2>1, <2>3, <2>4, <2>5, <2>6, ProbeHeritage
  <2>8. QED BY <2>7
<1>13. QED BY <1>1, <1>6, <1>7, <1>8, <1>9, <1>10, <1>11, <1>12

\* The process of the record that dispatch takes, and its ancestors, are the
\* ones the tree knows by their pids.
LEMMA HeadIsCurrent ==
    ASSUME TInv, OInv, NEW A, NEW L, NEW V, Heritage(A, L, V), Dispatch
    PROVE  LET u == Head1.src.inc
           IN  /\ u \in Incarnations /\ u \in A[u] /\ u = <<Head1.pid, V[Head1.pid]>>
               /\ Begun(u) /\ Head1.src.anc = A[u]
               /\ Head1.type = "exec" => Head1.ppid = L[u]
               /\ \A x \in A[u] : /\ x \in Incarnations /\ Begun(x) /\ A[x] \subseteq A[u]
                                  /\ x = <<x[1], V[x[1]]>> /\ x[1] \in Pids
                                  /\ Linked(Head1)[x[1]] = L[x]
<1>0. PICK u, n : u = Head1.src.inc /\ n = Len(EVENTS)
  OBVIOUS
<1>1. /\ A \in [Incarnations -> SUBSET Incarnations] /\ L \in [Incarnations -> Pids \cup {NoPid}]
      /\ V \in [Pids -> Nat \ {0}]
      /\ Family(A, L) /\ Living(A, L) /\ Told(A, L)
      /\ Behind(V) /\ Timely(A, L, V) /\ Grown(A, L, V)
  BY DEF Heritage
<1>2. /\ \A x \in Incarnations : /\ x[1] \in Pids /\ x[2] \in Nat \ {0} /\ x = <<x[1], x[2]>>
                                 /\ task[x[1]].gen \in Nat
      /\ \A i \in 1..n : /\ EVENTS[i].src.inc \in Incarnations /\ Begun(EVENTS[i].src.inc)
                         /\ EVENTS[i].src.inc = <<EVENTS[i].pid, Gen(EVENTS[i])>>
                         /\ EVENTS[i].pid \in Pids /\ Gen(EVENTS[i]) \in Nat
  BY <1>0, Owners
<1>3. EVENTS[1] = Head1 /\ 1 \in 1..n
  BY <1>0, TakenIsSpent
<1>4. /\ u \in Incarnations /\ Begun(u) /\ u = <<Head1.pid, Gen(Head1)>> /\ u \in A[u]
      /\ Head1.src.anc = A[u] /\ (Head1.type = "exec" => Head1.ppid = L[u])
      /\ \A x \in A[u] : x \in Incarnations /\ Begun(x) /\ A[x] \subseteq A[u]
  <2>1. u \in Incarnations /\ Begun(u) /\ u = <<Head1.pid, Gen(Head1)>>
    BY <1>0, <1>2, <1>3
  <2>2. u \in A[u] /\ \A x \in A[u] : x \in Incarnations /\ Begun(x) /\ A[x] \subseteq A[u]
    BY <1>1, <2>1 DEF Family
  <2>3. Head1.src.anc = A[u] /\ (Head1.type = "exec" => Head1.ppid = L[u])
    BY <1>0, <1>1, <1>3 DEF Told
  <2>4. QED BY <2>1, <2>2, <2>3
<1>5. ASSUME NEW x \in A[u] PROVE V[x[1]] = x[2]
  <2>1. x \in Incarnations /\ Begun(x) /\ V[x[1]] <= x[2]
    BY <1>0, <1>1, <1>3, <1>4 DEF Timely
  <2>2. /\ x[1] \in Pids /\ x[2] \in Nat /\ V[x[1]] \in Nat \ {0}
        /\ task[x[1]].gen \in Nat /\ x[2] \in 1..MaxGen
    BY <1>1, <1>2, <2>1 DEF Incarnations
  <2>3. ASSUME V[x[1]] < x[2] PROVE FALSE
    <3>1. PICK y : y = <<x[1], V[x[1]]>>
      OBVIOUS
    <3>2. y \in Incarnations /\ y[1] = x[1] /\ y[2] = V[x[1]]
      BY <2>2, <2>3, <3>1, BoundsAssumption DEF Incarnations
    <3>3. Begun(y) /\ ~Running(y)
      BY <2>1, <2>2, <2>3, <3>2 DEF Begun, Running
    <3>4. PICK i \in 1..n : EVENTS[i].type = "exit" /\ EVENTS[i].src.inc = y
      BY <1>0, <1>1, <2>2, <3>2, <3>3 DEF Behind, Sent
    <3>5. EVENTS[i].pid = x[1] /\ Gen(EVENTS[i]) < x[2] /\ ~ (i < 1)
      BY <1>2, <2>3, <3>2, <3>4 DEF Gen
    <3>6. QED BY <1>0, <1>1, <1>3, <3>4, <3>5 DEF Timely
  <2>4. QED BY <2>1, <2>2, <2>3
<1>6. ASSUME NEW x \in A[u] PROVE Linked(Head1)[x[1]] = L[x]
  <2>1. /\ x \in Incarnations /\ x[1] \in Pids /\ x = <<x[1], V[x[1]]>>
        /\ u[1] = Head1.pid /\ parents \in [Pids -> Pids \cup {NoPid}]
    BY <1>2, <1>4, <1>5 DEF TInv, TypeOK, Tree!TypeOK
  <2>2. parents[x[1]] # NoPid => parents[x[1]] = L[x]
    BY <1>1, <2>1 DEF Grown
  <2>3. CASE x = u
    <3>1. Connected(L, V, u, 1)
      BY <1>0, <1>1, <1>3, <1>4 DEF Timely
    <3>2. Sent("exec", u, 1) => Head1.type = "exec"
      BY <1>3 DEF Sent
    <3>3. QED BY <1>4, <2>1, <2>2, <2>3, <3>1, <3>2 DEF Linked, Connected
  <2>4. CASE x # u
    <3>1. x[1] # Head1.pid
      BY <1>1, <1>4, <2>1, <2>4 DEF Family
    <3>2. Connected(L, V, x, 1)
      BY <1>0, <1>1, <1>3 DEF Timely
    <3>3. ~ Sent("exec", x, 1)
      BY <1>0, <1>3, <2>4 DEF Sent
    <3>4. QED BY <2>1, <2>2, <3>1, <3>2, <3>3 DEF Linked, Connected
  <2>5. QED BY <2>3, <2>4
<1>7. QED BY <1>0, <1>2, <1>4, <1>5, <1>6

\* A walk up the family of u visits ancestors of u only, each of them further up.
Climbs(A, V, u, up) ==
    LET own(k) == <<up[k], V[up[k]]>>
    IN  /\ up[0] = u[1]
        /\ \A k \in 0..MaxWalk : up[k] \in Pids => own(k) \in A[u]
        /\ \A k \in 0..(MaxWalk - 1) :
              up[k] \in Pids /\ A[own(k)] # {own(k)} =>
                 /\ up[k + 1] \in Pids /\ own(k) \notin A[own(k + 1)]
                 /\ A[own(k)] = {own(k)} \cup A[own(k + 1)]

\* The parent walk from the process of the record is one.
LEMMA WalkClimbs ==
    ASSUME TInv, OInv, NEW A, NEW L, NEW V, Heritage(A, L, V), Dispatch
    PROVE  Climbs(A, V, Head1.src.inc, Tree!Ancestors(Head1.pid, Linked(Head1)))
<1> DEFINE u == Head1.src.inc
           par == Linked(Head1)
           up == Tree!Ancestors(Head1.pid, par)
           own(k) == <<up[k], V[up[k]]>>
<1>1. /\ Head1.pid \in Pids /\ u \in A[u] /\ u = <<Head1.pid, V[Head1.pid]>>
      /\ \A x \in A[u] : /\ x \in Incarnations /\ Begun(x) /\ A[x] \subseteq A[u]
                         /\ x = <<x[1], V[x[1]]>> /\ x[1] \in Pids /\ par[x[1]] = L[x]
  BY HeadIsCurrent, TakenIsSpent
<1>2. par \in [Pids -> Pids \cup {NoPid}]
  <2>1. Head1 \in Record /\ parents \in [Pids -> Pids \cup {NoPid}]
    BY DispatchAttributes DEF TInv, TypeOK, Tree!TypeOK
  <2>2. Head1.type = "exec" => Head1.ppid \in Pids \cup {NoPid}
    BY <2>1 DEF Record, ProcessExecEvent, ProcessExitEvent, FileAccessEvent
  <2>3. QED BY <1>1, <2>1, <2>2 DEF Linked
<1> HIDE DEF par
<1>3. /\ up \in [0..MaxWalk -> Pids \cup {NoPid}] /\ up[0] = Head1.pid
      /\ \A k \in 1..MaxWalk : up[k] = IF up[k - 1] = NoPid THEN NoPid ELSE par[up[k - 1]]
  BY <1>1, <1>2, WalkFollowsLinks
<1>4. Family(A, L) /\ u[1] = Head1.pid
  BY <1>1 DEF Heritage
<1> HIDE DEF up, u
\* A step of the walk from an ancestor.
<1>5. ASSUME NEW k \in 0..(MaxWalk - 1), up[k] \in Pids, own(k) \in A[u]
      PROVE  /\ up[k + 1] \in Pids => own(k + 1) \in A[u]
             /\ A[own(k)] # {own(k)} =>
                   /\ up[k + 1] \in Pids /\ own(k) \notin A[own(k + 1)]
                   /\ A[own(k)] = {own(k)} \cup A[own(k + 1)]
  <2>1. PICK x : x = own(k)
    OBVIOUS
  <2>2. x \in A[u] /\ x \in Incarnations /\ Begun(x) /\ A[x] \subseteq A[u] /\ x[1] = up[k]
        /\ par[up[k]] = L[x]
    BY <1>1, <1>5, <2>1
  <2>3. up[k + 1] = L[x]
    <3>1. k + 1 \in 1..MaxWalk /\ (k + 1) - 1 = k
      BY MaxWalkAssumption
    <3>2. up[k] # NoPid
      BY <1>5, NoPidAssumption
    <3>3. QED BY <1>3, <2>2, <3>1, <3>2
  <2>4. CASE L[x] = NoPid
    <3>1. A[x] = {x}
      BY <1>4, <2>2, <2>4 DEF Family
    <3>2. QED BY <2>1, <2>3, <2>4, <3>1, NoPidAssumption
  <2>5. CASE L[x] # NoPid
    <3>1. PICK v \in A[x] : v[1] = L[x] /\ x \notin A[v] /\ A[x] = {x} \cup A[v]
      BY <1>4, <2>2, <2>5 DEF Family
    <3>2. v \in A[u] /\ v = own(k + 1) /\ up[k + 1] \in Pids
      BY <1>1, <2>2, <2>3, <3>1
    <3>3. QED BY <2>1, <3>1, <3>2
  <2>6. QED BY <2>4, <2>5
<1>6. \A k \in 0..MaxWalk : up[k] \in Pids => own(k) \in A[u]
  <2> DEFINE Strays == {k \in 0..MaxWalk : up[k] \in Pids /\ own(k) \notin A[u]}
  <2> SUFFICES ASSUME Strays # {} PROVE FALSE
    OBVIOUS
  <2>1. Strays \subseteq Nat
    OBVIOUS
  <2> HIDE DEF Strays
  <2>2. PICK k \in Strays : \A j \in Strays : k <= j
    BY <2>1, LeastElement
  <2> USE DEF Strays
  <2>3. k \in 1..MaxWalk /\ up[k] \in Pids /\ own(k) \notin A[u]
    BY <1>1, <1>3, <2>2 DEF u
  <2>4. k - 1 \in 0..(MaxWalk - 1) /\ k - 1 \in 0..MaxWalk /\ ~ (k <= k - 1)
        /\ (k - 1) + 1 = k
    BY <2>3, MaxWalkAssumption
  <2>5. up[k - 1] \in Pids
    BY <1>3, <2>3, <2>4, NoPidAssumption
  <2>6. own(k - 1) \in A[u]
    <3>1. k - 1 \notin Strays
      <4> HIDE DEF Strays
      <4>1. QED BY <2>2, <2>4
    <3>2. QED BY <2>4, <2>5, <3>1
  <2>7. QED BY <1>5, <2>3, <2>4, <2>5, <2>6
<1>7. \A k \in 0..(MaxWalk - 1) : k \in 0..MaxWalk
  BY MaxWalkAssumption
<1>8. Climbs(A, V, u, up)
  BY <1>3, <1>4, <1>5, <1>6, <1>7 DEF Climbs
<1>9. QED BY <1>8 DEF u, up, par

\* The root a record is attributed to belongs to an ancestor of its process, and
\* its operation is open unless the root's own exit closes it.
LEMMA RootIsHeritage ==
    ASSUME TInv, OInv, NEW A, NEW L, NEW V, Heritage(A, L, V), Dispatch,
           RootFor(Head1) # NoPid
    PROVE  /\ RootFor(Head1) \in Pids
           /\ <<RootFor(Head1), V[RootFor(Head1)]>> \in A[Head1.src.inc]
           /\ Head1.type # "exit" => operations'[RootFor(Head1)] # None
<1> DEFINE u == Head1.src.inc
           p == Head1.pid
           par == Linked(Head1)
           root == RootFor(Head1)
<1>1. /\ p \in Pids /\ u \in A[u] /\ u = <<p, V[p]>>
      /\ \A x \in A[u] : A[x] \subseteq A[u]
  BY HeadIsCurrent, TakenIsSpent
<1>2. /\ Attributes(Head1) /\ root \in Pids /\ pc # "done"
  BY DispatchAttributes DEF Attributes, Dispatch
<1>3. \A q \in Pids : tracked[q] # NoPid =>
         /\ <<tracked[q], V[tracked[q]]>> \in A[<<q, V[q]>>]
         /\ operations[tracked[q]] # None
  BY <1>2 DEF Heritage, Grown
<1>4. Head1.type # "exit" => \A r \in Pids : operations[r] # None => operations'[r] # None
  BY <1>2 DEF Attributes
<1>5. CASE tracked[p] # NoPid
  <2>1. root = tracked[p]
    BY <1>5 DEF RootFor, Tree!RootOf
  <2>2. QED BY <1>1, <1>2, <1>3, <1>4, <1>5, <2>1
<1>6. CASE tracked[p] = NoPid /\ Head1.comm \in Whitelist
  <2>1. root = p
    BY <1>6 DEF RootFor, Tree!RootOf
  <2>2. Head1.type # "exit" => operations'[p] # None
    BY <1>2, <1>6 DEF Attributes, Tree!Starts
  <2>3. QED BY <1>1, <1>2, <2>1, <2>2
<1>7. CASE tracked[p] = NoPid /\ Head1.comm \notin Whitelist
  <2>1. root = Tree!InheritedRoot(p, par)
    BY <1>7 DEF RootFor, Tree!RootOf
  <2>2. PICK k \in 1..MaxWalk :
           LET q == Tree!Ancestors(p, par)[k]
           IN  q \in Pids /\ tracked[q] # NoPid /\ Tree!InheritedRoot(p, par) = tracked[q]
    BY <1>1, <2>1, InheritedRootIsSeen
  <2>3. PICK q : q = Tree!Ancestors(p, par)[k]
    OBVIOUS
  <2>4. q \in Pids /\ tracked[q] # NoPid /\ root = tracked[q] /\ k \in 0..MaxWalk
    BY <2>1, <2>2, <2>3, MaxWalkAssumption
  <2>5. <<q, V[q]>> \in A[u]
    BY <2>3, <2>4, WalkClimbs DEF Climbs
  <2> HIDE DEF root, u
  <2>6. <<root, V[root]>> \in A[u]
    BY <1>1, <1>3, <2>4, <2>5
  <2>7. Head1.type # "exit" => operations'[root] # None
    BY <1>2, <1>3, <1>4, <2>4
  <2>8. QED BY <1>2, <2>6, <2>7 DEF root, u
<1>8. QED BY <1>5, <1>6, <1>7

\* The exit record moves the tree on to the pid's next generation.
Moved(V) == IF Head1.type = "exit" THEN [V EXCEPT ![Head1.pid] = @ + 1] ELSE V

\* What dispatch leaves of the records.
LEMMA DispatchShifts ==
    ASSUME TInv, OInv, Dispatch
    PROVE  /\ \A i \in 1..Len(EVENTS') : /\ i + 1 \in 1..Len(EVENTS) /\ 1 < i + 1
                                         /\ EVENTS'[i] = EVENTS[i + 1]
           /\ \A type, u : \A i \in 1..Len(EVENTS) :
                 Sent(type, u, i) =>
                    \/ type = Head1.type /\ u = Head1.src.inc
                    \/ Sent(type, u, i - 1)'
           /\ \A type, u : Sent(type, u, Len(EVENTS))' => Sent(type, u, Len(EVENTS))
           /\ Len(EVENTS') = Len(EVENTS) - 1 /\ Len(EVENTS) \in Nat
           /\ EVENTS[1] = Head1 /\ 1 \in 1..Len(EVENTS)
<1>0. PICK n : n = Len(EVENTS)
  OBVIOUS
<1>1. /\ n \in Nat /\ Len(EVENTS') = n - 1 /\ EVENTS[1] = Head1 /\ 1 \in 1..n
      /\ \A i \in 1..(n - 1) : /\ i + 1 \in 1..n /\ 1 < i + 1
                               /\ EVENTS'[i] = EVENTS[i + 1]
  BY <1>0, TakenIsSpent DEF TInv, TypeOK, KernelTypeOK
<1>2. ASSUME NEW type, NEW u, NEW i \in 1..n, Sent(type, u, i)
      PROVE  (type = Head1.type /\ u = Head1.src.inc) \/ Sent(type, u, i - 1)'
  <2>1. PICK j \in 1..i : EVENTS[j].type = type /\ EVENTS[j].src.inc = u
    BY <1>2 DEF Sent
  <2>2. CASE j = 1
    BY <1>1, <2>1, <2>2
  <2>3. CASE j # 1
    <3>1. j - 1 \in 1..(i - 1) /\ j - 1 \in 1..(n - 1) /\ (j - 1) + 1 = j
      BY <1>1, <2>3
    <3>2. EVENTS'[j - 1] = EVENTS[j]
      BY <1>1, <3>1
    <3>3. QED BY <2>1, <3>1, <3>2 DEF Sent
  <2>4. QED BY <2>2, <2>3
<1>3. ASSUME NEW type, NEW u, Sent(type, u, n - 1)'
      PROVE  Sent(type, u, n)
  <2>1. PICK j \in 1..(n - 1) : EVENTS'[j].type = type /\ EVENTS'[j].src.inc = u
    BY <1>3 DEF Sent
  <2>2. QED BY <1>1, <2>1 DEF Sent
<1>4. QED BY <1>0, <1>1, <1>2, <1>3

\* Links stay known, unless the record is the exit of the process itself.
LEMMA DispatchConnects ==
    ASSUME TInv, OInv, NEW A, NEW L, NEW V, Heritage(A, L, V), Dispatch,
           NEW x \in Incarnations, NEW i \in 1..Len(EVENTS), Connected(L, V, x, i),
           ~ (Head1.type = "exit" /\ x = Head1.src.inc), NEW V1, V1 = Moved(V)
    PROVE  Connected(L, V1, x, i - 1)'
<1> DEFINE u == Head1.src.inc
           p == Head1.pid
<1>1. /\ p \in Pids /\ u = <<p, V[p]>> /\ (Head1.type = "exec" => Head1.ppid = L[u])
  BY HeadIsCurrent, TakenIsSpent
<1>2. x[1] \in Pids /\ x = <<x[1], x[2]>>
  BY Owners
<1>3. /\ parents \in [Pids -> Pids \cup {NoPid}] /\ V \in [Pids -> Nat \ {0}]
      /\ parents' = IF Head1.type = "exit" THEN [parents EXCEPT ![p] = NoPid]
                    ELSE Linked(Head1)
  BY DispatchAttributes DEF Attributes, TInv, TypeOK, Tree!TypeOK, Heritage
<1>4. \A q \in Pids : ~ (Head1.type = "exit" /\ q = p) => V1[q] = V[q]
  BY <1>3 DEF Moved
<1>5. CASE L[x] = NoPid
  BY <1>5 DEF Connected
<1>6. CASE L[x] # NoPid /\ V[x[1]] = x[2] /\ parents[x[1]] = L[x]
  <2>1. x[1] = p => x = u
    BY <1>1, <1>2, <1>6
  <2>2. V1[x[1]] = x[2]
    BY <1>2, <1>4, <1>6, <2>1
  <2>3. parents'[x[1]] = L[x]
    <3>1. CASE Head1.type = "exit"
      BY <1>2, <1>3, <1>6, <2>1, <3>1
    <3>2. CASE Head1.type # "exit"
      BY <1>1, <1>2, <1>3, <1>6, <2>1, <3>2 DEF Linked
    <3>3. QED BY <3>1, <3>2
  <2>4. QED BY <2>2, <2>3 DEF Connected
<1>7. CASE L[x] # NoPid /\ Sent("exec", x, i)
  <2>1. CASE Head1.type = "exec" /\ x = u
    <3>1. parents'[p] = L[x]
      BY <1>1, <1>3, <1>7, <2>1 DEF Linked
    <3>2. V1[p] = V[p]
      BY <1>1, <1>4, <2>1
    <3>3. x[1] = p /\ x[2] = V[p]
      BY <1>1, <2>1
    <3>4. QED BY <3>1, <3>2, <3>3 DEF Connected
  <2>2. CASE ~ (Head1.type = "exec" /\ x = u)
    <3>1. Sent("exec", x, i - 1)'
      BY <1>7, <2>2, DispatchShifts
    <3>2. QED BY <3>1 DEF Connected
  <2>3. QED BY <2>1, <2>2
<1>8. QED BY <1>5, <1>6, <1>7 DEF Connected

LEMMA DispatchHeritage ==
    ASSUME TInv, OInv, NEW A, NEW L, NEW V, Heritage(A, L, V), Dispatch,
           NEW V1, V1 = Moved(V)
    PROVE  Heritage(A, L, V1)'
<1>0. PICK n, u, p : n = Len(EVENTS) /\ u = Head1.src.inc /\ p = Head1.pid
  OBVIOUS
<1>1. /\ A \in [Incarnations -> SUBSET Incarnations] /\ L \in [Incarnations -> Pids \cup {NoPid}]
      /\ V \in [Pids -> Nat \ {0}]
      /\ Family(A, L) /\ Living(A, L) /\ Told(A, L)
      /\ Behind(V) /\ Timely(A, L, V) /\ Ready(A, L, V) /\ Grown(A, L, V)
  BY DEF Heritage
<1>2. /\ p \in Pids /\ u \in Incarnations /\ u \in A[u] /\ u = <<p, V[p]>> /\ Begun(u)
      /\ Head1.type = "exec" => Head1.ppid = L[u]
      /\ \A x \in A[u] : x = <<x[1], V[x[1]]>>
  BY <1>0, HeadIsCurrent, TakenIsSpent
<1>3. /\ \A x \in Incarnations : /\ x[1] \in Pids /\ x[2] \in Nat \ {0} /\ x = <<x[1], x[2]>>
                                 /\ task[x[1]].gen \in Nat
      /\ \A t \in Pids : task[t].st # "free" => Inc(t) \in Incarnations /\ Begun(Inc(t))
      /\ \A i \in 1..n : /\ EVENTS[i].src.inc \in Incarnations /\ Begun(EVENTS[i].src.inc)
                         /\ EVENTS[i].src.inc = <<EVENTS[i].pid, Gen(EVENTS[i])>>
                         /\ EVENTS[i].pid \in Pids /\ Gen(EVENTS[i]) \in Nat
  BY <1>0, Owners
<1>4. /\ EVENTS[1] = Head1 /\ 1 \in 1..n /\ Len(EVENTS') = n - 1 /\ n \in Nat
      /\ \A i \in 1..(n - 1) : i + 1 \in 1..n /\ 1 < i + 1 /\ EVENTS'[i] = EVENTS[i + 1]
      /\ \A x : Sent("exit", x, n) =>
            (Head1.type = "exit" /\ x = u) \/ Sent("exit", x, n - 1)'
      /\ \A x : Sent("exit", x, n - 1)' => Sent("exit", x, n)
  <2>1. \A x : Sent("exit", x, n) => (Head1.type = "exit" /\ x = u) \/ Sent("exit", x, n - 1)'
    BY <1>0, DispatchShifts
  <2>2. \A x : Sent("exit", x, n - 1)' => Sent("exit", x, n)
    BY <1>0, DispatchShifts
  <2>3. QED BY <1>0, <2>1, <2>2, DispatchShifts
<1>5. UNCHANGED <<task, PARENT_MAP, pc>> /\ pc # "done"
  BY DEF Dispatch
<1>6. /\ V1 \in [Pids -> Nat \ {0}]
      /\ \A q \in Pids : V1[q] = IF Head1.type = "exit" /\ q = p THEN V[q] + 1 ELSE V[q]
  BY <1>0, <1>1, <1>2 DEF Moved
<1>7. Head1.type = "exit" => Sent("exit", u, n) /\ ~Running(u)
  BY <1>0, <1>1, <1>2, <1>4 DEF Behind, Sent
<1>8. \A x \in Incarnations, i \in 1..n :
         Connected(L, V, x, i) /\ ~ (Head1.type = "exit" /\ x = u) => Connected(L, V1, x, i - 1)'
  BY <1>0, DispatchConnects
<1>9. Family(A, L)' /\ Living(A, L)'
  BY <1>1, <1>5 DEF Family, Living, Begun, Running, Inc
<1>10. Told(A, L)'
  <2> SUFFICES ASSUME NEW i \in 1..(n - 1)
               PROVE  LET e == EVENTS'[i]
                      IN  /\ e.src.anc = A[e.src.inc]
                          /\ e.type = "exec" => e.ppid = L[e.src.inc]
    BY <1>4 DEF Told
  <2>1. i + 1 \in 1..n /\ EVENTS'[i] = EVENTS[i + 1]
    BY <1>4
  <2>2. QED BY <1>0, <1>1, <2>1 DEF Told
<1>11. Behind(V1)'
  <2>1. \A q \in Pids : /\ V1[q] <= task[q].gen + 1
                        /\ task[q].st # "free" => V1[q] <= task[q].gen
    <3> SUFFICES ASSUME NEW q \in Pids
                 PROVE  /\ V1[q] <= task[q].gen + 1
                        /\ task[q].st # "free" => V1[q] <= task[q].gen
      OBVIOUS
    <3>1. CASE Head1.type = "exit" /\ q = p
      <4>1. /\ u[1] = p /\ u[2] = V[p] /\ V[p] <= task[p].gen
            /\ V[p] \in Nat /\ task[p].gen \in Nat
            /\ ~ (V[p] = task[p].gen /\ task[p].st # "free")
        BY <1>1, <1>2, <1>3, <1>7, <3>1 DEF Begun, Running
      <4>2. QED BY <1>6, <3>1, <4>1
    <3>2. CASE ~ (Head1.type = "exit" /\ q = p)
      BY <1>1, <1>6, <3>2 DEF Behind
    <3>3. QED BY <3>1, <3>2
  <2>2. ASSUME NEW x \in Incarnations, Begun(x), ~Running(x)
        PROVE  x[2] < V1[x[1]] \/ Sent("exit", x, n - 1)'
    <3>1. x[1] \in Pids /\ V[x[1]] \in Nat /\ x[2] \in Nat
      BY <1>1, <1>3
    <3>2. CASE x[2] < V[x[1]]
      BY <1>6, <3>1, <3>2
    <3>3. CASE Sent("exit", x, n) /\ Head1.type = "exit" /\ x = u
      BY <1>2, <1>6, <3>1, <3>3
    <3>4. QED BY <1>0, <1>1, <1>4, <2>2, <3>2, <3>3 DEF Behind
  <2>3. \A x \in Incarnations : Sent("exit", x, n - 1)' => ~Running(x)
    BY <1>0, <1>1, <1>4 DEF Behind
  <2>4. QED BY <1>4, <1>5, <2>1, <2>2, <2>3 DEF Behind, Begun, Running
<1>12. Timely(A, L, V1)'
  <2> SUFFICES ASSUME NEW j \in 1..(n - 1), NEW x \in A[EVENTS'[j].src.inc]
               PROVE  /\ V1[x[1]] <= x[2]
                      /\ Connected(L, V1, x, j)'
                      /\ \A i \in 1..(n - 1) :
                            EVENTS'[i].type = "exit" /\ EVENTS'[i].pid = x[1] =>
                               (Gen(EVENTS'[i]) < x[2] <=> i < j)
    BY <1>4 DEF Timely, Gen
  <2>1. /\ j + 1 \in 1..n /\ 1 < j + 1 /\ (j + 1) - 1 = j
        /\ x \in A[EVENTS[j + 1].src.inc] /\ x \in Incarnations
    BY <1>1, <1>3, <1>4
  <2>2. /\ V[x[1]] <= x[2] /\ Connected(L, V, x, j + 1)
        /\ \A i \in 1..n : EVENTS[i].type = "exit" /\ EVENTS[i].pid = x[1] =>
              (Gen(EVENTS[i]) < x[2] <=> i < j + 1)
    BY <1>0, <1>1, <2>1 DEF Timely
  <2>3. x[1] \in Pids /\ V[x[1]] \in Nat /\ x[2] \in Nat
    BY <1>1, <1>3, <2>1
  <2>4. Head1.type = "exit" /\ x[1] = p => V[p] < x[2]
    <3>1. Gen(Head1) = V[p]
      BY <1>0, <1>2 DEF Gen
    <3>2. QED BY <1>0, <1>4, <2>1, <2>2, <3>1
  <2>5. V1[x[1]] <= x[2]
    BY <1>6, <2>2, <2>3, <2>4
  <2>6. ~ (Head1.type = "exit" /\ x = u)
    BY <1>2, <2>3, <2>4
  <2>7. Connected(L, V1, x, j)'
    BY <1>8, <2>1, <2>2, <2>6
  <2>8. ASSUME NEW i \in 1..(n - 1), EVENTS'[i].type = "exit", EVENTS'[i].pid = x[1]
        PROVE  Gen(EVENTS'[i]) < x[2] <=> i < j
    <3>1. i + 1 \in 1..n /\ EVENTS'[i] = EVENTS[i + 1]
      BY <1>4
    <3>2. Gen(EVENTS[i + 1]) < x[2] <=> i + 1 < j + 1
      BY <2>2, <2>8, <3>1
    <3>3. QED BY <3>1, <3>2
  <2>9. QED BY <2>5, <2>7, <2>8
<1>13. Ready(A, L, V1)'
  <2> SUFFICES ASSUME NEW t \in Pids, task[t].st # "free", NEW x \in A[Inc(t)],
                      task[t].st # "forked" \/ x # Inc(t)
               PROVE  Connected(L, V1, x, n - 1)'
    BY <1>4, <1>5 DEF Ready, Inc
  <2>1. x \in Incarnations /\ Running(x) /\ Connected(L, V, x, n)
    BY <1>0, <1>1, <1>3 DEF Living, Ready
  <2>2. n \in 1..n
    BY <1>4
  <2>3. QED BY <1>7, <1>8, <2>1, <2>2
<1>14. Grown(A, L, V1)'
  <2>1. /\ Attributes(Head1) /\ parents \in [Pids -> Pids \cup {NoPid}]
        /\ tracked \in [Pids -> Pids \cup {NoPid}]
    BY DispatchAttributes DEF TInv, TypeOK, Tree!TypeOK
  <2>2. ASSUME NEW q \in Pids, parents'[q] # NoPid
        PROVE  Begun(<<q, V1[q]>>) /\ parents'[q] = L[<<q, V1[q]>>]
    <3>1. CASE q = p /\ Head1.type = "exec" /\ Head1.ppid # NoPid
      <4>1. V1[q] = V[q] /\ parents'[q] = L[u]
        BY <1>0, <1>2, <1>6, <2>1, <3>1 DEF Attributes, Linked
      <4>2. QED BY <1>2, <3>1, <4>1
    <3>2. CASE ~ (q = p /\ Head1.type = "exec" /\ Head1.ppid # NoPid)
      <4>1. parents'[q] = parents[q] /\ ~ (Head1.type = "exit" /\ q = p)
        BY <1>0, <1>2, <2>1, <2>2, <3>2 DEF Attributes, Linked
      <4>2. QED BY <1>1, <1>6, <2>2, <4>1 DEF Grown
    <3>3. QED BY <3>1, <3>2
  <2>3. ASSUME NEW q \in Pids, tracked'[q] # NoPid
        PROVE  /\ Begun(<<q, V1[q]>>)
               /\ <<tracked'[q], V1[tracked'[q]]>> \in A[<<q, V1[q]>>]
               /\ operations'[tracked'[q]] # None
    <3>1. CASE q = p
      <4>1. Head1.type # "exit" /\ tracked'[q] = RootFor(Head1)
        BY <1>0, <1>2, <2>1, <2>3, <3>1 DEF Attributes
      <4>2. /\ RootFor(Head1) \in Pids /\ operations'[RootFor(Head1)] # None
            /\ <<RootFor(Head1), V[RootFor(Head1)]>> \in A[u]
        BY <1>0, <2>3, <4>1, RootIsHeritage
      <4>3. QED BY <1>2, <1>6, <3>1, <4>1, <4>2
    <3>2. CASE q # p
      <4>1. PICK r, y : r = tracked[q] /\ y = <<q, V[q]>>
        OBVIOUS
      <4>2. tracked'[q] = r /\ r \in Pids
        BY <1>0, <1>2, <2>1, <2>3, <3>2, <4>1 DEF Attributes
      <4>3. /\ Begun(y) /\ <<r, V[r]>> \in A[y] /\ operations[r] # None
            /\ y[1] = q /\ y[2] = V[q]
        BY <1>1, <1>5, <2>3, <4>1, <4>2 DEF Grown
      <4>4. y \in Incarnations
        <5>1. V[q] \in Nat \ {0} /\ V[q] <= task[q].gen /\ task[q].gen \in 0..MaxGen
          BY <1>1, <4>3 DEF Begun, TInv, TypeOK, KernelTypeOK, Task
        <5>2. QED BY <4>1, <5>1, BoundsAssumption DEF Incarnations
      \* A process that was an ancestor of q ended after q did.
      <4>5. ASSUME Head1.type = "exit", r = p PROVE FALSE
        <5>1. u \in A[y]
          BY <1>2, <4>3, <4>5
        <5>2. ~Running(y)
          <6> SUFFICES ASSUME Running(y) PROVE FALSE
            OBVIOUS
          <6>1. task[q].st # "free" /\ Inc(q) = y
            BY <4>1, <4>3 DEF Running, Inc
          <6>2. QED BY <1>1, <1>7, <4>5, <5>1, <6>1 DEF Living
        <5>3. ~ (y[2] < V[y[1]])
          BY <1>1, <4>3
        <5>4. PICK i \in 1..n : EVENTS[i].type = "exit" /\ EVENTS[i].src.inc = y
          BY <1>0, <1>1, <4>3, <4>4, <5>2, <5>3 DEF Behind, Sent
        <5>5. i # 1
          <6>1. u[1] = p /\ EVENTS[1].src.inc = u
            BY <1>0, <1>2, <1>4
          <6>2. QED BY <3>2, <4>3, <5>4, <6>1
        <5>6. Gen(EVENTS[1]) = u[2] /\ EVENTS[1].pid = u[1] /\ EVENTS[1].type = "exit"
          <6>1. u[1] = p /\ EVENTS[1] = Head1
            BY <1>2, <1>4
          <6>2. QED BY <1>0, <4>5, <6>1 DEF Gen
        <5>7. Gen(EVENTS[1]) < u[2] <=> 1 < i
          BY <1>0, <1>1, <1>4, <5>1, <5>4, <5>6 DEF Timely
        <5>8. QED BY <1>2, <1>3, <5>5, <5>6, <5>7
      <4>6. V1[r] = V[r] /\ V1[q] = V[q] /\ operations'[r] # None
        BY <1>0, <1>6, <2>1, <3>2, <4>2, <4>3, <4>5 DEF Attributes
      <4>7. QED BY <4>1, <4>2, <4>3, <4>6
    <3>3. QED BY <3>1, <3>2
  <2>4. ASSUME NEW r \in Pids, operations'[r] # None PROVE rootInc'[r] = <<r, V1[r]>>
    <3>1. ~ (Head1.type = "exit" /\ r = p) /\ V1[r] = V[r]
      BY <1>0, <1>6, <2>1, <2>4 DEF Attributes
    <3>2. rootInc'[r] = IF Opens(r) THEN u ELSE rootInc[r]
      BY <1>0, <2>4 DEF Dispatch
    <3>3. CASE Opens(r)
      BY <1>0, <1>2, <2>1, <3>1, <3>2, <3>3 DEF Attributes
    <3>4. CASE ~Opens(r)
      <4>1. operations[r] # None
        BY <2>4, <3>4 DEF Opens
      <4>2. QED BY <1>1, <3>1, <3>2, <3>4, <4>1 DEF Grown
    <3>5. QED BY <3>3, <3>4
  <2>5. \A q \in Pids : Begun(<<q, V1[q]>>)' <=> Begun(<<q, V1[q]>>)
    BY <1>5 DEF Begun
  <2>6. QED BY <2>2, <2>3, <2>4, <2>5 DEF Grown
<1>15. QED
  BY <1>1, <1>6, <1>9, <1>10, <1>11, <1>12, <1>13, <1>14 DEF Heritage

LEMMA HeritageInit == Init => DInv
<1> SUFFICES ASSUME Init PROVE DInv
  OBVIOUS
<1>1. TInv /\ OInv
  BY TypesInit, OrderInit
<1> DEFINE A == [u \in Incarnations |-> {u}]
           L == [u \in Incarnations |-> NoPid]
           V == [p \in Pids |-> 1]
<1>2. /\ A \in [Incarnations -> SUBSET Incarnations] /\ L \in [Incarnations -> Pids \cup {NoPid}]
      /\ V \in [Pids -> Nat \ {0}]
      /\ \A u \in Incarnations : A[u] = {u} /\ L[u] = NoPid /\ u[1] \in Pids /\ u[2] \in 1..MaxGen
      /\ \A p \in Pids : V[p] = 1
  BY DEF Incarnations
<1>3. /\ \A t \in Pids : /\ task[t].st = IF t = Runner THEN "live" ELSE "free"
                         /\ task[t].gen = IF t = Runner THEN 1 ELSE 0
                         /\ t = Runner => task[t].anc = {<<t, 1>>}
      /\ PARENT_MAP = [t \in Pids |-> NoPid] /\ EVENTS = <<>>
      /\ parents = [p \in Pids |-> NoPid] /\ tracked = [p \in Pids |-> NoPid]
      /\ operations = [p \in Pids |-> None]
  BY DEF Init, KernelInit, FreeTask, Tree!Init
<1> HIDE DEF A, L, V
<1>4. \A t \in Pids : task[t].st # "free" =>
         Inc(t) = <<t, 1>> /\ Inc(t) \in Incarnations /\ Running(Inc(t))
  BY <1>3, BoundsAssumption DEF Inc, Incarnations, Running
<1>5. \A u \in Incarnations : Begun(u) => Running(u)
  BY <1>2, <1>3 DEF Begun, Running
<1>6. Len(EVENTS) = 0 /\ 1..Len(EVENTS) = {}
  BY <1>3
<1>7. Family(A, L)
  BY <1>2 DEF Family
<1>8. Living(A, L)
  <2> SUFFICES ASSUME NEW t \in Pids
               PROVE  /\ task[t].st # "zombie"
                      /\ task[t].st # "free" =>
                            /\ task[t].anc = A[Inc(t)] /\ PARENT_MAP[t] = L[Inc(t)]
                            /\ \A v \in A[Inc(t)] : Running(v)
    BY DEF Living
  <2>1. task[t].st # "zombie"
    BY <1>3
  <2>2. ASSUME task[t].st # "free"
        PROVE  /\ task[t].anc = A[Inc(t)] /\ PARENT_MAP[t] = L[Inc(t)]
               /\ \A v \in A[Inc(t)] : Running(v)
    <3>1. A[Inc(t)] = {<<t, 1>>} /\ L[Inc(t)] = NoPid /\ Inc(t) = <<t, 1>> /\ Running(Inc(t))
      BY <1>2, <1>4, <2>2
    <3>2. task[t].anc = {<<t, 1>>} /\ PARENT_MAP[t] = NoPid
      BY <1>3, <2>2
    <3>3. QED BY <3>1, <3>2
  <2>3. QED BY <2>1, <2>2
<1>9. Told(A, L) /\ Timely(A, L, V)
  BY <1>6 DEF Told, Timely
<1>10. Behind(V)
  <2>1. \A u : ~ Sent("exit", u, Len(EVENTS))
    BY <1>6 DEF Sent
  <2>2. \A p \in Pids : /\ V[p] <= task[p].gen + 1
                        /\ task[p].st # "free" => V[p] <= task[p].gen
    BY <1>2, <1>3
  <2>3. QED BY <1>5, <2>1, <2>2 DEF Behind
<1>11. Ready(A, L, V)
  BY <1>2, <1>4 DEF Ready, Connected
<1>12. Grown(A, L, V)
  BY <1>3 DEF Grown
<1>13. QED
  BY <1>1, <1>2, <1>7, <1>8, <1>9, <1>10, <1>11, <1>12 DEF DInv, Heritage

\* Under the disciplined workload every process keeps its ancestors, and what
\* the tree has of a pid is of the process that the next record is about.
LEMMA HeritageStep ==
    ASSUME Disciplined
    PROVE  DInv /\ LinksHaveRoom /\ [Next]_vars => DInv'
<1> SUFFICES ASSUME DInv, LinksHaveRoom, [Next]_vars PROVE DInv'
  OBVIOUS
<1>1. TInv /\ OInv
  BY DEF DInv
<1>2. TInv' /\ OInv'
  <2>1. Sequential
    BY DEF Disciplined, Sequential
  <2>2. QED BY <1>1, <2>1, TypesStep, OrderStep
<1>3. PICK A, L, V : Heritage(A, L, V)
  BY DEF DInv
<1>4. CASE Kernel
  BY <1>1, <1>2, <1>3, <1>4, KernelHeritage DEF DInv
<1>5. CASE Dispatch
  <2>1. PICK V1 : V1 = Moved(V)
    OBVIOUS
  <2>2. Heritage(A, L, V1)'
    BY <1>1, <1>3, <1>5, <2>1, DispatchHeritage
  <2>3. QED BY <1>2, <2>2 DEF DInv
<1>6. CASE /\ UNCHANGED <<kernelVars, parents, tracked>>
           /\ \/ UNCHANGED <<operations, rootInc>> /\ (pc = "done" => pc' = "done")
              \/ operations' = [r \in Pids |-> None] /\ pc' = "done"
  <2>1. /\ A \in [Incarnations -> SUBSET Incarnations]
        /\ L \in [Incarnations -> Pids \cup {NoPid}] /\ V \in [Pids -> Nat \ {0}]
        /\ Family(A, L) /\ Living(A, L) /\ Told(A, L)
        /\ Behind(V) /\ Timely(A, L, V) /\ Ready(A, L, V) /\ Grown(A, L, V)
    BY <1>3 DEF Heritage
  <2>2. UNCHANGED <<task, PARENT_MAP, EVENTS, parents, tracked>>
    BY <1>6 DEF kernelVars
  <2>3. Family(A, L)' /\ Living(A, L)' /\ Told(A, L)'
    BY <2>1, <2>2 DEF Family, Living, Told, Begun, Running, Inc
  <2>4. Behind(V)' /\ Timely(A, L, V)' /\ Ready(A, L, V)'
    <3>1. Behind(V)'
      BY <2>1, <2>2 DEF Behind, Sent, Begun, Running
    <3>2. Timely(A, L, V)'
      BY <2>1, <2>2 DEF Timely, Connected, Sent, Gen
    <3>3. Ready(A, L, V)'
      BY <2>1, <2>2 DEF Ready, Connected, Sent, Inc
    <3>4. QED BY <3>1, <3>2, <3>3
  <2>5. Grown(A, L, V)'
    <3>1. pc' # "done" => UNCHANGED <<operations, rootInc>> /\ pc # "done"
      BY <1>6
    <3>2. \A r \in Pids : operations'[r] # None => operations'[r] = operations[r]
                                                   /\ rootInc'[r] = rootInc[r]
      BY <1>6
    <3>3. QED BY <2>1, <2>2, <3>1, <3>2 DEF Grown, Begun
  <2>6. QED BY <1>2, <2>1, <2>3, <2>4, <2>5 DEF DInv, Heritage
<1>7. CASE DrainDone \/ Tick \/ Stopped \/ Signal \/ Finalize \/ UNCHANGED vars
  BY <1>6, <1>7 DEF DrainDone, Tick, Stopped, Signal, Finalize, Tree!FinalizeAll, vars,
                    agentVars, treeVars, history
<1>8. QED BY <1>4, <1>5, <1>7 DEF Next, Agent

\* A process with an ancestor whose operation is open is attributed to a root:
\* to miss it, the walk would have to visit more processes than its ancestors.
LEMMA WalkFindsRoot ==
    ASSUME TInv, OInv, NEW A, NEW L, NEW V, Heritage(A, L, V), Dispatch,
           IsFiniteSet(Pids), RecordsAreShallow,
           NEW r \in Pids, <<r, V[r]>> \in A[Head1.src.inc],
           operations[r] # None \/ Opens(r)
    PROVE  RootFor(Head1) # NoPid
<1> DEFINE u == Head1.src.inc
           p == Head1.pid
           par == Linked(Head1)
           up == Tree!Ancestors(p, par)
           own(k) == <<up[k], V[up[k]]>>
<1> SUFFICES ASSUME RootFor(Head1) = NoPid PROVE FALSE
  OBVIOUS
<1>1. /\ p \in Pids /\ u \in A[u] /\ u = <<p, V[p]>> /\ u \in Incarnations
      /\ \A x \in A[u] : x \in Incarnations /\ Begun(x) /\ x \in A[x] /\ A[x] \subseteq A[u]
  BY HeadIsCurrent, TakenIsSpent DEF Heritage, Family
<1>2. /\ tracked[p] = NoPid /\ Head1.comm \notin Whitelist
      /\ Tree!InheritedRoot(p, par) = NoPid
  BY <1>1, NoPidAssumption DEF RootFor, Tree!RootOf
<1>3. operations[r] # None /\ tracked[r] # NoPid
  <2>1. ~ Opens(r)
    BY <1>2, DispatchAttributes DEF Attributes, Tree!Starts
  <2>2. QED BY <2>1, NoPidAssumption DEF TInv, Tree!Inv, Tree!OpenRootsAreTracked
<1>4. \A k \in 1..MaxWalk : up[k] \in Pids => tracked[up[k]] = NoPid
  BY <1>1, <1>2, InheritedRootIsSeen, NoPidAssumption
<1>5. /\ up[0] = p
      /\ \A k \in 0..MaxWalk : up[k] \in Pids => own(k) \in A[u]
      /\ \A k \in 0..(MaxWalk - 1) :
            up[k] \in Pids /\ A[own(k)] # {own(k)} =>
               /\ up[k + 1] \in Pids /\ own(k) \notin A[own(k + 1)]
               /\ A[own(k)] = {own(k)} \cup A[own(k + 1)]
  <2>1. Climbs(A, V, u, up)
    BY WalkClimbs
  <2>2. u[1] = p
    BY <1>1
  <2> HIDE DEF u, up
  <2>3. QED BY <2>1, <2>2 DEF Climbs
<1> HIDE DEF u, p, par, up
<1> DEFINE Near(k) == /\ up[k] \in Pids /\ <<r, V[r]>> \in A[own(k)]
                        /\ \A i \in 0..(k - 1) : own(i) \notin A[own(k)]
           Falls == {k \in 0..MaxWalk : ~Near(k)}
<1>6. Near(0)
  BY <1>1, <1>5 DEF u
<1>7. ASSUME NEW k \in 0..(MaxWalk - 1), Near(k)
      PROVE  Near(k + 1)
  <2>1. up[k] # r
    BY <1>2, <1>3, <1>4, <1>5, MaxWalkAssumption
  <2>2. A[own(k)] # {own(k)}
    BY <1>7, <2>1
  <2>3. /\ up[k + 1] \in Pids /\ own(k) \notin A[own(k + 1)]
        /\ A[own(k)] = {own(k)} \cup A[own(k + 1)]
    BY <1>5, <1>7, <2>2
  <2>4. <<r, V[r]>> \in A[own(k + 1)]
    BY <1>7, <2>1, <2>3
  <2>5. \A i \in 0..((k + 1) - 1) : i \in 0..(k - 1) \/ i = k
    OBVIOUS
  <2>6. QED BY <1>7, <2>3, <2>4, <2>5
<1>8. Falls = {}
  <2> SUFFICES ASSUME Falls # {} PROVE FALSE
    OBVIOUS
  <2> HIDE DEF Near
  <2>1. Falls \subseteq Nat
    OBVIOUS
  <2> HIDE DEF Falls
  <2>2. PICK k \in Falls : \A j \in Falls : k <= j
    BY <2>1, LeastElement
  <2>3. k \in 0..MaxWalk /\ ~Near(k)
    BY <2>2 DEF Falls
  <2>4. k - 1 \in 0..(MaxWalk - 1) /\ k - 1 \in 0..MaxWalk /\ ~ (k <= k - 1)
        /\ (k - 1) + 1 = k
    BY <1>6, <2>3, MaxWalkAssumption
  <2>5. Near(k - 1)
    <3>1. k - 1 \notin Falls
      BY <2>2, <2>4
    <3>2. QED BY <2>4, <3>1 DEF Falls
  <2>6. QED BY <1>7, <2>3, <2>4, <2>5
<1>9. \A k \in 0..MaxWalk : Near(k)
  <2> HIDE DEF Near
  <2>1. QED BY <1>8
<1>10. \A i, k \in 0..MaxWalk : i < k => up[i] # up[k]
  <2> SUFFICES ASSUME NEW i \in 0..MaxWalk, NEW k \in 0..MaxWalk, i < k, up[i] = up[k]
               PROVE  FALSE
    OBVIOUS
  <2>1. i \in 0..(k - 1) /\ own(i) \notin A[own(k)] /\ up[k] \in Pids
    BY <1>9, MaxWalkAssumption
  <2>2. own(k) \in A[own(k)]
    BY <1>1, <1>5, <2>1
  <2>3. QED BY <2>1, <2>2
<1>11. \A k \in 0..MaxWalk : own(k) \in A[u] \ {<<r, V[r]>>}
  <2> SUFFICES ASSUME NEW k \in 0..MaxWalk PROVE own(k) \in A[u] \ {<<r, V[r]>>}
    OBVIOUS
  <2>1. up[k] \in Pids
    BY <1>9
  <2>2. up[k] # r
    BY <1>2, <1>3, <1>4, <1>5, <2>1, MaxWalkAssumption
  <2>3. QED BY <1>5, <2>1, <2>2
<1>12. /\ IsFiniteSet(A[u] \ {<<r, V[r]>>})
       /\ Cardinality(A[u] \ {<<r, V[r]>>}) \in Nat
       /\ Cardinality(A[u] \ {<<r, V[r]>>}) <= MaxWalk
  <2>1. IsFiniteSet(A[u])
    <3>1. IsFiniteSet(1..MaxGen)
      <4>1. 1 \in Int /\ MaxGen \in Int
        BY BoundsAssumption
      <4>2. QED BY ONLY <4>1, FS_Interval
    <3>2. IsFiniteSet(Incarnations)
      BY <3>1, FS_Product DEF Incarnations
    <3>3. QED BY <1>1, <3>2, FS_Subset
  <2>2. Cardinality(A[u]) <= MaxWalk + 1
    <3>1. Head1.src.anc = A[u]
      BY HeadIsCurrent DEF u
    <3>2. EVENTS[1] = Head1 /\ 1 \in 1..Len(EVENTS)
      BY TakenIsSpent
    <3>3. QED BY <3>1, <3>2 DEF RecordsAreShallow
  <2>3. <<r, V[r]>> \in A[u]
    BY DEF u
  <2>4. /\ IsFiniteSet(A[u] \ {<<r, V[r]>>})
        /\ Cardinality(A[u] \ {<<r, V[r]>>}) = Cardinality(A[u]) - 1
    BY <2>1, <2>3, FS_RemoveElement
  <2>5. Cardinality(A[u]) \in Nat /\ Cardinality(A[u] \ {<<r, V[r]>>}) \in Nat
    BY <2>1, <2>4, FS_CardinalityType
  <2>6. QED BY <2>2, <2>4, <2>5, MaxWalkAssumption
<1>13. QED
  <2> DEFINE f == [k \in 0..MaxWalk |-> own(k)]
             idx == 0..MaxWalk
             kin == A[u] \ {<<r, V[r]>>}
  <2>1. f \in [idx -> kin]
    BY <1>11
  <2>2. IsFiniteSet(idx) /\ Cardinality(idx) = MaxWalk + 1
    BY FS_Interval, MaxWalkAssumption
  <2>3. IsFiniteSet(kin) /\ Cardinality(kin) < Cardinality(idx)
    BY <1>12, <2>2, MaxWalkAssumption
  <2>4. \A x, y \in idx : f[x] = f[y] => up[x] = up[y]
    OBVIOUS
  <2> HIDE DEF f, kin
  <2>5. \E x, y \in idx : x # y /\ f[x] = f[y]
    <3> HIDE DEF idx
    <3>1. QED BY <2>1, <2>2, <2>3, FS_PigeonHole
  <2>6. QED BY <1>10, <2>4, <2>5, MaxWalkAssumption

-----------------------------------------------------------------------------
(* The theorems *)

\* As long as no pid is handed out twice, dispatch credits a file access only
\* to an operation that the process itself or one of its ancestors opened.
THEOREM NoForeignIOWithoutReuse ==
    ASSUME MaxGen = 1
    PROVE  Spec => NoForeignIO
<1>1. LInv /\ [Next]_vars =>
         [\A r \in Pids :
             (/\ operations[r] # None /\ operations'[r] # None
              /\ operations'[r].paths # operations[r].paths)
             => rootInc[r] \in Head1.src.anc]_vars
  <2> SUFFICES ASSUME LInv, Next, NEW r \in Pids,
                      operations[r] # None, operations'[r] # None,
                      operations'[r].paths # operations[r].paths
               PROVE  rootInc[r] \in Head1.src.anc
    OBVIOUS
  <2>1. Dispatch
    BY DEF Next, Agent, DrainDone, Tick, Stopped, Signal, Finalize, Tree!FinalizeAll,
           Kernel, agentVars, treeVars
  <2>2. PICK P, A : Lineage(P, A)
    BY DEF LInv
  <2>3. r = RootFor(Head1)
    BY <2>1, DispatchAttributes DEF LInv, Attributes
  <2>4. <<P[r], 1>> \in A[Head1.pid]
    BY <2>1, <2>2, <2>3, RootIsAncestor, NoPidAssumption DEF LInv
  <2>5. Head1.src.anc = A[Head1.pid]
    BY <2>1, <2>2, TakenIsKnown DEF LInv, Known
  <2>6. rootInc[r] = <<P[r], 1>>
    BY <2>2 DEF Lineage, TreeLineage
  <2>7. QED BY <2>4, <2>5, <2>6
<1>2. QED BY <1>1, LineageInit, LineageStep, PTL DEF Spec, NoForeignIO

\* With single-threaded processes that exec before they act, an operation is
\* opened only for a process that runs a whitelisted command, and at most once
\* for each: whatever processes name themselves, reused pids, orphans, dropped
\* records and evicted entries.
THEOREM OneOperationEach ==
    ASSUME Workload \cap {"threads", "bare_fork"} = {}
    PROVE  Spec => OneOperationPerInvocation
<1>1. TInv /\ OInv /\ [Next]_vars =>
         [\A r \in Pids : Dispatch /\ Opens(r) =>
             Head1.src.invoked /\ Head1.src.inc \notin opened]_vars
  <2> SUFFICES ASSUME TInv, OInv, Dispatch, NEW r \in Pids, Opens(r)
               PROVE  Head1.src.invoked /\ Head1.src.inc \notin opened
    OBVIOUS
  <2>1. r = Head1.pid /\ tracked[r] = NoPid /\ Head1.comm \in Whitelist
    BY DispatchAttributes DEF Attributes, Tree!Starts
  <2>2. /\ Head1 \in Faithful /\ Head1.src.inc = <<Head1.pid, Gen(Head1)>>
        /\ EVENTS[1] = Head1 /\ 1 \in 1..Len(EVENTS)
    BY TakenIsSpent
  <2>3. Head1.src.invoked
    BY <2>1, <2>2 DEF Faithful
  <2>4. ~ Spent(Head1.src.inc)
    BY <2>2 DEF Spent
  <2>5. QED BY <2>1, <2>2, <2>3, <2>4 DEF OInv, Remembered
<1>2. Sequential
  BY DEF Sequential
<1>3. QED
  BY <1>1, <1>2, OrderInit, OrderStep, TypesHold, PTL DEF Spec, OneOperationPerInvocation

\* If processes have one thread, exec before they act and outlive their
\* descendants, no record is dropped and no link evicted, dispatch credits a
\* file access only to an operation that the process itself or one of its
\* ancestors opened, however often pids are reused and however far the agent is
\* behind.
THEOREM NoForeignIOWithReuse ==
    ASSUME Workload \subseteq {"titles", "stop"}, IsFiniteSet(Pids)
    PROVE  Spec /\ []LinksHaveRoom => NoForeignIO
<1>1. DInv /\ [Next]_vars =>
         [\A r \in Pids :
             (/\ operations[r] # None /\ operations'[r] # None
              /\ operations'[r].paths # operations[r].paths)
             => rootInc[r] \in Head1.src.anc]_vars
  <2> SUFFICES ASSUME DInv, Next, NEW r \in Pids,
                      operations[r] # None, operations'[r] # None,
                      operations'[r].paths # operations[r].paths
               PROVE  rootInc[r] \in Head1.src.anc
    OBVIOUS
  <2>1. Dispatch
    BY DEF Next, Agent, DrainDone, Tick, Stopped, Signal, Finalize, Tree!FinalizeAll,
           Kernel, agentVars, treeVars
  <2>2. PICK A, L, V : Heritage(A, L, V)
    BY DEF DInv
  <2>3. r = RootFor(Head1) /\ r # NoPid
    BY <2>1, DispatchAttributes, NoPidAssumption DEF DInv, Attributes
  <2>4. <<r, V[r]>> \in A[Head1.src.inc]
    BY <2>1, <2>2, <2>3, RootIsHeritage DEF DInv
  <2>5. Head1.src.anc = A[Head1.src.inc]
    BY <2>1, <2>2, HeadIsCurrent DEF DInv
  <2>6. rootInc[r] = <<r, V[r]>>
    BY <2>2 DEF Heritage, Grown
  <2>7. QED BY <2>4, <2>5, <2>6
<1>2. Disciplined
  BY DEF Disciplined
<1>3. QED BY <1>1, <1>2, HeritageInit, HeritageStep, PTL DEF Spec, NoForeignIO

\* Under the same conditions, and if no process has more proper ancestors than
\* the walk has steps, an access by a descendant of an open operation's root is
\* credited to an operation of one of its ancestors.
THEOREM DescendantsAreCredited ==
    ASSUME Workload \subseteq {"titles", "stop"}, IsFiniteSet(Pids)
    PROVE  Spec /\ []LinksHaveRoom /\ []RecordsAreShallow => InheritanceComplete
<1>1. DInv /\ RecordsAreShallow /\ [Next]_vars =>
         [LET e == Head1
              mine == {r \in Pids : operations'[r] # None /\ rootInc'[r] \in e.src.anc}
              Has(st) == Tree!Recorded(st, e.access) = st
          IN  Dispatch /\ e.type = "file" /\ mine # {} =>
                 \E r \in mine : Has(operations'[r].paths[e.path])]_vars
  <2> SUFFICES ASSUME DInv, RecordsAreShallow, Dispatch, Head1.type = "file",
                      NEW q \in Pids, operations'[q] # None, rootInc'[q] \in Head1.src.anc
               PROVE  \E r \in Pids :
                         /\ operations'[r] # None /\ rootInc'[r] \in Head1.src.anc
                         /\ LET st == operations'[r].paths[Head1.path]
                            IN  Tree!Recorded(st, Head1.access) = st
    OBVIOUS
  <2>1. PICK A, L, V : Heritage(A, L, V)
    BY DEF DInv
  <2>2. PICK V1 : V1 = Moved(V)
    OBVIOUS
  <2>3. Heritage(A, L, V1)' /\ V1 = V
    BY <2>1, <2>2, DispatchHeritage DEF DInv, Moved
  <2>4. \A r \in Pids : operations'[r] # None => rootInc'[r] = <<r, V[r]>>
    BY <2>3 DEF Heritage, Grown
  <2>5. Head1.src.anc = A[Head1.src.inc] /\ Attributes(Head1) /\ Tree!Inv
    BY <2>1, HeadIsCurrent, DispatchAttributes DEF DInv, TInv
  <2>6. RootFor(Head1) # NoPid
    <3>1. <<q, V[q]>> \in A[Head1.src.inc]
      BY <2>4, <2>5
    <3>2. operations[q] # None \/ Opens(q)
      BY DEF Opens
    <3>3. QED BY <2>1, <3>1, <3>2, WalkFindsRoot DEF DInv
  <2>7. /\ RootFor(Head1) \in Pids /\ operations'[RootFor(Head1)] # None
        /\ <<RootFor(Head1), V[RootFor(Head1)]>> \in A[Head1.src.inc]
    BY <2>1, <2>6, RootIsHeritage DEF DInv
  <2>8. QED BY <2>4, <2>5, <2>7 DEF Attributes
<1>2. Disciplined
  BY DEF Disciplined
<1>3. DInv /\ LinksHaveRoom /\ [Next]_vars => DInv'
  BY <1>2, HeritageStep
<1>4. QED BY <1>1, <1>3, HeritageInit, PTL DEF Spec, InheritanceComplete
=============================================================================
