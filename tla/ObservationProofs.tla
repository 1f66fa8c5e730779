-------------------------- MODULE ObservationProofs --------------------------
(***************************************************************************)
(* The probes and the loop keep to their types and feed the tree; a        *)
(* reported exit code is the process's own, for any processes, threads,    *)
(* reused pids, map and ring sizes, dropped records and evicted entries,   *)
(* and with room in the map it is reported.                                *)
(*                                                                         *)
(* The code travels from exit_group through EXIT_CODES and the ring to the *)
(* tree.  CodesAreOwn ties the map to the process that owns the pid now:   *)
(* an entry has to be gone when the pid is freed, which depends on how     *)
(* leaders and threads end (TasksAreGrouped).  RecordsAreOwn keeps what    *)
(* holds of a record while the kernel goes on and reuses the pid.          *)
(***************************************************************************)
EXTENDS Observation, FiniteSetTheorems, WellFoundedInduction, NaturalsInduction, TLAPS

\* Any task, whatever its comm and generation.
SomeTask ==
    [st : {"free", "forked", "live", "exiting", "zombie"},
     tgid : Pids, comm : Comms \cup {IdleComm}, gen : Nat,
     invoked : BOOLEAN, anc : SUBSET (Pids \X Nat)]

TasksAreGrouped ==
    /\ task \in [Pids -> SomeTask]
    /\ \A t \in Pids :
          /\ task[t].st \in {"free", "zombie"} => task[t].tgid = t
          /\ task[t].st # "free" =>
                task[task[t].tgid].st # "free" /\ task[task[t].tgid].tgid = task[t].tgid

CodesAreOwn ==
    /\ asked \in [Pids -> SUBSET Codes]
    /\ EXIT_CODES \in [Pids -> Codes \cup {None}]
    /\ \A p \in Pids : EXIT_CODES[p] # None =>
          EXIT_CODES[p] \in asked[p] /\ task[p].st # "free" /\ task[p].tgid = p

IsOwn(e) ==
    /\ e.pid \in Pids
    /\ e.type = "exit" /\ e.code_observed => e.exit_code \in e.src.asked

RecordsAreOwn ==
    \E S : EVENTS \in Seq(S) /\ \A i \in 1..Len(EVENTS) : IsOwn(EVENTS[i])

OperationsHaveCodes ==
    /\ DOMAIN operations = Pids
    /\ \A p \in Pids : operations[p] # None => "exit_code" \in DOMAIN operations[p]

CInv == TasksAreGrouped /\ CodesAreOwn /\ RecordsAreOwn /\ OperationsHaveCodes

-----------------------------------------------------------------------------
(* Maps, records and the ring *)

LEMMA CodesKeep ==
    ASSUME EXIT_CODES \in [Pids -> Codes \cup {None}], NEW p \in Pids, NEW code \in Codes,
           NEW new \in LruInserts(EXIT_CODES, p, code, None)
    PROVE  /\ new \in [Pids -> Codes \cup {None}] /\ new[p] = code
           /\ \A q \in Pids \ {p} : new[q] \in {EXIT_CODES[q], None}
BY DEF LruInserts

LEMMA OutputKeeps ==
    ASSUME RecordsAreOwn, NEW e, IsOwn(e), Output(e)
    PROVE  RecordsAreOwn'
<1>1. CASE UNCHANGED EVENTS
  BY <1>1 DEF RecordsAreOwn, IsOwn
<1>2. CASE EVENTS' = Append(EVENTS, e)
  <2>1. PICK S : EVENTS \in Seq(S) /\ \A i \in 1..Len(EVENTS) : IsOwn(EVENTS[i])
    BY DEF RecordsAreOwn
  <2> DEFINE T == S \cup {e}
  <2>2. EVENTS \in Seq(T)
    BY <2>1
  <2>3. /\ EVENTS' \in Seq(T) /\ Len(EVENTS') = Len(EVENTS) + 1
        /\ EVENTS'[Len(EVENTS) + 1] = e
        /\ \A i \in 1..Len(EVENTS) : EVENTS'[i] = EVENTS[i]
    BY <1>2, <2>2
  <2>4. \A i \in 1..Len(EVENTS') : IsOwn(EVENTS'[i])
    BY <2>1, <2>2, <2>3
  <2> HIDE DEF T
  <2>5. QED BY <2>3, <2>4 DEF RecordsAreOwn, IsOwn
<1>3. QED BY <1>1, <1>2 DEF Output

LEMMA TailKeeps ==
    ASSUME RecordsAreOwn, EVENTS # <<>>, EVENTS' = Tail(EVENTS)
    PROVE  RecordsAreOwn' /\ IsOwn(Head1)
<1>1. PICK S : EVENTS \in Seq(S) /\ \A i \in 1..Len(EVENTS) : IsOwn(EVENTS[i])
  BY DEF RecordsAreOwn
<1>2. /\ EVENTS' \in Seq(S)
      /\ \A i \in 1..Len(EVENTS') : i + 1 \in 1..Len(EVENTS) /\ EVENTS'[i] = EVENTS[i + 1]
  BY <1>1
<1>3. \A i \in 1..Len(EVENTS') : IsOwn(EVENTS'[i])
  BY <1>1, <1>2
<1>4. Head1 = EVENTS[1] /\ 1 \in 1..Len(EVENTS)
  BY <1>1 DEF Head1
<1>5. QED BY <1>1, <1>2, <1>3, <1>4 DEF RecordsAreOwn, IsOwn

-----------------------------------------------------------------------------
(* The kernel *)

LEMMA ForkStep ==
    ASSUME CInv, NEW t \in Pids, NEW c \in Pids, Fork(t, c), UNCHANGED operations
    PROVE  CInv'
<1>1. /\ task[t].st # "free" /\ task[c].st = "free" /\ t # c
      /\ task[task[t].tgid] \in SomeTask /\ task[t] \in SomeTask /\ task[c] \in SomeTask
  BY DEF CInv, TasksAreGrouped, SomeTask, Fork, Acts, Available
<1> DEFINE p == task[t].tgid
           new == [st |-> "forked", tgid |-> c, comm |-> task[t].comm,
                   gen |-> task[c].gen + 1, invoked |-> FALSE,
                   anc |-> task[p].anc \cup {<<c, task[c].gen + 1>>}]
<1>2. new \in SomeTask
  BY <1>1 DEF SomeTask
<1>3. /\ task' = [task EXCEPT ![c] = new] /\ asked' = [asked EXCEPT ![c] = {}]
      /\ UNCHANGED <<EXIT_CODES, EVENTS>>
  BY DEF Fork
<1> HIDE DEF new
<1>4. new.st = "forked" /\ new.tgid = c
  BY DEF new
<1>5. TasksAreGrouped'
  BY <1>1, <1>2, <1>3, <1>4 DEF CInv, TasksAreGrouped
<1>6. CodesAreOwn'
  BY <1>1, <1>3, <1>4 DEF CInv, TasksAreGrouped, CodesAreOwn
<1>7. QED BY <1>3, <1>5, <1>6 DEF CInv, RecordsAreOwn, IsOwn, OperationsHaveCodes

LEMMA GroupedTask ==
    ASSUME NEW old \in SomeTask, NEW p \in Pids
    PROVE  LET new == [old EXCEPT !.st = "live", !.tgid = p]
           IN  new \in SomeTask /\ new.st = "live" /\ new.tgid = p
BY DEF SomeTask

LEMMA CloneStep ==
    ASSUME CInv, NEW t \in Pids, NEW c \in Pids, CloneThread(t, c), UNCHANGED operations
    PROVE  CInv'
<1>1. /\ task[t].st # "free" /\ task[c].st = "free" /\ t # c
      /\ task[t] \in SomeTask /\ task[c] \in SomeTask
  BY DEF CInv, TasksAreGrouped, SomeTask, CloneThread, Acts, Available
<1> DEFINE new == [FreeTask(c, task[c].gen + 1, task[t].comm) EXCEPT
                     !.st = "live", !.tgid = task[t].tgid]
<1>2. new \in SomeTask /\ new.st = "live" /\ new.tgid = task[t].tgid
  <2>1. FreeTask(c, task[c].gen + 1, task[t].comm) \in SomeTask
    BY <1>1 DEF SomeTask, FreeTask
  <2>2. task[t].tgid \in Pids
    BY <1>1 DEF SomeTask
  <2>3. QED BY <2>1, <2>2, GroupedTask
<1>3. task' = [task EXCEPT ![c] = new] /\ UNCHANGED <<asked, EXIT_CODES, EVENTS>>
  BY DEF CloneThread
<1> HIDE DEF new
<1>4. TasksAreGrouped'
  BY <1>1, <1>2, <1>3 DEF CInv, TasksAreGrouped
<1>5. CodesAreOwn'
  BY <1>1, <1>2, <1>3 DEF CInv, TasksAreGrouped, CodesAreOwn
<1>6. QED BY <1>3, <1>4, <1>5 DEF CInv, RecordsAreOwn, IsOwn, OperationsHaveCodes

\* A step that neither starts nor ends a task.
LEMMA SameGroups ==
    ASSUME CInv, NEW t \in Pids, NEW new \in SomeTask, task' = [task EXCEPT ![t] = new],
           new.tgid = task[t].tgid, new.st \notin {"free", "zombie"},
           task[t].st # "free"
    PROVE  /\ TasksAreGrouped'
           /\ \A q \in Pids : /\ task[q].st # "free" => task'[q].st # "free"
                              /\ task'[q].tgid = task[q].tgid
BY DEF CInv, TasksAreGrouped

LEMMA RenamedTask ==
    ASSUME NEW old \in SomeTask, NEW comm \in Comms, NEW b \in BOOLEAN
    PROVE  LET new == [old EXCEPT !.comm = comm, !.invoked = b]
           IN  new \in SomeTask /\ new.tgid = old.tgid /\ new.st = old.st
BY DEF SomeTask

LEMMA ExecStep ==
    ASSUME CInv, NEW t \in Pids, NEW comm \in Comms, Exec(t, comm), UNCHANGED operations
    PROVE  CInv'
<1> DEFINE new == [task[t] EXCEPT !.st = "live", !.comm = comm,
                                  !.invoked = (comm \in Whitelist)]
<1>1. /\ new \in SomeTask /\ new.tgid = task[t].tgid /\ new.st = "live"
      /\ task[t].st # "free"
  <2>1. [task[t] EXCEPT !.st = "live"] \in SomeTask /\ task[t].st # "free"
    BY DEF CInv, TasksAreGrouped, SomeTask, Exec
  <2>2. (comm \in Whitelist) \in BOOLEAN
    OBVIOUS
  <2>3. new = [[task[t] EXCEPT !.st = "live"]
                 EXCEPT !.comm = comm, !.invoked = (comm \in Whitelist)]
    OBVIOUS
  <2>4. [task[t] EXCEPT !.st = "live"].tgid = task[t].tgid
        /\ [task[t] EXCEPT !.st = "live"].st = "live"
    BY DEF CInv, TasksAreGrouped, SomeTask
  <2>5. QED BY <2>1, <2>2, <2>3, <2>4, RenamedTask
<1>2. task' = [task EXCEPT ![t] = new] /\ UNCHANGED <<asked, EXIT_CODES>>
  BY DEF Exec, CInv, TasksAreGrouped
<1> HIDE DEF new
<1>3. /\ TasksAreGrouped'
      /\ \A q \in Pids : /\ task[q].st # "free" => task'[q].st # "free"
                         /\ task'[q].tgid = task[q].tgid
  BY <1>1, <1>2, SameGroups
<1>4. CodesAreOwn'
  BY <1>2, <1>3 DEF CInv, CodesAreOwn
<1>5. PICK e : Output(e) /\ e.type = "exec" /\ e.pid = t
  BY DEF Exec, TraceExec
<1>6. RecordsAreOwn'
  BY <1>5, OutputKeeps DEF CInv, IsOwn
<1>7. QED BY <1>3, <1>4, <1>6 DEF CInv, OperationsHaveCodes

LEMMA TitleStep ==
    ASSUME CInv, NEW t \in Pids, NEW comm \in Comms, SetTitle(t, comm),
           UNCHANGED operations
    PROVE  CInv'
<1> DEFINE b == task[t].invoked \/ comm \in Whitelist
           new == [task[t] EXCEPT !.comm = comm, !.invoked = b]
<1>1. /\ new \in SomeTask /\ new.tgid = task[t].tgid
      /\ new.st \notin {"free", "zombie"} /\ task[t].st # "free"
  <2>1. task[t] \in SomeTask /\ task[t].st \notin {"free", "zombie"}
    BY DEF CInv, TasksAreGrouped, SetTitle, Acts
  <2>2. b \in BOOLEAN
    OBVIOUS
  <2> HIDE DEF b
  <2>3. QED BY <2>1, <2>2, RenamedTask
<1>2. task' = [task EXCEPT ![t] = new] /\ UNCHANGED <<asked, EXIT_CODES, EVENTS>>
  BY DEF SetTitle, CInv, TasksAreGrouped
<1> HIDE DEF new
<1>3. /\ TasksAreGrouped'
      /\ \A q \in Pids : /\ task[q].st # "free" => task'[q].st # "free"
                         /\ task'[q].tgid = task[q].tgid
  BY <1>1, <1>2, SameGroups
<1>4. CodesAreOwn'
  BY <1>2, <1>3 DEF CInv, CodesAreOwn
<1>5. QED BY <1>2, <1>3, <1>4 DEF CInv, RecordsAreOwn, IsOwn, OperationsHaveCodes

LEMMA AccessStep ==
    ASSUME CInv, NEW t \in Pids, NEW a, NEW f, FileAccess(t, a, f), UNCHANGED operations
    PROVE  CInv'
<1>1. PICK e : Output(e) /\ e.type = "file" /\ e.pid = t
  BY DEF FileAccess, EmitFileAccess
<1>2. RecordsAreOwn'
  BY <1>1, OutputKeeps DEF CInv, IsOwn
<1>3. QED
  BY <1>2 DEF FileAccess, CInv, TasksAreGrouped, CodesAreOwn, OperationsHaveCodes

LEMMA ExitGroupStep ==
    ASSUME CInv, NEW t \in Pids, NEW code \in Codes, ExitGroup(t, code),
           UNCHANGED operations
    PROVE  CInv'
<1> DEFINE new == [task[t] EXCEPT !.st = "exiting"]
           p == task[t].tgid
<1>1. /\ new \in SomeTask /\ new.tgid = p /\ new.st = "exiting"
      /\ task[t].st # "free" /\ p \in Pids /\ task[p].st # "free" /\ task[p].tgid = p
  BY DEF CInv, TasksAreGrouped, SomeTask, ExitGroup, Acts
<1>2. /\ task' = [task EXCEPT ![t] = new] /\ UNCHANGED EVENTS
      /\ asked' = [asked EXCEPT ![p] = @ \cup {code}]
      /\ EXIT_CODES' \in LruInserts(EXIT_CODES, p, code, None)
  BY DEF ExitGroup, TraceExitGroup, CInv, TasksAreGrouped
<1> HIDE DEF new
<1>3. /\ TasksAreGrouped'
      /\ \A q \in Pids : /\ task[q].st # "free" => task'[q].st # "free"
                         /\ task'[q].tgid = task[q].tgid
  BY <1>1, <1>2, SameGroups
<1>4. /\ EXIT_CODES' \in [Pids -> Codes \cup {None}] /\ EXIT_CODES'[p] = code
      /\ \A q \in Pids \ {p} : EXIT_CODES'[q] \in {EXIT_CODES[q], None}
  BY <1>1, <1>2, CodesKeep DEF CInv, CodesAreOwn
<1>5. CodesAreOwn'
  BY <1>1, <1>2, <1>3, <1>4 DEF CInv, CodesAreOwn
<1>6. QED BY <1>2, <1>3, <1>5 DEF CInv, RecordsAreOwn, IsOwn, OperationsHaveCodes

LEMMA ExitStep ==
    ASSUME CInv, NEW t \in Pids, Exit(t), UNCHANGED operations
    PROVE  CInv'
<1> DEFINE p == task[t].tgid
           gone == IF Threads(p) = {t} THEN {t, p} ELSE {t} \ {p}
<1>1. /\ p \in Pids /\ Alive(t) /\ task[t].st # "free" /\ task[t].st # "zombie"
      /\ task[p].st # "free" /\ task[p].tgid = p
  BY DEF CInv, TasksAreGrouped, SomeTask, Exit, Alive
<1>2. /\ task' = [q \in Pids |->
              IF q \in gone THEN FreeTask(q, task[q].gen, IdleComm)
              ELSE IF q = t THEN [task[q] EXCEPT !.st = "zombie"]
              ELSE task[q]]
      /\ asked' = [asked EXCEPT ![p] = IF p \in gone THEN {} ELSE @]
      /\ EXIT_CODES' = [EXIT_CODES EXCEPT ![p] = None]
      /\ Output(ExitRecord(t, EXIT_CODES[p]))
  BY DEF Exit, TraceExit
<1>3. gone \subseteq {t, p} /\ (t \notin gone => t = p) /\ (p \in gone /\ p # t => Threads(p) = {t})
  OBVIOUS
<1>4. \A q \in Pids : task[q].st # "free" /\ q \notin gone => task[q].tgid \notin gone
  <2> SUFFICES ASSUME NEW q \in Pids, task[q].st # "free", q \notin gone,
                      task[q].tgid \in gone
               PROVE  FALSE
    OBVIOUS
  <2>1. task[q].tgid \in {t, p} /\ task[task[q].tgid].tgid = task[q].tgid
    BY <1>3 DEF CInv, TasksAreGrouped
  <2>2. task[q].tgid = p
    BY <1>1, <2>1
  <2>3. Threads(p) = {t}
    BY <2>2
  <2>4. task[q].st # "zombie" /\ q # t
    BY <2>2, <2>3 DEF CInv, TasksAreGrouped
  <2>5. q \in Threads(p)
    BY <2>2, <2>4 DEF CInv, TasksAreGrouped, SomeTask, Threads, Alive
  <2>6. QED BY <2>3, <2>4, <2>5
<1>5. \A q \in Pids :
         /\ task'[q] \in SomeTask
         /\ q \in gone => task'[q].st = "free" /\ task'[q].tgid = q
         /\ q \notin gone => /\ task'[q].tgid = task[q].tgid
                             /\ task'[q].st = IF q = t THEN "zombie" ELSE task[q].st
  BY <1>2 DEF CInv, TasksAreGrouped, SomeTask, FreeTask
<1> HIDE DEF gone
<1>6. TasksAreGrouped'
  <2>1. task' \in [Pids -> SomeTask]
    BY <1>2, <1>5
  <2> SUFFICES ASSUME NEW q \in Pids
               PROVE  /\ task'[q].st \in {"free", "zombie"} => task'[q].tgid = q
                      /\ task'[q].st # "free" =>
                            /\ task'[task'[q].tgid].st # "free"
                            /\ task'[task'[q].tgid].tgid = task'[q].tgid
    BY <2>1 DEF TasksAreGrouped
  <2>2. CASE q \in gone
    BY <1>5, <2>2
  <2>3. CASE q \notin gone
    <3> DEFINE l == task[q].tgid
    <3>1. /\ task'[q].tgid = l /\ l \in Pids
          /\ task'[q].st = "free" => task[q].st = "free"
      BY <1>5, <2>3 DEF CInv, TasksAreGrouped, SomeTask
    <3>2. task'[q].st \in {"free", "zombie"} => l = q
      BY <1>3, <1>5, <2>3 DEF CInv, TasksAreGrouped
    <3>3. task'[q].st # "free" => l \notin gone /\ task[l].st # "free" /\ task[l].tgid = l
      <4>1. task'[q].st # "free" => task[q].st # "free"
        BY <1>1, <1>5, <2>3
      <4>2. QED BY <1>4, <2>3, <4>1 DEF CInv, TasksAreGrouped
    <3>4. l \notin gone /\ task[l].st # "free" => task'[l].st # "free" /\ task'[l].tgid = task[l].tgid
      BY <1>5, <3>1
    <3>5. QED BY <3>1, <3>2, <3>3, <3>4
  <2>4. QED BY <2>2, <2>3
<1>7. CodesAreOwn'
  <2>1. /\ asked' \in [Pids -> SUBSET Codes] /\ EXIT_CODES' \in [Pids -> Codes \cup {None}]
        /\ EXIT_CODES'[p] = None
        /\ \A q \in Pids \ {p} : asked'[q] = asked[q] /\ EXIT_CODES'[q] = EXIT_CODES[q]
    BY <1>1, <1>2 DEF CInv, CodesAreOwn
  <2>2. \A q \in Pids \ {p} : EXIT_CODES[q] # None =>
           task'[q].st # "free" /\ task'[q].tgid = q
    <3> SUFFICES ASSUME NEW q \in Pids \ {p}, EXIT_CODES[q] # None
                 PROVE  task'[q].st # "free" /\ task'[q].tgid = q
      OBVIOUS
    <3>1. task[q].st # "free" /\ task[q].tgid = q
      BY DEF CInv, CodesAreOwn
    <3>2. q \notin {t, p}
      BY <3>1
    <3>3. QED BY <1>3, <1>5, <3>1, <3>2
  <2>3. QED BY <2>1, <2>2 DEF CInv, CodesAreOwn
<1>8. IsOwn(ExitRecord(t, EXIT_CODES[p]))
  BY <1>1 DEF CInv, CodesAreOwn, IsOwn, ExitRecord, Source
<1>9. RecordsAreOwn'
  BY <1>2, <1>8, OutputKeeps DEF CInv
<1>10. QED BY <1>6, <1>7, <1>9 DEF CInv, OperationsHaveCodes

LEMMA KernelStep == ASSUME CInv, Kernel PROVE CInv'
<1>1. KernelNext /\ UNCHANGED operations
  BY DEF Kernel, agentVars, treeVars
<1>2. QED
  BY <1>1, ForkStep, CloneStep, ExecStep, TitleStep, AccessStep, ExitGroupStep, ExitStep
     DEF KernelNext

-----------------------------------------------------------------------------
(* The agent *)

LEMMA AdmittedHaveCodes ==
    ASSUME OperationsHaveCodes, NEW p, NEW comm, NEW par, NEW proc
    PROVE  LET ops == Tree!Admitted(p, comm, par, proc)
           IN  /\ DOMAIN ops = Pids
               /\ \A q \in Pids : ops[q] # None => "exit_code" \in DOMAIN ops[q]
<1> DEFINE root == Tree!RootOf(p, comm, par)
           new == Tree!NewOperation(p, comm, proc)
           ops == Tree!Admitted(p, comm, par, proc)
<1>1. "exit_code" \in DOMAIN new
  BY DEF Tree!NewOperation
<1>2. \/ ops = [operations EXCEPT ![p] = new]
      \/ operations[root] # None /\ ops = [operations EXCEPT ![root].pids = @ \cup {p}]
      \/ ops = operations
  BY DEF Tree!Admitted
<1> HIDE DEF root, new, ops
<1>3. DOMAIN ops = Pids /\ \A q \in Pids : ops[q] # None => "exit_code" \in DOMAIN ops[q]
  BY <1>1, <1>2 DEF OperationsHaveCodes
<1>4. QED BY <1>3 DEF ops

LEMMA RefreshedHaveCodes ==
    ASSUME NEW ops, DOMAIN ops = Pids, NEW p, NEW proc,
           \A q \in Pids : ops[q] # None => "exit_code" \in DOMAIN ops[q]
    PROVE  LET new == Tree!Refreshed(ops, p, proc)
           IN  /\ DOMAIN new = Pids
               /\ \A q \in Pids : new[q] # None => "exit_code" \in DOMAIN new[q]
BY DEF Tree!Refreshed

\* What a dispatched record does to the operations and returns.
LEMMA DispatchStep ==
    ASSUME CInv, Dispatch
    PROVE  /\ CInv'
           /\ \A op \in emitted' :
                 op.exit_code # None => op.exit_code \in Head1.src.asked
<1>1. EVENTS # <<>> /\ EVENTS' = Tail(EVENTS) /\ UNCHANGED <<task, asked, EXIT_CODES>>
  BY DEF Dispatch
<1>2. RecordsAreOwn' /\ IsOwn(Head1)
  BY <1>1, TailKeeps DEF CInv
<1>3. PICK proc :
         \/ Head1.type = "exec" /\ Tree!OnExec(DecodeExec(Head1), proc)
         \/ Head1.type = "file" /\ Tree!OnFile(DecodeFile(Head1), proc)
         \/ Head1.type = "exit" /\ Tree!OnExit(DecodeExit(Head1), proc)
  BY DEF Dispatch
<1>4. /\ OperationsHaveCodes'
      /\ \A op \in emitted' : op.exit_code # None => op.exit_code \in Head1.src.asked
  <2>1. CASE Tree!OnExec(DecodeExec(Head1), proc)
    <3>1. PICK p, comm, par :
             operations' = Tree!Refreshed(Tree!Admitted(p, comm, par, proc), p, proc)
      BY <2>1 DEF Tree!OnExec
    <3>2. OperationsHaveCodes'
      BY <3>1, AdmittedHaveCodes, RefreshedHaveCodes DEF CInv, OperationsHaveCodes
    <3>3. QED BY <2>1, <3>2 DEF Tree!OnExec
  <2>2. CASE Tree!OnFile(DecodeFile(Head1), proc)
    <3> DEFINE e == DecodeFile(Head1)
               ops == Tree!Admitted(e.pid, e.comm, parents, proc)
               root == Tree!RootOf(e.pid, e.comm, parents)
    <3>1. /\ DOMAIN ops = Pids
          /\ \A q \in Pids : ops[q] # None => "exit_code" \in DOMAIN ops[q]
      BY AdmittedHaveCodes DEF CInv
    <3>2. \/ operations' = ops
          \/ ops[root] # None
             /\ operations' = [ops EXCEPT ![root] = Tree!RecordIn(@, e.path, e.access)]
      BY <2>2 DEF Tree!OnFile
    <3>3. "exit_code" \in DOMAIN ops[root] =>
             "exit_code" \in DOMAIN Tree!RecordIn(ops[root], e.path, e.access)
      BY DEF Tree!RecordIn
    <3> HIDE DEF ops, root
    <3>4. OperationsHaveCodes'
      BY <3>1, <3>2, <3>3 DEF OperationsHaveCodes
    <3>5. QED BY <2>2, <3>4 DEF Tree!OnFile
  <2>3. CASE Head1.type = "exit" /\ Tree!OnExit(DecodeExit(Head1), proc)
    <3> DEFINE e == DecodeExit(Head1)
               p == e.pid
               code == e.exit_code
               ops == Tree!Admitted(p, e.comm, parents, proc)
    <3>1. /\ DOMAIN ops = Pids
          /\ \A q \in Pids : ops[q] # None => "exit_code" \in DOMAIN ops[q]
      BY AdmittedHaveCodes DEF CInv
    <3>2. p \in Pids /\ (code # None => code \in Head1.src.asked)
      BY <1>2, <2>3 DEF DecodeExit, IsOwn
    <3>3. /\ operations' \in {[ops EXCEPT ![p] = None], ops}
          /\ \/ emitted' = {}
             \/ ops[p] # None /\ emitted' = {[ops[p] EXCEPT !.exit_code = code]}
      BY <2>3 DEF Tree!OnExit
    <3> HIDE DEF ops, p, code
    <3>4. OperationsHaveCodes'
      BY <3>1, <3>3 DEF OperationsHaveCodes
    <3>5. QED BY <3>1, <3>2, <3>3, <3>4
  <2>4. QED BY <1>3, <2>1, <2>2, <2>3
<1>5. TasksAreGrouped' /\ CodesAreOwn'
  BY <1>1 DEF CInv, TasksAreGrouped, CodesAreOwn
<1>6. QED BY <1>2, <1>4, <1>5 DEF CInv

LEMMA StartedTask ==
    ASSUME NEW old \in SomeTask, NEW a \in SUBSET (Pids \X Nat)
    PROVE  LET new == [old EXCEPT !.st = "live", !.anc = a]
           IN  new \in SomeTask /\ new.st = "live" /\ new.tgid = old.tgid
BY DEF SomeTask

LEMMA CodesInit == Init => CInv
<1> SUFFICES ASSUME Init PROVE CInv
  OBVIOUS
<1>1. TasksAreGrouped
  <2>1. FreeTask(Runner, 1, IdleComm) \in SomeTask
    BY RunnerAssumption DEF FreeTask, SomeTask
  <2> DEFINE new == [FreeTask(Runner, 1, IdleComm) EXCEPT
                       !.st = "live", !.anc = {<<Runner, 1>>}]
  <2>2. new \in SomeTask /\ new.st = "live" /\ new.tgid = Runner
    <3>1. {<<Runner, 1>>} \in SUBSET (Pids \X Nat)
      BY RunnerAssumption
    <3>2. FreeTask(Runner, 1, IdleComm).tgid = Runner
      BY DEF FreeTask
    <3>3. QED BY <2>1, <3>1, <3>2, StartedTask
  <2>3. \A t \in Pids : LET free == FreeTask(t, 0, IdleComm)
                        IN  free \in SomeTask /\ free.st = "free" /\ free.tgid = t
    BY DEF FreeTask, SomeTask
  <2>4. task = [t \in Pids |-> IF t = Runner THEN new ELSE FreeTask(t, 0, IdleComm)]
    BY DEF Init, KernelInit
  <2> HIDE DEF new
  <2>5. QED BY <2>2, <2>3, <2>4, RunnerAssumption DEF TasksAreGrouped
<1>2. CodesAreOwn
  <2>1. asked = [p \in Pids |-> {}] /\ EXIT_CODES = [p \in Pids |-> None]
    BY DEF Init, KernelInit
  <2>2. QED BY <2>1 DEF CodesAreOwn
<1>3. EVENTS \in Seq({}) /\ Len(EVENTS) = 0
  <2>1. EVENTS = <<>>
    BY DEF Init, KernelInit
  <2>2. QED BY <2>1
<1>4. RecordsAreOwn
  BY <1>3 DEF RecordsAreOwn
<1>5. OperationsHaveCodes
  BY DEF Init, Tree!Init, OperationsHaveCodes
<1>6. QED BY <1>1, <1>2, <1>4, <1>5 DEF CInv

LEMMA CodesStep == CInv /\ [Next]_vars => CInv'
<1> SUFFICES ASSUME CInv, [Next]_vars PROVE CInv'
  OBVIOUS
<1>1. CASE Kernel
  BY <1>1, KernelStep
<1>2. CASE Dispatch
  BY <1>2, DispatchStep
<1>3. CASE UNCHANGED <<kernelVars, treeVars>>
  BY <1>3 DEF kernelVars, treeVars, CInv, TasksAreGrouped, CodesAreOwn, RecordsAreOwn,
              IsOwn, OperationsHaveCodes
<1>4. CASE Finalize
  <2>1. OperationsHaveCodes'
    BY <1>4 DEF Finalize, Tree!FinalizeAll, OperationsHaveCodes
  <2>2. QED BY <1>4, <2>1 DEF Finalize, kernelVars, CInv, TasksAreGrouped, CodesAreOwn,
                            RecordsAreOwn, IsOwn
<1>5. CASE DrainDone \/ Tick \/ Stopped \/ Signal
  BY <1>3, <1>5 DEF DrainDone, Tick, Stopped, Signal, agentVars
<1>6. CASE UNCHANGED vars
  BY <1>3, <1>6 DEF vars, agentVars
<1>7. QED BY <1>1, <1>2, <1>4, <1>5, <1>6 DEF Next, Agent

-----------------------------------------------------------------------------
(* The tree: what one record does to it, whatever the record says *)

LEMMA CodesHold == Spec => []CInv
BY CodesInit, CodesStep, PTL DEF Spec

\* A nonempty set of naturals has a least element.
LEMMA LeastElement ==
    ASSUME NEW S, S \subseteq Nat, S # {}
    PROVE  \E k \in S : \A j \in S : k <= j
<1>1. IsWellFoundedOn(OpToRel(<, Nat), Nat)
  BY NatLessThanWellFounded
<1>2. PICK k \in S : \A j \in S : ~ (<<j, k>> \in OpToRel(<, Nat))
  BY <1>1, WFMin
<1>3. \A j \in S : j \in Nat /\ k \in Nat /\ ~ (j < k)
  BY <1>2 DEF OpToRel
<1>4. QED BY <1>3

\* The walk is what its recursive definition says: it starts at p, follows the
\* links of par and ends in NoPid.
LEMMA WalkFollowsLinks ==
    ASSUME NEW p \in Pids, NEW par \in [Pids -> Pids \cup {NoPid}]
    PROVE  LET up == Tree!Ancestors(p, par)
           IN  /\ up \in [0..MaxWalk -> Pids \cup {NoPid}] /\ up[0] = p
               /\ \A k \in 1..MaxWalk :
                     up[k] = IF up[k - 1] = NoPid THEN NoPid ELSE par[up[k - 1]]
<1> DEFINE S == Pids \cup {NoPid}
           Up(x) == IF x = NoPid THEN NoPid ELSE par[x]
           Walks(f, n) == /\ f \in [0..n -> S] /\ f[0] = p
                          /\ \A k \in 1..n : f[k] = Up(f[k - 1])
           Bad == {n \in Nat : ~ \E f : Walks(f, n)}
<1>1. \A x \in S : Up(x) \in S
  OBVIOUS
<1>2. 0 \notin Bad
  <2>1. Walks([k \in 0..0 |-> p], 0)
    OBVIOUS
  <2>2. QED BY <2>1
<1>3. ASSUME NEW n \in Nat \ {0}, n - 1 \notin Bad
      PROVE  n \notin Bad
  <2>1. n - 1 \in Nat
    OBVIOUS
  <2>2. PICK f : Walks(f, n - 1)
    BY <1>3, <2>1
  <2> DEFINE h == [k \in 0..n |-> IF k = n THEN Up(f[n - 1]) ELSE f[k]]
  <2>3. f[n - 1] \in S
    BY <2>1, <2>2
  <2> HIDE DEF Up
  <2>4. h \in [0..n -> S] /\ h[0] = p /\ h[n] = Up(f[n - 1])
    BY <1>1, <2>1, <2>2, <2>3
  <2>5. \A k \in 0..(n - 1) : h[k] = f[k]
    OBVIOUS
  <2>6. \A k \in 1..n : h[k] = Up(h[k - 1])
    <3> SUFFICES ASSUME NEW k \in 1..n PROVE h[k] = Up(h[k - 1])
      OBVIOUS
    <3> HIDE DEF h
    <3>1. CASE k = n
      BY <2>1, <2>4, <2>5, <3>1
    <3>2. CASE k # n
      <4>1. k \in 1..(n - 1) /\ k \in 0..(n - 1) /\ k - 1 \in 0..(n - 1)
        BY <3>2
      <4>2. QED BY <2>2, <2>5, <4>1
    <3>3. QED BY <3>1, <3>2
  <2> HIDE DEF h
  <2>7. Walks(h, n)
    BY <2>4, <2>6
  <2>8. QED BY <2>7
<1>4. Bad = {}
  <2> SUFFICES ASSUME Bad # {} PROVE FALSE
    OBVIOUS
  <2>1. Bad \subseteq Nat
    OBVIOUS
  <2> HIDE DEF Bad
  <2>2. PICK n \in Bad : \A m \in Bad : n <= m
    BY <2>1, LeastElement
  <2>3. n \in Nat \ {0}
    BY <1>2, <2>1, <2>2
  <2>4. n - 1 \notin Bad
    BY <2>2, <2>3
  <2>5. QED BY <1>3, <2>2, <2>3, <2>4
<1>5. PICK f : Walks(f, MaxWalk)
  BY <1>4, MaxWalkAssumption
<1> DEFINE Body(g) == [k \in 0..MaxWalk |->
                         IF k = 0 THEN p
                         ELSE IF g[k - 1] = NoPid THEN NoPid ELSE par[g[k - 1]]]
           up == Tree!Ancestors(p, par)
<1>6. f = Body(f)
  BY <1>5, MaxWalkAssumption
<1>7. up = CHOOSE g : g = Body(g)
  BY DEF Tree!Ancestors
<1> HIDE DEF Body
<1>8. up = Body(up)
  BY <1>6, <1>7
<1> USE DEF Body
<1>9. up[0] = p /\ \A k \in 1..MaxWalk : up[k] = Up(up[k - 1])
  <2> HIDE DEF up
  <2>1. QED BY <1>8, MaxWalkAssumption
<1>10. \A k \in 0..MaxWalk : up[k] \in S
  <2> DEFINE Out == {k \in 0..MaxWalk : up[k] \notin S}
  <2> SUFFICES ASSUME Out # {} PROVE FALSE
    OBVIOUS
  <2>1. Out \subseteq Nat
    OBVIOUS
  <2> HIDE DEF Out
  <2>2. PICK k \in Out : \A j \in Out : k <= j
    BY <2>1, LeastElement
  <2> USE DEF Out
  <2>3. k \in 1..MaxWalk /\ up[k] \notin S
    BY <1>9, <2>2
  <2>4. k - 1 \in 0..MaxWalk /\ ~ (k <= k - 1)
    BY <2>3, MaxWalkAssumption
  <2>5. up[k - 1] \in S
    <3>1. k - 1 \notin Out
      <4> HIDE DEF Out
      <4>1. QED BY <2>2, <2>4
    <3>2. QED BY <2>4, <3>1
  <2>6. QED BY <1>1, <1>9, <2>3, <2>5
<1>11. up \in [0..MaxWalk -> S]
  <2> HIDE DEF up
  <2>1. QED BY <1>8, <1>10
<1>12. QED BY <1>9, <1>11

\* The walk finds the root of a pid it visits, or none if it visits no tracked pid.
LEMMA InheritedRootIsSeen ==
    ASSUME NEW p \in Pids, NEW par
    PROVE  \/ /\ Tree!InheritedRoot(p, par) = NoPid
              /\ \A k \in 1..MaxWalk :
                    LET q == Tree!Ancestors(p, par)[k]
                    IN  q \in Pids => tracked[q] = NoPid
           \/ \E k \in 1..MaxWalk :
                 LET q == Tree!Ancestors(p, par)[k]
                 IN  q \in Pids /\ tracked[q] # NoPid /\ Tree!InheritedRoot(p, par) = tracked[q]
<1> DEFINE up == Tree!Ancestors(p, par)
           hits == {k \in 1..MaxWalk : up[k] \in Pids /\ tracked[up[k]] # NoPid}
           first == CHOOSE k \in hits : \A j \in hits : k <= j
<1>1. CASE hits = {}
  BY <1>1 DEF Tree!InheritedRoot
<1>2. CASE hits # {}
  <2>1. first \in hits
    <3>1. hits \subseteq Nat
      OBVIOUS
    <3> HIDE DEF hits
    <3>2. \E k \in hits : \A j \in hits : k <= j
      BY <1>2, <3>1, LeastElement
    <3>3. QED BY <3>2
  <2>2. Tree!InheritedRoot(p, par) = tracked[up[first]]
    BY <1>2 DEF Tree!InheritedRoot
  <2> HIDE DEF first, up
  <2>3. QED BY <2>1, <2>2 DEF up
<1>3. QED BY <1>1, <1>2

Filed(r, o) == o.root_pid = r /\ r \in o.pids /\ o.exit_code = None

\* What membership leaves of the operations: ops.
Admits(p, comm, root, ops) ==
    /\ ops \in [Pids -> Tree!Option(Tree!Operation)]
    /\ root \in Pids \cup {NoPid}
    /\ \A q \in Pids : ops[q] # None => Filed(q, ops[q])
    /\ \A q \in Pids : operations[q] # None =>
          ops[q] # None /\ ops[q].paths = operations[q].paths
    /\ \A q \in Pids : operations[q] = None /\ ops[q] # None =>
          q = p /\ Tree!Starts(p, comm)
    /\ Tree!Starts(p, comm) => ops[p] # None
    /\ ops[p] # None => root = p

LEMMA Admission ==
    ASSUME Tree!Inv, NEW p \in Pids, NEW comm \in Comms, NEW par,
           NEW proc \in Tree!ProcSource
    PROVE  Admits(p, comm, Tree!RootOf(p, comm, par), Tree!Admitted(p, comm, par, proc))
<1> DEFINE root == Tree!RootOf(p, comm, par)
           ops == Tree!Admitted(p, comm, par, proc)
<1>1. /\ tracked \in [Pids -> Pids \cup {NoPid}]
      /\ operations \in [Pids -> Tree!Option(Tree!Operation)]
      /\ \A q \in Pids : operations[q] # None =>
            operations[q] \in Tree!Operation /\ Filed(q, operations[q]) /\ tracked[q] = q
  BY DEF Tree!Inv, Tree!TypeOK, Tree!OperationsAreFiled, Tree!OpenRootsAreTracked,
         Tree!Option, Filed
<1>2. root \in Pids \cup {NoPid}
  BY <1>1, InheritedRootIsSeen DEF Tree!RootOf
<1>3. operations[p] # None => root = p
  BY <1>1, NoPidAssumption DEF Tree!RootOf
<1>4. CASE Tree!Starts(p, comm)
  <2> DEFINE new == Tree!NewOperation(p, comm, proc)
  <2>1. root = p /\ ops = [operations EXCEPT ![p] = new] /\ operations[p] = None
    BY <1>1, <1>4, NoPidAssumption DEF Tree!RootOf, Tree!Starts, Tree!Admitted
  <2>2. new \in Tree!Operation /\ Filed(p, new)
    BY <1>4 DEF Tree!Starts, Tree!NewOperation, Tree!Operation, Tree!ProcSource, Tree!Option,
                Tree!PathState, Tree!Untouched, Filed
  <2> HIDE DEF new
  <2>3. QED BY <1>1, <1>4, <2>1, <2>2, NoneIsNoOperation DEF Admits, Tree!Option
<1>5. CASE ~Tree!Starts(p, comm) /\ tracked[p] = NoPid /\ root # NoPid
           /\ operations[root] # None
  <2> DEFINE new == [operations[root] EXCEPT !.pids = @ \cup {p}]
  <2>1. root \in Pids /\ ops = [operations EXCEPT ![root] = new]
    BY <1>2, <1>5 DEF Tree!Admitted
  <2>2. operations[root] \in Tree!Operation /\ Filed(root, operations[root])
    BY <1>1, <1>5, <2>1
  <2>3. new \in Tree!Operation /\ Filed(root, new) /\ new.paths = operations[root].paths
    BY <2>2 DEF Tree!Operation, Filed
  <2> HIDE DEF new, root, ops
  <2>4. Admits(p, comm, root, ops)
    BY <1>1, <1>3, <1>5, <2>1, <2>3, NoneIsNoOperation DEF Admits, Tree!Option
  <2>5. QED BY <2>4 DEF root, ops
<1>6. CASE ~Tree!Starts(p, comm) /\ ops = operations
  BY <1>1, <1>2, <1>3, <1>6 DEF Admits
<1>7. QED BY <1>4, <1>5, <1>6 DEF Tree!Admitted

\* The parents a record is attributed with, and the root it is attributed to.
Linked(e) ==
    IF e.type = "exec" /\ e.ppid # NoPid THEN [parents EXCEPT ![e.pid] = e.ppid]
    ELSE parents

RootFor(e) == Tree!RootOf(e.pid, e.comm, Linked(e))

\* What dispatching e does to the tree.
Attributes(e) ==
    /\ parents' = IF e.type = "exit" THEN [parents EXCEPT ![e.pid] = NoPid] ELSE Linked(e)
    /\ tracked' = [tracked EXCEPT ![e.pid] = IF e.type = "exit" THEN NoPid ELSE RootFor(e)]
    /\ RootFor(e) \in Pids \cup {NoPid}
    /\ \A r \in Pids : Opens(r) => r = e.pid /\ Tree!Starts(r, e.comm)
    /\ \A r \in Pids : (/\ operations[r] # None /\ operations'[r] # None
                        /\ operations'[r].paths # operations[r].paths)
                       => r = RootFor(e)
    /\ \A r \in Pids : operations[r] # None /\ (e.type = "exit" => r # e.pid)
                       => operations'[r] # None
    /\ e.type = "exit" => operations'[e.pid] = None
    /\ e.type # "exit" /\ Tree!Starts(e.pid, e.comm) => operations'[e.pid] # None
    /\ \A r \in Pids : e.type = "file" /\ r = RootFor(e) /\ operations'[r] # None =>
          LET st == operations'[r].paths[e.path] IN Tree!Recorded(st, e.access) = st

LEMMA ExecAttributes ==
    ASSUME Tree!Inv, NEW e \in ProcessExecEvent, NEW proc \in Tree!ProcSource,
           Tree!OnExec(DecodeExec(e), proc)
    PROVE  Tree!Inv' /\ Attributes(e)
<1> DEFINE p == e.pid
           root == RootFor(e)
           ops == Tree!Admitted(p, e.comm, Linked(e), proc)
           o == [ops[p] EXCEPT !.command = Tree!IfNone(@, proc.cmdline),
                               !.working_directory = Tree!IfNone(@, proc.cwd)]
<1>1. /\ p \in Pids /\ e.ppid \in Pids \cup {NoPid} /\ e.comm \in Comms /\ e.type = "exec"
      /\ parents \in [Pids -> Pids \cup {NoPid}] /\ tracked \in [Pids -> Pids \cup {NoPid}]
      /\ \A q \in Pids : operations[q] # None => tracked[q] = q
  BY DEF ProcessExecEvent, Tree!Inv, Tree!TypeOK, Tree!OpenRootsAreTracked
<1>2. /\ parents' = Linked(e)
      /\ tracked' = [tracked EXCEPT ![p] = root]
      /\ operations' = Tree!Refreshed(ops, p, proc)
      /\ emitted' = {}
  BY <1>1 DEF Tree!OnExec, DecodeExec, Linked, RootFor
<1>3. Admits(p, e.comm, root, ops)
  BY <1>1, Admission DEF RootFor
<1>4. /\ operations' \in [Pids -> Tree!Option(Tree!Operation)]
      /\ \A q \in Pids : q # p => operations'[q] = ops[q]
      /\ ops[p] = None <=> operations'[p] = None
      /\ ops[p] # None => Filed(p, operations'[p]) /\ operations'[p].paths = ops[p].paths
  <2>1. CASE ops[p] = None
    BY <1>2, <1>3, <2>1 DEF Tree!Refreshed, Admits
  <2>2. CASE ops[p] # None
    <3>1. ops[p] \in Tree!Operation /\ Filed(p, ops[p])
      BY <1>1, <1>3, <2>2 DEF Admits, Tree!Option
    <3>2. /\ Tree!IfNone(ops[p].command, proc.cmdline) \in Tree!Option(Commands)
          /\ Tree!IfNone(ops[p].working_directory, proc.cwd) \in Tree!Option(Commands)
      BY <3>1 DEF Tree!Operation, Tree!IfNone, Tree!ProcSource
    <3>3. o \in Tree!Operation /\ Filed(p, o) /\ o.paths = ops[p].paths
      BY <3>1, <3>2 DEF Tree!Operation, Filed
    <3>4. operations' = [ops EXCEPT ![p] = o]
      BY <1>2, <1>3, <2>2 DEF Tree!Refreshed, Admits
    <3> HIDE DEF o, ops, root
    <3>5. QED
      BY <1>1, <1>3, <2>2, <3>3, <3>4, NoneIsNoOperation DEF Admits, Tree!Option
  <2>3. QED BY <2>1, <2>2
<1>5. Linked(e) \in [Pids -> Pids \cup {NoPid}]
  BY <1>1 DEF Linked
<1> HIDE DEF root, ops, o
<1>6. Tree!Inv'
  <2>1. Tree!TypeOK'
    BY <1>1, <1>2, <1>3, <1>4, <1>5 DEF Tree!TypeOK, Admits
  <2>2. Tree!OperationsAreFiled'
    BY <1>3, <1>4 DEF Tree!OperationsAreFiled, Admits, Filed
  <2>3. Tree!OpenRootsAreTracked'
    BY <1>1, <1>2, <1>3, <1>4 DEF Tree!OpenRootsAreTracked, Admits
  <2>4. QED BY <2>1, <2>2, <2>3 DEF Tree!Inv
<1>7. \A r \in Pids : Opens(r) => r = p /\ Tree!Starts(r, e.comm)
  BY <1>2, <1>3, <1>4 DEF Opens, Admits
<1>8. \A r \in Pids : (/\ operations[r] # None /\ operations'[r] # None
                       /\ operations'[r].paths # operations[r].paths) => r = root
  BY <1>3, <1>4 DEF Admits
<1>9. /\ \A r \in Pids : operations[r] # None => operations'[r] # None
      /\ Tree!Starts(p, e.comm) => operations'[p] # None
  BY <1>1, <1>3, <1>4 DEF Admits
<1>10. QED
  BY <1>1, <1>2, <1>3, <1>6, <1>7, <1>8, <1>9 DEF Attributes, Admits, root

LEMMA FileAttributes ==
    ASSUME Tree!Inv, NEW e \in FileAccessEvent, NEW proc \in Tree!ProcSource,
           Tree!OnFile(DecodeFile(e), proc)
    PROVE  Tree!Inv' /\ Attributes(e)
<1> DEFINE p == e.pid
           root == RootFor(e)
           ops == Tree!Admitted(p, e.comm, parents, proc)
           o == Tree!RecordIn(ops[root], e.path, e.access)
<1>1. /\ p \in Pids /\ e.comm \in Comms /\ e.type = "file" /\ e.path \in Paths
      /\ e.access \in Tree!AccessKinds /\ Linked(e) = parents
      /\ parents \in [Pids -> Pids \cup {NoPid}] /\ tracked \in [Pids -> Pids \cup {NoPid}]
      /\ \A q \in Pids : operations[q] # None => tracked[q] = q
  BY AccessAssumption
     DEF FileAccessEvent, Linked, Tree!Inv, Tree!TypeOK, Tree!OpenRootsAreTracked
<1>2. /\ parents' = parents
      /\ tracked' = [tracked EXCEPT ![p] = root]
      /\ operations' = IF root = NoPid \/ ops[root] = None THEN ops
                       ELSE [ops EXCEPT ![root] = Tree!RecordIn(@, e.path, e.access)]
      /\ emitted' = {}
  BY <1>1 DEF Tree!OnFile, DecodeFile, RootFor
<1>3. Admits(p, e.comm, root, ops)
  BY <1>1, Admission DEF RootFor
<1>4. /\ operations' \in [Pids -> Tree!Option(Tree!Operation)]
      /\ \A q \in Pids : q # root => operations'[q] = ops[q]
      /\ \A q \in Pids : /\ ops[q] = None <=> operations'[q] = None
                         /\ ops[q] # None => Filed(q, operations'[q])
      /\ root \in Pids /\ ops[root] # None =>
            Tree!Recorded(operations'[root].paths[e.path], e.access)
               = operations'[root].paths[e.path]
  <2>1. CASE root = NoPid \/ ops[root] = None
    BY <1>2, <1>3, <2>1, NoPidAssumption DEF Admits
  <2>2. CASE root \in Pids /\ ops[root] # None
    <3>1. ops[root] \in Tree!Operation /\ Filed(root, ops[root])
      BY <1>3, <2>2 DEF Admits, Tree!Option
    <3>2. Tree!Recorded(ops[root].paths[e.path], e.access) \in Tree!PathState
      <4>1. ops[root].paths[e.path] \in Tree!PathState
        BY <1>1, <3>1 DEF Tree!Operation
      <4>2. \A st \in Tree!PathState : Tree!Recorded(st, e.access) \in Tree!PathState
        BY <1>1 DEF Tree!Recorded, Tree!PathState, Tree!AccessKinds
      <4>3. QED BY <4>1, <4>2
    <3>3. o = [ops[root] EXCEPT !.paths = [@ EXCEPT ![e.path] =
                 Tree!Recorded(ops[root].paths[e.path], e.access)]]
      BY DEF Tree!RecordIn
    <3>4. o \in Tree!Operation /\ Filed(root, o)
      BY <3>1, <3>2, <3>3 DEF Tree!Operation, Filed
    <3>5. Tree!Recorded(o.paths[e.path], e.access) = o.paths[e.path]
      <4>1. \A st \in Tree!PathState :
               Tree!Recorded(Tree!Recorded(st, e.access), e.access) = Tree!Recorded(st, e.access)
        <5> SUFFICES ASSUME NEW st \in Tree!PathState
                     PROVE  Tree!Recorded(Tree!Recorded(st, e.access), e.access)
                               = Tree!Recorded(st, e.access)
          OBVIOUS
        <5>1. CASE e.access = "read"
          BY <5>1 DEF Tree!Recorded, Tree!PathState
        <5>2. CASE e.access \in {"write", "create", "truncate"}
          BY <5>2 DEF Tree!Recorded, Tree!PathState
        <5>3. CASE e.access = "delete"
          BY <5>3 DEF Tree!Recorded, Tree!PathState
        <5>4. QED BY <1>1, <5>1, <5>2, <5>3 DEF Tree!AccessKinds
      <4>2. /\ ops[root].paths[e.path] \in Tree!PathState
            /\ o.paths[e.path] = Tree!Recorded(ops[root].paths[e.path], e.access)
        BY <1>1, <3>1, <3>3 DEF Tree!Operation
      <4>3. QED BY <4>1, <4>2
    <3>6. operations' = [ops EXCEPT ![root] = o]
      BY <1>2, <2>2, NoPidAssumption
    <3> HIDE DEF o, ops, root
    <3>7. QED
      BY <1>3, <2>2, <3>1, <3>4, <3>5, <3>6, NoneIsNoOperation DEF Admits, Tree!Option
  <2>3. QED BY <1>3, <2>1, <2>2 DEF Admits
<1> HIDE DEF root, ops, o
<1>5. Tree!Inv'
  <2>1. Tree!TypeOK'
    BY <1>1, <1>2, <1>3, <1>4 DEF Tree!TypeOK, Admits
  <2>2. Tree!OperationsAreFiled'
    BY <1>4 DEF Tree!OperationsAreFiled, Filed
  <2>3. Tree!OpenRootsAreTracked'
    BY <1>1, <1>2, <1>3, <1>4 DEF Tree!OpenRootsAreTracked, Admits
  <2>4. QED BY <2>1, <2>2, <2>3 DEF Tree!Inv
<1>6. \A r \in Pids : Opens(r) => r = p /\ Tree!Starts(r, e.comm)
  BY <1>2, <1>3, <1>4 DEF Opens, Admits
<1>7. \A r \in Pids : (/\ operations[r] # None /\ operations'[r] # None
                       /\ operations'[r].paths # operations[r].paths) => r = root
  BY <1>3, <1>4 DEF Admits
<1>8. /\ \A r \in Pids : operations[r] # None => operations'[r] # None
      /\ Tree!Starts(p, e.comm) => operations'[p] # None
      /\ \A r \in Pids : r = root /\ operations'[r] # None =>
            Tree!Recorded(operations'[r].paths[e.path], e.access) = operations'[r].paths[e.path]
  BY <1>1, <1>3, <1>4 DEF Admits
<1>9. QED
  BY <1>1, <1>2, <1>3, <1>5, <1>6, <1>7, <1>8 DEF Attributes, Admits, root

LEMMA ExitAttributes ==
    ASSUME Tree!Inv, NEW e \in ProcessExitEvent, NEW proc \in Tree!ProcSource,
           DecodeExit(e).exit_code \in Tree!Option(Codes),
           Tree!OnExit(DecodeExit(e), proc)
    PROVE  Tree!Inv' /\ Attributes(e)
<1> DEFINE p == e.pid
           root == RootFor(e)
           ops == Tree!Admitted(p, e.comm, parents, proc)
           o == [ops[p] EXCEPT !.exit_code = DecodeExit(e).exit_code]
<1>1. /\ p \in Pids /\ e.comm \in Comms /\ e.type = "exit" /\ Linked(e) = parents
      /\ parents \in [Pids -> Pids \cup {NoPid}] /\ tracked \in [Pids -> Pids \cup {NoPid}]
      /\ \A q \in Pids : operations[q] # None => tracked[q] = q
  BY DEF ProcessExitEvent, Linked, Tree!Inv, Tree!TypeOK, Tree!OpenRootsAreTracked
<1>2. /\ parents' = [parents EXCEPT ![p] = NoPid]
      /\ tracked' = [tracked EXCEPT ![p] = NoPid]
      /\ operations' = IF root = p /\ ops[p] # None THEN [ops EXCEPT ![p] = None] ELSE ops
      /\ emitted' = IF root = p /\ ops[p] # None THEN {o} ELSE {}
  BY <1>1 DEF Tree!OnExit, DecodeExit, RootFor
<1>3. Admits(p, e.comm, root, ops)
  BY <1>1, Admission DEF RootFor
<1>4. ops[p] # None => o \in Tree!Operation /\ o.root_pid = p
  BY <1>1, <1>3 DEF Admits, Tree!Option, Tree!Operation, Filed
<1> HIDE DEF root, ops, o
<1>5. /\ operations' \in [Pids -> Tree!Option(Tree!Operation)] /\ operations'[p] = None
      /\ \A q \in Pids : q # p => operations'[q] = ops[q]
  BY <1>1, <1>2, <1>3 DEF Admits, Tree!Option
<1>6. Tree!Inv'
  <2>1. Tree!TypeOK'
    BY <1>1, <1>2, <1>4, <1>5 DEF Tree!TypeOK
  <2>2. Tree!OperationsAreFiled'
    BY <1>3, <1>5 DEF Tree!OperationsAreFiled, Admits, Filed
  <2>3. Tree!OpenRootsAreTracked'
    BY <1>1, <1>2, <1>3, <1>5 DEF Tree!OpenRootsAreTracked, Admits
  <2>4. QED BY <2>1, <2>2, <2>3 DEF Tree!Inv
<1>7. \A r \in Pids : Opens(r) => r = p /\ Tree!Starts(r, e.comm)
  BY <1>2, <1>3, <1>4, <1>5 DEF Opens, Admits
<1>8. \A r \in Pids : (/\ operations[r] # None /\ operations'[r] # None
                       /\ operations'[r].paths # operations[r].paths) => r = root
  BY <1>3, <1>5 DEF Admits
<1>9. \A r \in Pids : operations[r] # None /\ r # p => operations'[r] # None
  BY <1>3, <1>5 DEF Admits
<1>10. QED
  BY <1>1, <1>2, <1>3, <1>5, <1>6, <1>7, <1>8, <1>9 DEF Attributes, Admits, root

-----------------------------------------------------------------------------
(* Types *)

\* A pid in use has been handed out.
Started == \A t \in Pids : task[t].st # "free" => task[t].gen # 0

TInv == CInv /\ TypeOK /\ Tree!Inv /\ Started

LEMMA IdleCommType == IdleComm \in Comms
BY CommsAssumption DEF IdleComm

LEMMA SourceType ==
    ASSUME TInv, NEW t \in Pids, task[t].st # "free"
    PROVE  Source(t) \in Truth
<1> DEFINE p == task[t].tgid
<1>1. p \in Pids /\ task[p].st # "free" /\ task[p] \in Task
  BY DEF TInv, CInv, TasksAreGrouped, TypeOK, KernelTypeOK, Task
<1>2. /\ task[p].gen \in 1..MaxGen /\ task[p].anc \in SUBSET Incarnations
      /\ task[p].invoked \in BOOLEAN /\ asked[p] \in SUBSET Codes
  BY <1>1, BoundsAssumption DEF TInv, Started, Task, TypeOK, KernelTypeOK
<1>3. Inc(p) \in Incarnations
  BY <1>1, <1>2 DEF Inc, Incarnations
<1> HIDE DEF p
<1>4. QED BY <1>2, <1>3 DEF Source, Truth, p

LEMMA RecordFits ==
    ASSUME KernelTypeOK, NEW e \in Record, Output(e)
    PROVE  EVENTS' \in Seq(Record) /\ Len(EVENTS') <= RingCap
<1>1. CASE UNCHANGED EVENTS
  BY <1>1 DEF KernelTypeOK
<1>2. CASE Len(EVENTS) < RingCap /\ EVENTS' = Append(EVENTS, e)
  BY <1>2, BoundsAssumption DEF KernelTypeOK
<1>3. QED BY <1>1, <1>2 DEF Output

LEMMA ParentsKeep ==
    ASSUME PARENT_MAP \in [Pids -> Pids \cup {NoPid}], NEW c \in Pids, NEW p \in Pids,
           NEW new \in LruInserts(PARENT_MAP, c, p, NoPid)
    PROVE  /\ new \in [Pids -> Pids \cup {NoPid}] /\ new[c] = p
           /\ \A q \in Pids \ {c} : new[q] \in {PARENT_MAP[q], NoPid}
BY DEF LruInserts

\* What the types of the kernel's state depend on.
KernelTyped == KernelTypeOK /\ Started

LEMMA ForkTypes ==
    ASSUME TInv, CInv', NEW t \in Pids, NEW c \in Pids, Fork(t, c)
    PROVE  KernelTyped'
<1> DEFINE p == task[t].tgid
           new == [st |-> "forked", tgid |-> c, comm |-> task[t].comm,
                   gen |-> task[c].gen + 1, invoked |-> FALSE,
                   anc |-> task[p].anc \cup {<<c, task[c].gen + 1>>}]
<1>1. /\ task \in [Pids -> Task] /\ task[t] \in Task /\ task[c] \in Task /\ p \in Pids
      /\ task[p] \in Task /\ task[c].gen < MaxGen
  BY DEF TInv, TypeOK, KernelTypeOK, Task, Fork, Available
<1>2. new \in Task /\ new.gen # 0
  <2>1. task[c].gen + 1 \in 1..MaxGen
    BY <1>1, BoundsAssumption DEF Task
  <2>2. task[p].anc \cup {<<c, task[c].gen + 1>>} \in SUBSET Incarnations
    BY <1>1, <2>1 DEF Task, Incarnations
  <2>3. QED BY <1>1, <2>1, <2>2 DEF Task
<1>3. /\ task' = [task EXCEPT ![c] = new]
      /\ PARENT_MAP' \in LruInserts(PARENT_MAP, c, p, NoPid)
      /\ UNCHANGED EVENTS
  BY DEF Fork, TraceFork
<1> HIDE DEF new, p
<1>4. task' \in [Pids -> Task] /\ Started'
  BY <1>1, <1>2, <1>3 DEF TInv, Started
<1>5. PARENT_MAP' \in [Pids -> Pids \cup {NoPid}]
  BY <1>1, <1>3, ParentsKeep DEF TInv, TypeOK, KernelTypeOK
<1>6. QED
  BY <1>3, <1>4, <1>5 DEF KernelTyped, KernelTypeOK, TInv, TypeOK, CInv, CodesAreOwn

LEMMA TypedTask ==
    ASSUME NEW old \in Task, NEW p \in Pids
    PROVE  LET new == [old EXCEPT !.st = "live", !.tgid = p]
           IN  new \in Task /\ new.gen = old.gen
BY DEF Task

LEMMA CloneTypes ==
    ASSUME TInv, CInv', NEW t \in Pids, NEW c \in Pids, CloneThread(t, c)
    PROVE  KernelTyped'
<1> DEFINE p == task[t].tgid
           free == FreeTask(c, task[c].gen + 1, task[t].comm)
           new == [free EXCEPT !.st = "live", !.tgid = p]
<1>1. /\ task \in [Pids -> Task] /\ task[t] \in Task /\ task[c] \in Task /\ p \in Pids
      /\ task[c].gen < MaxGen
  BY DEF TInv, TypeOK, KernelTypeOK, Task, CloneThread, Available
<1>2. new \in Task /\ new.gen # 0
  <2>1. task[c].gen + 1 \in 1..MaxGen
    BY <1>1, BoundsAssumption DEF Task
  <2>2. free \in Task /\ free.gen # 0
    BY <1>1, <2>1 DEF Task, FreeTask
  <2>3. QED BY <1>1, <2>2, TypedTask
<1>3. /\ task' = [task EXCEPT ![c] = new]
      /\ PARENT_MAP' \in LruInserts(PARENT_MAP, c, p, NoPid)
      /\ UNCHANGED EVENTS
  BY DEF CloneThread, TraceFork
<1> HIDE DEF new, p, free
<1>4. task' \in [Pids -> Task] /\ Started'
  BY <1>1, <1>2, <1>3 DEF TInv, Started
<1>5. PARENT_MAP' \in [Pids -> Pids \cup {NoPid}]
  BY <1>1, <1>3, ParentsKeep DEF TInv, TypeOK, KernelTypeOK
<1>6. QED
  BY <1>3, <1>4, <1>5 DEF KernelTyped, KernelTypeOK, TInv, TypeOK, CInv, CodesAreOwn

\* A step that changes one task that stays in use, and no link.
LEMMA SameTypes ==
    ASSUME TInv, CInv', NEW t \in Pids, NEW new \in Task, task' = [task EXCEPT ![t] = new],
           new.gen = task[t].gen, task[t].st # "free", UNCHANGED PARENT_MAP,
           EVENTS' \in Seq(Record) /\ Len(EVENTS') <= RingCap
    PROVE  KernelTyped'
<1>1. task' \in [Pids -> Task] /\ Started'
  BY DEF TInv, Started, TypeOK, KernelTypeOK
<1>2. QED
  BY <1>1 DEF KernelTyped, KernelTypeOK, TInv, TypeOK, CInv, CodesAreOwn

LEMMA RenamedType ==
    ASSUME NEW old \in Task, NEW comm \in Comms, NEW b \in BOOLEAN
    PROVE  LET new == [old EXCEPT !.comm = comm, !.invoked = b]
           IN  new \in Task /\ new.gen = old.gen
BY DEF Task

LEMMA ExecRecordType ==
    ASSUME TInv, NEW t \in Pids, NEW comm \in Comms, task[t].st # "free"
    PROVE  [type |-> "exec", pid |-> t, ppid |-> PARENT_MAP[t], comm |-> comm,
            src |-> [Source(t) EXCEPT !.invoked = (comm \in Whitelist)]] \in Record
<1> DEFINE b == comm \in Whitelist
<1>1. Source(t) \in Truth /\ PARENT_MAP[t] \in Pids \cup {NoPid}
  BY SourceType DEF TInv, TypeOK, KernelTypeOK
<1>2. b \in BOOLEAN
  OBVIOUS
<1> HIDE DEF b
<1>3. [Source(t) EXCEPT !.invoked = b] \in Truth
  BY <1>1, <1>2 DEF Truth
<1>4. QED BY <1>1, <1>3 DEF Record, ProcessExecEvent, b

LEMMA ExecTypes ==
    ASSUME TInv, CInv', NEW t \in Pids, NEW comm \in Comms, Exec(t, comm)
    PROVE  KernelTyped'
<1> DEFINE live == [task[t] EXCEPT !.st = "live"]
           b == comm \in Whitelist
           new == [live EXCEPT !.comm = comm, !.invoked = b]
           src == [Source(t) EXCEPT !.invoked = b]
<1>1. task[t] \in Task /\ task[t].st # "free" /\ PARENT_MAP[t] \in Pids \cup {NoPid}
  BY DEF TInv, TypeOK, KernelTypeOK, Exec
<1>2. new \in Task /\ new.gen = task[t].gen
  <2>1. live \in Task /\ live.gen = task[t].gen
    BY <1>1 DEF Task
  <2>2. b \in BOOLEAN
    OBVIOUS
  <2> HIDE DEF b, live
  <2>3. QED BY <2>1, <2>2, RenamedType
<1>3. src \in Truth
  <2>1. Source(t) \in Truth
    BY <1>1, SourceType
  <2>2. b \in BOOLEAN
    OBVIOUS
  <2> HIDE DEF b
  <2>3. QED BY <2>1, <2>2 DEF Truth
<1>4. task' = [task EXCEPT ![t] = new] /\ UNCHANGED PARENT_MAP
  BY DEF Exec, TInv, TypeOK, KernelTypeOK
<1>5. Output([type |-> "exec", pid |-> t, ppid |-> PARENT_MAP[t], comm |-> comm,
              src |-> src])
  BY DEF Exec, TraceExec
<1> HIDE DEF new, src, b, live
<1>6. [type |-> "exec", pid |-> t, ppid |-> PARENT_MAP[t], comm |-> comm,
       src |-> src] \in Record
  BY <1>1, <1>3 DEF Record, ProcessExecEvent
<1>7. EVENTS' \in Seq(Record) /\ Len(EVENTS') <= RingCap
  BY <1>5, <1>6, RecordFits DEF TInv, TypeOK
<1>8. QED BY <1>1, <1>2, <1>4, <1>7, SameTypes

LEMMA TitleTypes ==
    ASSUME TInv, CInv', NEW t \in Pids, NEW comm \in Comms, SetTitle(t, comm)
    PROVE  KernelTyped'
<1> DEFINE b == task[t].invoked \/ comm \in Whitelist
           new == [task[t] EXCEPT !.comm = comm, !.invoked = b]
<1>1. /\ task[t] \in Task /\ task[t].st # "free"
      /\ EVENTS' \in Seq(Record) /\ Len(EVENTS') <= RingCap
  BY DEF TInv, TypeOK, KernelTypeOK, SetTitle, Acts
<1>2. new \in Task /\ new.gen = task[t].gen
  <2>1. b \in BOOLEAN
    OBVIOUS
  <2> HIDE DEF b
  <2>2. QED BY <1>1, <2>1, RenamedType
<1>3. task' = [task EXCEPT ![t] = new] /\ UNCHANGED PARENT_MAP
  BY DEF SetTitle, TInv, TypeOK, KernelTypeOK
<1> HIDE DEF new, b
<1>4. QED BY <1>1, <1>2, <1>3, SameTypes

LEMMA AccessTypes ==
    ASSUME TInv, CInv', NEW t \in Pids, NEW a \in Accesses, NEW f \in Paths,
           FileAccess(t, a, f)
    PROVE  KernelTyped'
<1> DEFINE e == [type |-> "file", pid |-> t, access |-> a, comm |-> task[t].comm,
                 path |-> f, src |-> Source(t)]
<1>1. task[t].comm \in Comms /\ Source(t) \in Truth
  BY SourceType DEF FileAccess, Acts, TInv, TypeOK, KernelTypeOK, Task
<1>2. e \in Record
  BY <1>1 DEF Record, FileAccessEvent
<1>3. Output(e) /\ UNCHANGED <<task, PARENT_MAP>>
  BY DEF FileAccess, EmitFileAccess
<1> HIDE DEF e
<1>4. EVENTS' \in Seq(Record) /\ Len(EVENTS') <= RingCap
  BY <1>2, <1>3, RecordFits DEF TInv, TypeOK
<1>5. QED
  BY <1>3, <1>4 DEF KernelTyped, KernelTypeOK, TInv, TypeOK, CInv, CodesAreOwn, Started

LEMMA ExitGroupTypes ==
    ASSUME TInv, CInv', NEW t \in Pids, NEW code \in Codes, ExitGroup(t, code)
    PROVE  KernelTyped'
<1> DEFINE new == [task[t] EXCEPT !.st = "exiting"]
<1>1. /\ task[t] \in Task /\ task[t].st # "free"
      /\ EVENTS' \in Seq(Record) /\ Len(EVENTS') <= RingCap
  BY DEF TInv, TypeOK, KernelTypeOK, ExitGroup, Acts
<1>2. new \in Task /\ new.gen = task[t].gen
  BY <1>1 DEF Task
<1>3. task' = [task EXCEPT ![t] = new] /\ UNCHANGED PARENT_MAP
  BY DEF ExitGroup, TInv, TypeOK, KernelTypeOK
<1> HIDE DEF new
<1>4. QED BY <1>1, <1>2, <1>3, SameTypes

LEMMA ExitRecordType ==
    ASSUME TInv, NEW t \in Pids, task[t].st # "free"
    PROVE  ExitRecord(t, EXIT_CODES[task[t].tgid]) \in Record
<1> DEFINE status == EXIT_CODES[task[t].tgid]
           b == status # None
           code == IF status = None THEN 0 ELSE status
<1>1. task[t].comm \in Comms /\ status \in Codes \cup {None} /\ Source(t) \in Truth
  BY SourceType DEF TInv, TypeOK, KernelTypeOK, Task
<1>2. ExitRecord(t, status) = [type |-> "exit", pid |-> t, comm |-> task[t].comm,
         exit_code |-> code, code_observed |-> b, src |-> Source(t)]
  BY DEF ExitRecord
<1>3. b \in BOOLEAN /\ code \in Codes \cup {0}
  BY <1>1
<1> HIDE DEF b, code
<1>4. QED BY <1>1, <1>2, <1>3 DEF Record, ProcessExitEvent

LEMMA ExitTypes ==
    ASSUME TInv, CInv', NEW t \in Pids, Exit(t)
    PROVE  KernelTyped'
<1> DEFINE p == task[t].tgid
           gone == IF Threads(p) = {t} THEN {t, p} ELSE {t} \ {p}
           e == ExitRecord(t, EXIT_CODES[p])
<1>1. task \in [Pids -> Task] /\ task[t].st # "free"
  BY DEF Exit, Alive, TInv, TypeOK, KernelTypeOK
<1>2. /\ task' = [q \in Pids |->
              IF q \in gone THEN FreeTask(q, task[q].gen, IdleComm)
              ELSE IF q = t THEN [task[q] EXCEPT !.st = "zombie"]
              ELSE task[q]]
      /\ Output(e) /\ UNCHANGED PARENT_MAP
  BY DEF Exit, TraceExit
<1> HIDE DEF gone
<1>3. \A q \in Pids : task'[q] \in Task /\ (task'[q].st # "free" => task'[q].gen # 0)
  BY <1>1, <1>2, IdleCommType DEF Task, FreeTask, TInv, Started
<1>4. task' \in [Pids -> Task] /\ Started'
  BY <1>2, <1>3 DEF Started
<1>5. e \in Record
  BY <1>1, ExitRecordType
<1> HIDE DEF e
<1>6. EVENTS' \in Seq(Record) /\ Len(EVENTS') <= RingCap
  BY <1>2, <1>5, RecordFits DEF TInv, TypeOK
<1>7. QED
  BY <1>2, <1>4, <1>6 DEF KernelTyped, KernelTypeOK, TInv, TypeOK, CInv, CodesAreOwn

LEMMA KernelTypes == ASSUME TInv, CInv', Kernel PROVE TInv'
<1>1. KernelNext /\ UNCHANGED <<agentVars, stop>>
  BY DEF Kernel
<1>2. KernelTyped'
  BY <1>1, ForkTypes, CloneTypes, ExecTypes, TitleTypes, AccessTypes, ExitGroupTypes,
     ExitTypes
     DEF KernelNext
<1>3. QED
  BY <1>1, <1>2 DEF KernelTyped, TInv, TypeOK, agentVars, treeVars, history, Tree!Inv,
     Tree!TypeOK, Tree!OperationsAreFiled, Tree!OpenRootsAreTracked

LEMMA DecodedCodeType ==
    ASSUME TInv, Dispatch, Head1 \in Record, Head1.type = "exit"
    PROVE  DecodeExit(Head1).exit_code \in Tree!Option(Codes)
<1>1. IsOwn(Head1)
  BY TailKeeps DEF TInv, CInv, Dispatch
<1>2. Head1.src \in Truth
  BY DEF Record, ProcessExecEvent, FileAccessEvent, ProcessExitEvent
<1>3. QED BY <1>1, <1>2 DEF IsOwn, Truth, DecodeExit, Tree!Option

\* The record dispatch takes, what it does to the tree and which is left.
LEMMA DispatchAttributes ==
    ASSUME TInv, Dispatch
    PROVE  /\ Head1 \in Record /\ EVENTS' \in Seq(Record) /\ Len(EVENTS') <= RingCap
           /\ Tree!Inv' /\ Attributes(Head1)
<1>1. /\ Head1 \in Record /\ EVENTS' \in Seq(Record) /\ Len(EVENTS') <= RingCap
  <2>1. EVENTS # <<>> /\ EVENTS' = Tail(EVENTS) /\ EVENTS \in Seq(Record)
        /\ Len(EVENTS) <= RingCap /\ RingCap \in Nat
    BY BoundsAssumption DEF Dispatch, TInv, TypeOK, KernelTypeOK
  <2>2. QED BY <2>1 DEF Head1
<1>2. PICK proc \in ProcFs(Head1.pid) :
         \/ Head1.type = "exec" /\ Tree!OnExec(DecodeExec(Head1), proc)
         \/ Head1.type = "file" /\ Tree!OnFile(DecodeFile(Head1), proc)
         \/ Head1.type = "exit" /\ Tree!OnExit(DecodeExit(Head1), proc)
  BY DEF Dispatch
<1>3. proc \in Tree!ProcSource
  BY DEF ProcFs, Tree!ProcSource, Tree!Option
<1>4. /\ Head1.type = "exec" => Head1 \in ProcessExecEvent
      /\ Head1.type = "file" => Head1 \in FileAccessEvent
      /\ Head1.type = "exit" => Head1 \in ProcessExitEvent
  BY <1>1 DEF Record, ProcessExecEvent, FileAccessEvent, ProcessExitEvent
<1>5. Head1.type = "exit" => DecodeExit(Head1).exit_code \in Tree!Option(Codes)
  BY <1>1, DecodedCodeType
<1>6. Tree!Inv' /\ Attributes(Head1)
  BY <1>2, <1>3, <1>4, <1>5, ExecAttributes, FileAttributes, ExitAttributes DEF TInv
<1>7. QED BY <1>1, <1>6

LEMMA DispatchFeeds ==
    ASSUME TInv, Dispatch
    PROVE  Tree!Next
<1>1. PICK proc \in ProcFs(Head1.pid) :
         \/ Head1.type = "exec" /\ Tree!OnExec(DecodeExec(Head1), proc)
         \/ Head1.type = "file" /\ Tree!OnFile(DecodeFile(Head1), proc)
         \/ Head1.type = "exit" /\ Tree!OnExit(DecodeExit(Head1), proc)
  BY DEF Dispatch
<1>2. proc \in Tree!ProcSource
  BY DEF ProcFs, Tree!ProcSource, Tree!Option
<1>3. Head1 \in Record
  BY DispatchAttributes
<1>4. CASE Head1.type = "exec" /\ Tree!OnExec(DecodeExec(Head1), proc)
  <2>1. DecodeExec(Head1) \in Tree!ExecEvent
    BY <1>3, <1>4 DEF Record, ProcessExecEvent, FileAccessEvent, ProcessExitEvent,
                      DecodeExec, Tree!ExecEvent
  <2>2. QED BY <1>2, <1>4, <2>1 DEF Tree!Next
<1>5. CASE Head1.type = "file" /\ Tree!OnFile(DecodeFile(Head1), proc)
  <2>1. DecodeFile(Head1) \in Tree!FileEvent
    BY <1>3, <1>5 DEF Record, ProcessExecEvent, FileAccessEvent, ProcessExitEvent,
                      DecodeFile, Tree!FileEvent
  <2>2. QED BY <1>2, <1>5, <2>1 DEF Tree!Next
<1>6. CASE Head1.type = "exit" /\ Tree!OnExit(DecodeExit(Head1), proc)
  <2>1. DecodeExit(Head1).exit_code \in Tree!Option(Codes)
    BY <1>3, <1>6, DecodedCodeType
  <2>2. DecodeExit(Head1) \in Tree!ExitEvent
    BY <1>3, <1>6, <2>1
       DEF Record, ProcessExecEvent, FileAccessEvent, ProcessExitEvent, DecodeExit,
           Tree!ExitEvent
  <2>3. QED BY <1>2, <1>6, <2>2 DEF Tree!Next
<1>7. QED BY <1>1, <1>4, <1>5, <1>6

LEMMA DispatchTypes == ASSUME TInv, CInv', Dispatch PROVE TInv'
<1>1. /\ Head1 \in Record /\ EVENTS' \in Seq(Record) /\ Len(EVENTS') <= RingCap
      /\ Tree!Inv'
  BY DispatchAttributes
<1>2. Head1.src.inc \in Incarnations
  BY <1>1 DEF Record, ProcessExecEvent, FileAccessEvent, ProcessExitEvent, Truth
<1>3. rootInc' \in [Pids -> Incarnations \cup {None}] /\ opened' \subseteq Incarnations
  BY <1>2 DEF Dispatch, TInv, TypeOK
<1>4. UNCHANGED <<task, asked, PARENT_MAP, EXIT_CODES, pc, stop>>
  BY DEF Dispatch
<1>5. QED
  BY <1>1, <1>3, <1>4 DEF TInv, TypeOK, KernelTypeOK, Started, Tree!Inv

LEMMA StartedType ==
    ASSUME NEW old \in Task, NEW a \in SUBSET Incarnations
    PROVE  LET new == [old EXCEPT !.st = "live", !.anc = a]
           IN  new \in Task /\ new.gen = old.gen
BY DEF Task

LEMMA TypesInit == Init => TInv
<1> SUFFICES ASSUME Init PROVE TInv
  OBVIOUS
<1>1. task \in [Pids -> Task] /\ Started
  <2> DEFINE free == FreeTask(Runner, 1, IdleComm)
             new == [free EXCEPT !.st = "live", !.anc = {<<Runner, 1>>}]
  <2>1. free \in Task /\ free.gen = 1
    BY RunnerAssumption, BoundsAssumption, IdleCommType DEF FreeTask, Task
  <2>2. {<<Runner, 1>>} \in SUBSET Incarnations
    BY RunnerAssumption, BoundsAssumption DEF Incarnations
  <2>3. new \in Task /\ new.gen = 1
    <3> HIDE DEF free
    <3>1. QED BY <2>1, <2>2, StartedType
  <2>4. \A t \in Pids : FreeTask(t, 0, IdleComm) \in Task /\ FreeTask(t, 0, IdleComm).st = "free"
    BY BoundsAssumption, IdleCommType DEF FreeTask, Task
  <2>5. task = [t \in Pids |-> IF t = Runner THEN new ELSE FreeTask(t, 0, IdleComm)]
    BY DEF Init, KernelInit
  <2> HIDE DEF new
  <2>6. QED BY <2>3, <2>4, <2>5 DEF Started
<1>2. KernelTypeOK
  <2>1. /\ asked = [p \in Pids |-> {}] /\ PARENT_MAP = [t \in Pids |-> NoPid]
        /\ EXIT_CODES = [p \in Pids |-> None] /\ EVENTS = <<>>
    BY DEF Init, KernelInit
  <2>2. EVENTS \in Seq(Record) /\ Len(EVENTS) <= RingCap
    BY <2>1, BoundsAssumption
  <2>3. QED BY <1>1, <2>1, <2>2 DEF KernelTypeOK
<1>3. Tree!Inv
  BY DEF Init, Tree!Init, Tree!Inv, Tree!TypeOK, Tree!OperationsAreFiled,
         Tree!OpenRootsAreTracked, Tree!Option
<1>4. TypeOK
  BY <1>2, <1>3 DEF TypeOK, Init, Tree!Inv
<1>5. QED BY <1>1, <1>3, <1>4, CodesInit DEF TInv

LEMMA TypesStep == TInv /\ [Next]_vars => TInv'
<1> SUFFICES ASSUME TInv, [Next]_vars PROVE TInv'
  OBVIOUS
<1>1. CInv'
  BY CodesStep DEF TInv
<1>2. CASE Kernel
  BY <1>1, <1>2, KernelTypes
<1>3. CASE Dispatch
  BY <1>1, <1>3, DispatchTypes
<1>4. CASE Finalize
  <2>1. Tree!Inv'
    BY <1>4 DEF Finalize, Tree!FinalizeAll, TInv, Tree!Inv, Tree!TypeOK,
                Tree!OperationsAreFiled, Tree!OpenRootsAreTracked, Tree!Option
  <2>2. QED
    BY <1>1, <1>4, <2>1
       DEF Finalize, kernelVars, TInv, TypeOK, KernelTypeOK, Started, Tree!Inv
<1>5. CASE /\ UNCHANGED <<kernelVars, treeVars, history>>
           /\ pc' \in {pc, "drain", "select", "final_drain", "done"}
           /\ stop' \in {stop, TRUE}
  <2>1. Tree!Inv'
    BY <1>5 DEF treeVars, TInv, Tree!Inv, Tree!TypeOK, Tree!OperationsAreFiled,
                Tree!OpenRootsAreTracked
  <2>2. QED
    BY <1>1, <1>5, <2>1
       DEF kernelVars, history, TInv, TypeOK, KernelTypeOK, Started, Tree!Inv
<1>6. CASE DrainDone \/ Tick \/ Stopped \/ Signal
  BY <1>5, <1>6 DEF DrainDone, Tick, Stopped, Signal, agentVars
<1>7. CASE UNCHANGED vars
  BY <1>5, <1>7 DEF vars, agentVars
<1>8. QED BY <1>2, <1>3, <1>4, <1>6, <1>7 DEF Next, Agent

LEMMA TypesHold == Spec => []TInv
BY TypesInit, TypesStep, PTL DEF Spec

-----------------------------------------------------------------------------
(* Codes that are not lost: single-threaded processes and a map with room *)

\* An LRU map has room for any pid that is not in it.
HasRoom(map, absent) ==
    \A p \in Pids : map[p] = absent =>
        Cardinality({q \in Pids : map[q] # absent}) < MapCap

\* What the code of a process needs to be in the map when the process ends.
CodesHaveRoom == HasRoom(EXIT_CODES, None)

Telling == {e \in Record : e.type = "exit" /\ e.src.asked # {} => e.code_observed}

CodesAreKept ==
    /\ \A t \in Pids : task[t].tgid = t
    /\ \A p \in Pids : asked[p] # {} => EXIT_CODES[p] # None
    /\ EVENTS \in Seq(Telling)

\* A map with room evicts nothing.
LEMMA NothingEvicted ==
    ASSUME IsFiniteSet(Pids), NEW map, DOMAIN map = Pids, NEW absent, HasRoom(map, absent),
           NEW p \in Pids, NEW v, NEW new \in LruInserts(map, p, v, absent)
    PROVE  new = [map EXCEPT ![p] = v]
<1> DEFINE used == {q \in Pids : map[q] # absent}
<1>1. Cardinality(used) \in Nat
  <2>1. used \in SUBSET Pids
    OBVIOUS
  <2> HIDE DEF used
  <2>2. QED BY <2>1, FS_Subset, FS_CardinalityType
<1>2. map[p] = absent => Cardinality(used) < MapCap
  BY DEF HasRoom
<1> HIDE DEF used
<1>3. ~ (map[p] = absent /\ Cardinality(used) >= MapCap)
  BY <1>1, <1>2, BoundsAssumption
<1>4. {q \in DOMAIN map : map[q] # absent} = used
  BY DEF used
<1>5. QED BY <1>3, <1>4 DEF LruInserts

LEMMA TellingOutput ==
    ASSUME EVENTS \in Seq(Telling), NEW e \in Telling, Output(e)
    PROVE  EVENTS' \in Seq(Telling)
<1> HIDE DEF Telling
<1>1. QED BY DEF Output

LEMMA KernelKeepsCodes ==
    ASSUME "threads" \notin Workload, IsFiniteSet(Pids), CodesHaveRoom,
           TInv, CodesAreKept, Kernel
    PROVE  CodesAreKept'
<1>1. PICK t \in Pids :
         \/ \E c \in Pids : Fork(t, c) \/ CloneThread(t, c)
         \/ \E comm \in Comms : Exec(t, comm) \/ SetTitle(t, comm)
         \/ \E a \in Accesses, f \in Paths : FileAccess(t, a, f)
         \/ \E code \in Codes : ExitGroup(t, code)
         \/ Exit(t)
  BY DEF Kernel, KernelNext
<1>2. /\ task \in [Pids -> Task] /\ asked \in [Pids -> SUBSET Codes]
      /\ EXIT_CODES \in [Pids -> Codes \cup {None}] /\ None \notin Codes
      /\ task[t].tgid = t
  BY NoneAssumption DEF TInv, TypeOK, KernelTypeOK, CodesAreKept
<1>3. CASE \E c \in Pids : Fork(t, c)
  BY <1>2, <1>3 DEF CodesAreKept, Fork
<1>4. ~ \E c \in Pids : CloneThread(t, c)
  BY DEF CloneThread, Allows
<1>5. CASE \E comm \in Comms : Exec(t, comm)
  <2>1. PICK comm \in Comms : Exec(t, comm)
    BY <1>5
  <2>2. PICK e : e = [type |-> "exec", pid |-> t, ppid |-> PARENT_MAP[t], comm |-> comm,
                      src |-> [Source(t) EXCEPT !.invoked = (comm \in Whitelist)]]
    OBVIOUS
  <2>3. Output(e) /\ e.type = "exec"
    BY <2>1, <2>2 DEF Exec, TraceExec
  <2>4. e \in Record
    BY <2>1, <2>2, ExecRecordType DEF Exec
  <2>5. EVENTS' \in Seq(Telling)
    BY <2>3, <2>4, TellingOutput DEF Telling, CodesAreKept
  <2>6. \A q \in Pids : task'[q].tgid = task[q].tgid
    BY <1>2, <2>1 DEF Exec, Task
  <2>7. QED BY <2>1, <2>5, <2>6 DEF CodesAreKept, Exec
<1>6. CASE \E comm \in Comms : SetTitle(t, comm)
  BY <1>2, <1>6 DEF CodesAreKept, SetTitle, Task
<1>7. CASE \E a \in Accesses, f \in Paths : FileAccess(t, a, f)
  <2>1. PICK a \in Accesses, f \in Paths : FileAccess(t, a, f)
    BY <1>7
  <2>2. PICK e : e = [type |-> "file", pid |-> t, access |-> a, comm |-> task[t].comm,
                      path |-> f, src |-> Source(t)]
    OBVIOUS
  <2>3. Output(e) /\ e.type = "file" /\ task[t].st # "free" /\ task[t].comm \in Comms
    BY <1>2, <2>1, <2>2 DEF FileAccess, EmitFileAccess, Acts, Task
  <2>4. e \in Record
    BY <2>2, <2>3, SourceType DEF Record, FileAccessEvent
  <2>5. EVENTS' \in Seq(Telling)
    BY <2>3, <2>4, TellingOutput DEF Telling, CodesAreKept
  <2>6. QED BY <2>1, <2>5 DEF CodesAreKept, FileAccess
<1>8. CASE \E code \in Codes : ExitGroup(t, code)
  <2>1. PICK code \in Codes : ExitGroup(t, code)
    BY <1>8
  <2>2. EXIT_CODES' = [EXIT_CODES EXCEPT ![t] = code]
    BY <1>2, <2>1, NothingEvicted DEF ExitGroup, TraceExitGroup, CodesHaveRoom
  <2>3. asked' = [asked EXCEPT ![t] = @ \cup {code}] /\ UNCHANGED EVENTS
    BY <1>2, <2>1 DEF ExitGroup
  <2>4. \A p \in Pids : asked'[p] # {} => EXIT_CODES'[p] # None
    BY <1>2, <2>2, <2>3 DEF CodesAreKept
  <2>5. \A q \in Pids : task'[q].tgid = task[q].tgid
    BY <1>2, <2>1 DEF ExitGroup, Task
  <2>6. QED BY <2>3, <2>4, <2>5 DEF CodesAreKept
<1>9. CASE Exit(t)
  <2>1. Threads(t) = {t} /\ task[t].st # "free"
    BY <1>2, <1>9 DEF CodesAreKept, Exit, Threads, Alive
  <2>2. PICK e : e = ExitRecord(t, EXIT_CODES[t])
    OBVIOUS
  <2>3. /\ asked' = [asked EXCEPT ![t] = {}]
        /\ EXIT_CODES' = [EXIT_CODES EXCEPT ![t] = None]
        /\ Output(e)
        /\ task' = [q \in Pids |-> IF q = t THEN FreeTask(q, task[q].gen, IdleComm)
                                   ELSE task[q]]
    BY <1>2, <1>9, <2>1, <2>2 DEF Exit, TraceExit
  <2>4. e \in Record /\ (e.src.asked # {} => e.code_observed)
    BY <1>2, <2>1, <2>2, ExitRecordType DEF CodesAreKept, ExitRecord, Source
  <2>5. EVENTS' \in Seq(Telling)
    BY <2>3, <2>4, TellingOutput DEF Telling, CodesAreKept
  <2>6. \A q \in Pids : task'[q].tgid = q
    BY <1>2, <2>3 DEF CodesAreKept, FreeTask
  <2>7. \A p \in Pids : asked'[p] # {} => EXIT_CODES'[p] # None
    BY <1>2, <2>3 DEF CodesAreKept
  <2>8. QED BY <2>5, <2>6, <2>7 DEF CodesAreKept
<1>10. QED BY <1>1, <1>3, <1>4, <1>5, <1>6, <1>7, <1>8, <1>9

\* What dispatch returns carries the code of the exit record it takes.
LEMMA ReturnedCode ==
    ASSUME TInv, Dispatch
    PROVE  \A op \in emitted' :
              Head1.type = "exit" /\ op.exit_code = DecodeExit(Head1).exit_code
<1>1. PICK proc \in ProcFs(Head1.pid) :
         \/ Head1.type = "exec" /\ Tree!OnExec(DecodeExec(Head1), proc)
         \/ Head1.type = "file" /\ Tree!OnFile(DecodeFile(Head1), proc)
         \/ Head1.type = "exit" /\ Tree!OnExit(DecodeExit(Head1), proc)
  BY DEF Dispatch
<1>2. proc \in Tree!ProcSource /\ Head1 \in Record
  BY DispatchAttributes DEF ProcFs, Tree!ProcSource, Tree!Option
<1>3. CASE Head1.type # "exit"
  BY <1>1, <1>3 DEF Tree!OnExec, Tree!OnFile
<1>4. CASE Head1.type = "exit" /\ Tree!OnExit(DecodeExit(Head1), proc)
  <2> DEFINE p == Head1.pid
             code == DecodeExit(Head1).exit_code
             ops == Tree!Admitted(p, Head1.comm, parents, proc)
  <2>1. p \in Pids /\ Head1.comm \in Comms
    BY <1>2 DEF Record, ProcessExecEvent, FileAccessEvent, ProcessExitEvent
  <2>2. \/ emitted' = {}
        \/ ops[p] # None /\ emitted' = {[ops[p] EXCEPT !.exit_code = code]}
    BY <1>4 DEF Tree!OnExit, DecodeExit
  <2>3. ops \in [Pids -> Tree!Option(Tree!Operation)]
    BY <1>2, <2>1, Admission DEF TInv, Admits
  <2> HIDE DEF ops, code
  <2>4. ops[p] # None => [ops[p] EXCEPT !.exit_code = code].exit_code = code
    BY <2>1, <2>3 DEF Tree!Option, Tree!Operation
  <2>5. QED BY <1>4, <2>2, <2>4 DEF code
<1>5. QED BY <1>1, <1>3, <1>4

LEMMA AgentKeepsCodes ==
    ASSUME CodesAreKept, UNCHANGED <<task, asked, EXIT_CODES>>,
           UNCHANGED EVENTS \/ (EVENTS # <<>> /\ EVENTS' = Tail(EVENTS))
    PROVE  CodesAreKept'
<1> HIDE DEF Telling
<1>1. EVENTS' \in Seq(Telling)
  BY DEF CodesAreKept
<1>2. QED BY <1>1 DEF CodesAreKept, Telling

LEMMA CodesKeptStep ==
    ASSUME "threads" \notin Workload, IsFiniteSet(Pids)
    PROVE  TInv /\ CodesAreKept /\ CodesHaveRoom /\ [Next]_vars => CodesAreKept'
<1> SUFFICES ASSUME TInv, CodesAreKept, CodesHaveRoom, [Next]_vars PROVE CodesAreKept'
  OBVIOUS
<1>1. CASE Kernel
  BY <1>1, KernelKeepsCodes
<1>2. CASE Dispatch
  BY <1>2, AgentKeepsCodes DEF Dispatch
<1>3. CASE DrainDone \/ Tick \/ Stopped \/ Finalize \/ Signal \/ UNCHANGED vars
  BY <1>3, AgentKeepsCodes DEF DrainDone, Tick, Stopped, Finalize, Signal, vars, kernelVars
<1>4. QED BY <1>1, <1>2, <1>3 DEF Next, Agent

LEMMA CodesKeptInit == Init => CodesAreKept
<1> SUFFICES ASSUME Init PROVE CodesAreKept
  OBVIOUS
<1>1. EVENTS \in Seq(Telling)
  <2>1. EVENTS = <<>>
    BY DEF Init, KernelInit
  <2>2. QED BY <2>1
<1>2. \A t \in Pids : task[t].tgid = t
  BY DEF Init, KernelInit, FreeTask
<1>3. QED BY <1>1, <1>2 DEF CodesAreKept, Init, KernelInit

-----------------------------------------------------------------------------
(* The theorems *)

\* The tasks, the maps, every record in the ring, which is never over-full,
\* and the tree that dispatch feeds keep to their types.
THEOREM TypeCorrect == Spec => []TypeOK
<1>1. TInv => TypeOK
  BY DEF TInv
<1>2. QED BY <1>1, TypesHold, PTL

\* What the agent's loop (main.rs run, dispatch, finalize_all) does to the tree
\* is a behaviour of ProcessTree: what its theorems say of any events holds of
\* the events that the ring delivers.
THEOREM TreeIsFed == Spec => Tree!Spec
<1>1. Init => Tree!Init
  BY DEF Init
<1>2. TInv /\ [Next]_vars => [Tree!Next]_(Tree!vars)
  <2> SUFFICES ASSUME TInv, [Next]_vars PROVE [Tree!Next]_(Tree!vars)
    OBVIOUS
  <2>1. CASE Dispatch
    BY <2>1, DispatchFeeds
  <2>2. CASE Finalize
    BY <2>2 DEF Finalize, Tree!Next
  <2>3. CASE Kernel \/ DrainDone \/ Tick \/ Stopped \/ Signal \/ UNCHANGED vars
    BY <2>3 DEF Kernel, DrainDone, Tick, Stopped, Signal, vars, agentVars, treeVars,
                Tree!vars
  <2>4. QED BY <2>1, <2>2, <2>3 DEF Next, Agent
<1>3. QED BY <1>1, <1>2, TypesHold, PTL DEF Spec, Tree!Spec

\* A reported exit code (observe.rs on_exit) is one that a thread of the root's
\* own process passed to exit_group, never that of an earlier owner of its pid.
THEOREM ExitCodesAreOwn == Spec => ExitCodeIsOwn
<1>1. CInv /\ [Next]_vars =>
         [Dispatch => \A op \in emitted' :
            op.exit_code # None => op.exit_code \in Head1.src.asked]_vars
  BY DispatchStep
<1>2. QED BY <1>1, CodesInit, CodesStep, PTL DEF Spec, ExitCodeIsOwn

\* The code that a root passed to exit_group (trace_exit_group, trace_exit) is
\* reported when its exit record closes the operation, if processes have one
\* thread and EXIT_CODES never lacks room for one more.
THEOREM ExitCodesAreReported ==
    ASSUME "threads" \notin Workload, IsFiniteSet(Pids)
    PROVE  Spec /\ []CodesHaveRoom => ExitCodeReported
<1>1. TInv /\ CodesAreKept /\ [Next]_vars =>
         [Dispatch /\ emitted' # {} /\ Head1.src.asked # {} =>
             \A op \in emitted' : op.exit_code # None]_vars
  <2> SUFFICES ASSUME TInv, CodesAreKept, Dispatch, Head1.src.asked # {},
                      NEW op \in emitted'
               PROVE  op.exit_code # None
    OBVIOUS
  <2>1. Head1.type = "exit" /\ op.exit_code = DecodeExit(Head1).exit_code
    BY ReturnedCode
  <2>2. Head1 \in Telling
    <3>1. EVENTS # <<>> /\ EVENTS \in Seq(Telling)
      BY DEF Dispatch, CodesAreKept
    <3> HIDE DEF Telling
    <3>2. QED BY <3>1 DEF Head1
  <2>3. IsOwn(Head1)
    BY TailKeeps DEF TInv, CInv, Dispatch
  <2>4. Head1.src.asked \subseteq Codes
    BY <2>2 DEF Telling, Record, ProcessExecEvent, FileAccessEvent, ProcessExitEvent, Truth
  <2>5. QED
    BY <2>1, <2>2, <2>3, <2>4, NoneAssumption DEF Telling, IsOwn, DecodeExit
<1>2. QED
  BY <1>1, CodesKeptInit, CodesKeptStep, TypesHold, PTL DEF Spec, ExitCodeReported
=============================================================================
