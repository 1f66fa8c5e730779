--------------------------- MODULE ProcessTreeProofs ---------------------------
(***************************************************************************)
(* Inv is inductive, and under it every step of ProcessTree is a step of   *)
(* OperationLedger.  Both rest on one lemma about membership (Admission).  *)
(* The bounded walk over the parents misses no tracked ancestor.           *)
(***************************************************************************)
EXTENDS ProcessTree, FiniteSetTheorems, WellFoundedInduction, NaturalsInduction, TLAPS

\* A nonempty set of naturals has a least element.
LEMMA LeastElement ==
    ASSUME NEW S, S \subseteq Nat, S # {}
    PROVE  \E k \in S : \A j \in S : k <= j
<1>1. IsWellFoundedOn(OpToRel(<, Nat), Nat)
  BY NatLessThanWellFounded
<1>2. PICK k \in S : \A j \in S : ~ (<<j, k>> \in OpToRel(<, Nat))
  BY <1>1, WFMin
<1>3. \A j \in S : j \in Nat /\ k \in Nat /\ ~ (j < k)
  BY <1>2 DEF OpToRel
<1>4. \A j \in S : k <= j
  BY <1>3
<1>5. QED
  BY <1>4

\* The walk either finds a tracked pid, the first it meets, or meets none.
LEMMA WalkFinds ==
    ASSUME NEW p \in Pids, NEW par
    PROVE  LET up == Ancestors(p, par)
           IN  \/ \E k \in 1..MaxWalk : /\ up[k] \in Pids /\ tracked[up[k]] # NoPid
                                        /\ InheritedRoot(p, par) = tracked[up[k]]
               \/ /\ InheritedRoot(p, par) = NoPid
                  /\ \A k \in 1..MaxWalk : up[k] \in Pids => tracked[up[k]] = NoPid
<1> DEFINE up == Ancestors(p, par)
           hits == {k \in 1..MaxWalk : up[k] \in Pids /\ tracked[up[k]] # NoPid}
           first == CHOOSE k \in hits : \A j \in hits : k <= j
<1>1. CASE hits = {}
  BY <1>1 DEF InheritedRoot
<1>2. CASE hits # {}
  <2>1. first \in hits
    <3>1. hits \subseteq Nat
      OBVIOUS
    <3> HIDE DEF hits
    <3>2. \E k \in hits : \A j \in hits : k <= j
      BY <1>2, <3>1, LeastElement
    <3>3. QED BY <3>2
  <2>2. InheritedRoot(p, par) = tracked[up[first]]
    BY <1>2 DEF InheritedRoot
  <2> HIDE DEF first, up
  <2>3. QED BY <2>1, <2>2 DEF up
<1>3. QED BY <1>1, <1>2

LEMMA InheritedRootType ==
    ASSUME TypeOK, NEW p \in Pids, NEW par
    PROVE  InheritedRoot(p, par) \in Pids \cup {NoPid}
BY WalkFinds DEF TypeOK

LEMMA RootOfType ==
    ASSUME TypeOK, NEW p \in Pids, NEW comm, NEW par
    PROVE  RootOf(p, comm, par) \in Pids \cup {NoPid}
BY InheritedRootType DEF RootOf, TypeOK

LEMMA NewOperationType ==
    ASSUME NEW p \in Pids, NEW comm \in Whitelist, NEW proc \in ProcSource
    PROVE  NewOperation(p, comm, proc) \in Operation
BY DEF NewOperation, Operation, ProcSource, Option, PathState, Untouched

LEMMA RecordInType ==
    ASSUME NEW op \in Operation, NEW f \in Paths, NEW a \in Accesses
    PROVE  /\ RecordIn(op, f, a) \in Operation
           /\ Ledger!Extends(op, RecordIn(op, f, a))
           /\ RecordIn(op, f, a).pids = op.pids
           /\ RecordIn(op, f, a).root_pid = op.root_pid
           /\ RecordIn(op, f, a).exit_code = op.exit_code
<1> DEFINE old == op.paths[f]
           st == Recorded(old, a)
<1>1. a \in AccessKinds
  BY AccessAssumption
<1>2. old \in PathState
  BY DEF Operation
<1>3. st \in PathState /\ Ledger!PathExtends(old, st)
  BY <1>1, <1>2 DEF Recorded, PathState, AccessKinds, Ledger!PathExtends
<1>4. \A x \in PathState : Ledger!PathExtends(x, x)
  BY DEF PathState, Ledger!PathExtends
<1>5. RecordIn(op, f, a) = [op EXCEPT !.paths = [op.paths EXCEPT ![f] = st]]
  BY DEF RecordIn
<1> HIDE DEF st
<1>6. QED
  BY <1>2, <1>3, <1>4, <1>5 DEF Operation, Ledger!Extends, Ledger!Sticky

-----------------------------------------------------------------------------
(* What one call may do to the operations before it records its event. *)

\* An operation filed under r: its root is r and among its pids, no exit code.
Filed(r, o) == o.root_pid = r /\ r \in o.pids /\ o.exit_code = None

\* ops follows from operations by one step that concerns root alone.
OneOperation(root, p, ops) ==
    /\ ops \in [Pids -> Option(Operation)]
    /\ \A q \in Pids : q # root => ops[q] = operations[q]
    /\ \A q \in Pids : ops[q] # None => Filed(q, ops[q])
    /\ \A q \in Pids : operations[q] # None =>
          ops[q] # None /\ Ledger!Extends(operations[q], ops[q])
    /\ \A q \in Pids : operations[q] = None /\ ops[q] # None =>
          q = p /\ ops[q].pids = {p}

\* An open operation extends itself.
LEMMA ExtendsReflexive ==
    ASSUME NEW o \in Operation
    PROVE  Ledger!Extends(o, o)
BY DEF Ledger!Extends, Ledger!Sticky, Ledger!PathExtends

\* Extension is transitive.
LEMMA ExtendsTransitive ==
    ASSUME NEW a \in Operation, NEW b \in Operation, NEW c \in Operation,
           Ledger!Extends(a, b), Ledger!Extends(b, c)
    PROVE  Ledger!Extends(a, c)
<1>1. \A f \in Paths : Ledger!PathExtends(a.paths[f], c.paths[f])
  <2>1. DOMAIN a.paths = Paths /\ DOMAIN b.paths = Paths
    BY DEF Operation
  <2>2. \A x, y, z \in PathState :
           Ledger!PathExtends(x, y) /\ Ledger!PathExtends(y, z)
             => Ledger!PathExtends(x, z)
    BY DEF PathState, Ledger!PathExtends
  <2>3. \A f \in Paths : /\ a.paths[f] \in PathState
                         /\ b.paths[f] \in PathState
                         /\ c.paths[f] \in PathState
    BY DEF Operation
  <2>4. QED
    BY <2>1, <2>2, <2>3 DEF Ledger!Extends
<1>2. DOMAIN a.paths = Paths
  BY DEF Operation
<1>3. QED
  BY <1>1, <1>2 DEF Ledger!Extends, Ledger!Sticky

\* Two maps over the pids with the same values are the same map.
LEMMA SameMap ==
    ASSUME NEW T, NEW f \in [Pids -> T], NEW g \in [Pids -> T],
           \A q \in Pids : f[q] = g[q]
    PROVE  f = g
OBVIOUS

\* membership touches the operation of the root it returns and no other; it
\* opens one only for the pid itself.
LEMMA Admission ==
    ASSUME Inv, NEW p \in Pids, NEW comm, NEW par, NEW proc \in ProcSource
    PROVE  OneOperation(RootOf(p, comm, par), p, Admitted(p, comm, par, proc))
<1> DEFINE root == RootOf(p, comm, par)
           ops == Admitted(p, comm, par, proc)
<1>1. /\ operations \in [Pids -> Option(Operation)]
      /\ root \in Pids \cup {NoPid}
      /\ \A q \in Pids : operations[q] # None =>
            /\ operations[q] \in Operation
            /\ Filed(q, operations[q])
            /\ tracked[q] = q
  BY RootOfType DEF Inv, TypeOK, OperationsAreFiled, OpenRootsAreTracked, Filed,
                    Option
<1>2. CASE Starts(p, comm)
  <2>1. root = p /\ ops = [operations EXCEPT ![p] = NewOperation(p, comm, proc)]
    BY <1>2 DEF RootOf, Starts, Admitted
  <2>2. operations[p] = None
    BY <1>1, <1>2, NoPidAssumption DEF Starts
  <2>3. NewOperation(p, comm, proc) \in Operation /\ Filed(p, NewOperation(p, comm, proc))
        /\ NewOperation(p, comm, proc).pids = {p}
    BY <1>2, NewOperationType DEF Starts, NewOperation, Filed
  <2>4. QED
    BY <1>1, <2>1, <2>2, <2>3, ExtendsReflexive DEF OneOperation, Option
<1>3. CASE ~Starts(p, comm) /\ tracked[p] = NoPid /\ root # NoPid
           /\ operations[root] # None
  <2> DEFINE new == [operations[root] EXCEPT !.pids = @ \cup {p}]
  <2>1. ops = [operations EXCEPT ![root] = new]
    BY <1>3 DEF Admitted
  <2>2. root \in Pids /\ operations[root] \in Operation
        /\ Filed(root, operations[root])
    BY <1>1, <1>3
  <2>3. new \in Operation /\ Filed(root, new)
        /\ Ledger!Extends(operations[root], new)
    BY <2>2 DEF Operation, Filed, Ledger!Extends, Ledger!Sticky,
                Ledger!PathExtends
  <2> HIDE DEF new
  <2>4. QED
    BY <1>1, <1>3, <2>1, <2>2, <2>3, NoneIsNoOperation, ExtendsReflexive
       DEF OneOperation, Option
<1>4. CASE ops = operations
  BY <1>1, <1>4, ExtendsReflexive DEF OneOperation
<1>5. QED
  BY <1>2, <1>3, <1>4 DEF Admitted, Starts

-----------------------------------------------------------------------------
(* Each call keeps Inv and is a step of the ledger. *)

\* What a call does: one operation at most changes, and only its own root can
\* be opened or returned.
Kept == Inv' /\ Ledger!Next

LEMMA ExecStep ==
    ASSUME Inv, NEW e \in ExecEvent, NEW proc \in ProcSource, OnExec(e, proc)
    PROVE  Kept
<1> DEFINE p == e.pid
           par == IF e.ppid = NoPid THEN parents
                  ELSE [parents EXCEPT ![p] = e.ppid]
           root == RootOf(p, e.comm, par)
           ops == Admitted(p, e.comm, par, proc)
           new == Refreshed(ops, p, proc)
<1>1. p \in Pids /\ e.ppid \in Pids \cup {NoPid}
  BY DEF ExecEvent
<1>2. /\ parents' = par
      /\ tracked' = [tracked EXCEPT ![p] = root]
      /\ operations' = new
      /\ emitted' = {}
  BY DEF OnExec
<1>3. par \in [Pids -> Pids \cup {NoPid}]
  BY <1>1 DEF Inv, TypeOK
<1>4. root \in Pids \cup {NoPid}
  BY <1>1, RootOfType DEF Inv
<1>5. OneOperation(root, p, ops)
  BY <1>1, Admission
<1>6. ops[p] # None => root = p
  <2>1. operations[p] # None => tracked[p] = p /\ root = p
    BY <1>1, NoPidAssumption DEF Inv, OpenRootsAreTracked, RootOf
  <2>2. QED
    BY <1>1, <1>5, <2>1 DEF OneOperation
<1>7. /\ new \in [Pids -> Option(Operation)]
      /\ \A q \in Pids : q # p => new[q] = ops[q]
      /\ ops[p] = None <=> new[p] = None
      /\ ops[p] # None => /\ Ledger!Extends(ops[p], new[p])
                          /\ new[p].pids = ops[p].pids
  <2> DEFINE o == [ops[p] EXCEPT
                     !.command = IfNone(@, proc.cmdline),
                     !.working_directory = IfNone(@, proc.cwd)]
  <2>1. CASE ops[p] = None
    BY <1>5, <2>1 DEF Refreshed, OneOperation
  <2>2. CASE ops[p] # None
    <3>1. ops[p] \in Operation
      BY <1>1, <1>5, <2>2 DEF OneOperation, Option
    <3>2. /\ IfNone(ops[p].command, proc.cmdline) \in Option(Commands)
          /\ IfNone(ops[p].working_directory, proc.cwd) \in Option(Commands)
      BY <3>1 DEF Operation, IfNone, ProcSource
    <3>3. o \in Operation
      BY <3>1, <3>2 DEF Operation
    <3>4. Ledger!Extends(ops[p], o) /\ o.pids = ops[p].pids
      BY <3>1 DEF Operation, Ledger!Extends, Ledger!Sticky, IfNone,
                  Ledger!PathExtends
    <3>5. new = [ops EXCEPT ![p] = o]
      BY <1>1, <1>5, <2>2 DEF Refreshed, OneOperation
    <3> HIDE DEF o, new, ops, root, par
    <3>6. QED
      BY <1>1, <1>5, <2>2, <3>3, <3>4, <3>5, NoneIsNoOperation
         DEF OneOperation, Option
  <2>3. QED
    BY <2>1, <2>2
<1> HIDE DEF new, ops, root, par
<1>8. \A q \in Pids : new[q] # None => Filed(q, new[q])
  BY <1>1, <1>5, <1>7 DEF OneOperation, Filed, Ledger!Extends
<1>9. Inv'
  <2>1. TypeOK'
    BY <1>1, <1>2, <1>3, <1>4, <1>7 DEF Inv, TypeOK
  <2>2. OperationsAreFiled'
    BY <1>2, <1>8 DEF OperationsAreFiled, Filed
  <2>3. OpenRootsAreTracked'
    <3> SUFFICES ASSUME NEW q \in Pids, new[q] # None
                 PROVE  tracked'[q] = q
      BY <1>2 DEF OpenRootsAreTracked
    <3>1. CASE q = p
      BY <1>1, <1>2, <1>6, <1>7, <3>1 DEF Inv, TypeOK
    <3>2. CASE q # p
      BY <1>1, <1>2, <1>5, <1>7, <3>2
         DEF OneOperation, Inv, TypeOK, OpenRootsAreTracked
    <3>3. QED BY <3>1, <3>2
  <2>4. QED BY <2>1, <2>2, <2>3 DEF Inv
<1>10. Ledger!Next
  <2>1. CASE root \notin Pids
    <3>1. \A q \in Pids : new[q] = operations[q]
      BY <1>1, <1>5, <1>6, <1>7, <2>1 DEF OneOperation
    <3>2. operations' = operations
      BY <1>2, <1>7, <3>1, SameMap DEF Inv, TypeOK
    <3>3. QED BY <1>2, <3>2 DEF Ledger!Next, Ledger!Ignore
  <2>2. CASE root \in Pids
    <3>1. \A q \in Pids \ {root} : operations'[q] = operations[q]
      BY <1>1, <1>2, <1>5, <1>6, <1>7 DEF OneOperation
    <3>2. CASE operations[root] # None
      <4>1. ops[root] # None /\ Ledger!Extends(operations[root], ops[root])
        BY <1>5, <2>2, <3>2 DEF OneOperation
      <4>2. new[root] # None /\ Ledger!Extends(operations[root], new[root])
        <5>1. CASE root # p
          BY <1>7, <2>2, <4>1, <5>1
        <5>2. CASE root = p
          <6>1. /\ operations[p] \in Operation
                /\ ops[p] \in Operation
                /\ new[p] \in Operation
            BY <1>1, <1>5, <1>7, <3>2, <4>1, <5>2
               DEF OneOperation, Option, Inv, TypeOK
          <6>2. QED
            BY <1>7, <4>1, <5>2, <6>1, ExtendsTransitive
        <5>3. QED BY <5>1, <5>2
      <4>3. QED
        BY <1>2, <1>7, <2>2, <3>1, <3>2, <4>2
           DEF Ledger!Next, Ledger!Grow, Ledger!IsOpen, Ledger!OthersUnchanged,
               Option
    <3>3. CASE operations[root] = None /\ new[root] = None
      <4>1. \A q \in Pids : new[q] = operations[q]
        BY <1>2, <3>1, <3>3
      <4>2. operations' = operations
        BY <1>2, <1>7, <4>1, SameMap DEF Inv, TypeOK
      <4>3. QED BY <1>2, <4>2 DEF Ledger!Next, Ledger!Ignore
    <3>4. CASE operations[root] = None /\ new[root] # None
      <4>1. new[root] \in Operation /\ Filed(root, new[root])
        BY <1>7, <1>8, <2>2, <3>4 DEF Option
      <4>2. new[root].pids = {root}
        BY <1>5, <1>6, <1>7, <2>2, <3>4 DEF OneOperation
      <4>3. QED
        BY <1>2, <2>2, <3>1, <3>4, <4>1, <4>2
           DEF Ledger!Next, Ledger!Open, Ledger!IsOpen, Ledger!OthersUnchanged,
               Filed
    <3>5. QED BY <3>2, <3>3, <3>4
  <2>3. QED BY <2>1, <2>2
<1>11. QED BY <1>9, <1>10 DEF Kept

LEMMA FileStep ==
    ASSUME Inv, NEW e \in FileEvent, NEW proc \in ProcSource, OnFile(e, proc)
    PROVE  Kept
<1> DEFINE p == e.pid
           root == RootOf(p, e.comm, parents)
           ops == Admitted(p, e.comm, parents, proc)
           new == operations'
<1>1. p \in Pids /\ e.access \in Accesses /\ e.path \in Paths
  BY DEF FileEvent
<1>2. /\ tracked' = [tracked EXCEPT ![p] = root]
      /\ new = IF root = NoPid \/ ops[root] = None THEN ops
               ELSE [ops EXCEPT ![root] = RecordIn(@, e.path, e.access)]
      /\ emitted' = {}
      /\ parents' = parents
  BY DEF OnFile
<1>3. root \in Pids \cup {NoPid}
  BY <1>1, RootOfType DEF Inv
<1>4. OneOperation(root, p, ops)
  BY <1>1, Admission
<1>5. operations[p] # None => root = p
  BY <1>1, NoPidAssumption DEF Inv, OpenRootsAreTracked, RootOf
<1> HIDE DEF new, ops, root
<1>6. /\ new \in [Pids -> Option(Operation)]
      /\ \A q \in Pids : q # root => new[q] = ops[q]
      /\ root \in Pids => (ops[root] = None <=> new[root] = None)
      /\ root \in Pids /\ ops[root] # None =>
            /\ ops[root] \in Operation
            /\ Ledger!Extends(ops[root], new[root])
            /\ Filed(root, new[root])
            /\ new[root].pids = ops[root].pids
  <2>1. CASE root = NoPid \/ ops[root] = None
    BY <1>2, <1>4, <2>1, NoPidAssumption DEF OneOperation
  <2>2. CASE root \in Pids /\ ops[root] # None
    <3> DEFINE o == RecordIn(ops[root], e.path, e.access)
    <3>1. ops[root] \in Operation /\ Filed(root, ops[root])
      BY <1>4, <2>2 DEF OneOperation, Option
    <3>2. /\ o \in Operation /\ Ledger!Extends(ops[root], o)
          /\ o.pids = ops[root].pids /\ Filed(root, o)
      BY <1>1, <3>1, RecordInType DEF Filed
    <3>3. new = [ops EXCEPT ![root] = o]
      BY <1>2, <2>2, NoPidAssumption
    <3> HIDE DEF o
    <3>4. QED
      BY <1>4, <2>2, <3>1, <3>2, <3>3, NoneIsNoOperation
         DEF OneOperation, Option
  <2>3. QED BY <1>3, <2>1, <2>2
<1>7. \A q \in Pids : new[q] # None => Filed(q, new[q])
  BY <1>4, <1>6 DEF OneOperation
<1>8. Inv'
  <2>1. TypeOK'
    BY <1>1, <1>2, <1>3, <1>6 DEF Inv, TypeOK, new
  <2>2. OperationsAreFiled'
    BY <1>7 DEF OperationsAreFiled, Filed, new
  <2>3. OpenRootsAreTracked'
    <3> SUFFICES ASSUME NEW q \in Pids, new[q] # None
                 PROVE  tracked'[q] = q
      BY DEF OpenRootsAreTracked, new
    <3>1. ops[q] # None
      BY <1>6
    <3>2. CASE q = p
      <4>1. root = p
        BY <1>4, <1>5, <3>1, <3>2 DEF OneOperation
      <4>2. QED BY <1>1, <1>2, <3>2, <4>1 DEF Inv, TypeOK
    <3>3. CASE q # p
      BY <1>1, <1>2, <1>4, <3>1, <3>3
         DEF OneOperation, Inv, TypeOK, OpenRootsAreTracked
    <3>4. QED BY <3>2, <3>3
  <2>4. QED BY <2>1, <2>2, <2>3 DEF Inv
<1>9. Ledger!Next
  <2>1. \A q \in Pids \ {root} : new[q] = operations[q]
    BY <1>4, <1>6 DEF OneOperation
  <2>2. CASE root \notin Pids \/ (operations[root] = None /\ new[root] = None)
    <3>1. \A q \in Pids : new[q] = operations[q]
      BY <2>1, <2>2
    <3>2. new = operations
      BY <1>6, <3>1, SameMap DEF Inv, TypeOK
    <3>3. QED BY <1>2, <3>2 DEF Ledger!Next, Ledger!Ignore, new
  <2>3. CASE root \in Pids /\ operations[root] # None
    <3>1. ops[root] # None /\ Ledger!Extends(operations[root], ops[root])
      BY <1>4, <2>3 DEF OneOperation
    <3>2. /\ operations[root] \in Operation
          /\ ops[root] \in Operation
          /\ new[root] \in Operation
          /\ Ledger!Extends(ops[root], new[root])
      BY <1>6, <2>3, <3>1 DEF Option, Inv, TypeOK
    <3>3. Ledger!Extends(operations[root], new[root])
      BY <3>1, <3>2, ExtendsTransitive
    <3>4. QED
      BY <1>2, <2>1, <2>3, <3>2, <3>3
         DEF Ledger!Next, Ledger!Grow, Ledger!IsOpen, Ledger!OthersUnchanged, new
  <2>4. CASE root \in Pids /\ operations[root] = None /\ new[root] # None
    <3>1. new[root] \in Operation /\ Filed(root, new[root])
      BY <1>6, <1>7, <2>4 DEF Option
    <3>2. new[root].pids = {root}
      BY <1>4, <1>6, <2>4 DEF OneOperation
    <3>3. QED
      BY <1>2, <2>1, <2>4, <3>1, <3>2
         DEF Ledger!Next, Ledger!Open, Ledger!IsOpen, Ledger!OthersUnchanged,
             Filed, new
  <2>5. QED BY <2>2, <2>3, <2>4
<1>10. QED BY <1>8, <1>9 DEF Kept

LEMMA ExitStep ==
    ASSUME Inv, NEW e \in ExitEvent, NEW proc \in ProcSource, OnExit(e, proc)
    PROVE  Kept
<1> DEFINE p == e.pid
           root == RootOf(p, e.comm, parents)
           ops == Admitted(p, e.comm, parents, proc)
           closes == root = p /\ ops[p] # None
           o == [ops[p] EXCEPT !.exit_code = e.exit_code]
<1>1. p \in Pids /\ e.exit_code \in Option(Codes)
  BY DEF ExitEvent
<1>2. /\ parents' = [parents EXCEPT ![p] = NoPid]
      /\ tracked' = [tracked EXCEPT ![p] = NoPid]
      /\ operations' = IF closes THEN [ops EXCEPT ![p] = None] ELSE ops
      /\ emitted' = IF closes THEN {o} ELSE {}
  BY DEF OnExit
<1>3. root \in Pids \cup {NoPid}
  BY <1>1, RootOfType DEF Inv
<1>4. OneOperation(root, p, ops)
  BY <1>1, Admission
<1>5. operations[p] # None => root = p
  BY <1>1, NoPidAssumption DEF Inv, OpenRootsAreTracked, RootOf
<1>6. ops[p] # None => closes
  BY <1>1, <1>4, <1>5 DEF OneOperation
<1>7. closes => o \in Operation /\ ops[p] \in Operation
  BY <1>1, <1>4 DEF OneOperation, Option, Operation
<1> HIDE DEF root, ops, o
<1>8. /\ operations' \in [Pids -> Option(Operation)]
      /\ operations'[p] = None
      /\ \A q \in Pids : q # p => operations'[q] = ops[q]
  BY <1>1, <1>2, <1>4, <1>6 DEF OneOperation, Option
<1>9. Inv'
  <2>1. TypeOK'
    BY <1>1, <1>2, <1>7, <1>8 DEF Inv, TypeOK
  <2>2. OperationsAreFiled'
    BY <1>4, <1>8 DEF OperationsAreFiled, OneOperation, Filed
  <2>3. OpenRootsAreTracked'
    BY <1>1, <1>2, <1>4, <1>8
       DEF OneOperation, Inv, TypeOK, OpenRootsAreTracked
  <2>4. QED BY <2>1, <2>2, <2>3 DEF Inv
<1>10. Ledger!Next
  <2>1. CASE closes /\ operations[p] # None
    <3>1. \A q \in Pids \ {p} : operations'[q] = operations[q]
      BY <1>4, <1>8, <2>1 DEF OneOperation
    <3>2. ops[p] = operations[p]
      BY <1>1, <2>1, NoPidAssumption
         DEF ops, Admitted, Starts, Inv, OpenRootsAreTracked
    <3>3. o.exit_code = e.exit_code
      BY <1>7, <2>1 DEF o, Operation
    <3>4. emitted' = {o} /\ o = [operations[p] EXCEPT !.exit_code = o.exit_code]
      BY <1>2, <2>1, <3>2, <3>3 DEF o
    <3>5. QED
      BY <1>1, <1>8, <2>1, <3>1, <3>4
         DEF Ledger!Next, Ledger!Close, Ledger!IsOpen, Ledger!OthersUnchanged
  <2>2. CASE closes /\ operations[p] = None
    <3>1. \A q \in Pids : operations'[q] = operations[q]
      BY <1>4, <1>8, <2>2 DEF OneOperation
    <3>2. operations' = operations
      BY <1>8, <3>1, SameMap DEF Inv, TypeOK
    <3>3. o.pids = {p} /\ o.root_pid = p /\ o \in Operation
      BY <1>1, <1>4, <1>7, <2>2 DEF OneOperation, Filed, o, Operation
    <3>4. QED
      BY <1>1, <1>2, <2>2, <3>2, <3>3
         DEF Ledger!Next, Ledger!OpenAndClose, Ledger!IsOpen
  <2>3. CASE ~closes
    <3>1. emitted' = {} /\ operations' = ops
      BY <1>2, <2>3
    <3>2. CASE root \in Pids /\ operations[root] # None
      <4>1. /\ ops[root] # None
            /\ ops[root] \in Operation
            /\ Ledger!Extends(operations[root], ops[root])
        BY <1>4, <3>2 DEF OneOperation, Option
      <4>2. \A q \in Pids \ {root} : operations'[q] = operations[q]
        BY <1>4, <3>1 DEF OneOperation
      <4>3. QED
        BY <3>1, <3>2, <4>1, <4>2
           DEF Ledger!Next, Ledger!Grow, Ledger!IsOpen, Ledger!OthersUnchanged
    <3>3. CASE ~(root \in Pids /\ operations[root] # None)
      <4>1. \A q \in Pids : ops[q] = operations[q]
        BY <1>4, <1>6, <2>3, <3>3 DEF OneOperation
      <4>2. operations' = operations
        BY <1>8, <3>1, <4>1, SameMap DEF Inv, TypeOK
      <4>3. QED BY <3>1, <4>2 DEF Ledger!Next, Ledger!Ignore
    <3>4. QED BY <3>2, <3>3
  <2>4. QED BY <2>1, <2>2, <2>3
<1>11. QED BY <1>9, <1>10 DEF Kept

LEMMA FinalizeStep ==
    ASSUME Inv, FinalizeAll
    PROVE  Kept
<1>1. Inv'
  BY DEF FinalizeAll, Inv, TypeOK, OperationsAreFiled, OpenRootsAreTracked, Option
<1>2. Ledger!Next
  BY DEF FinalizeAll, Ledger!Next, Ledger!CloseAll, Ledger!IsOpen
<1>3. QED BY <1>1, <1>2 DEF Kept

LEMMA InitHolds == Init => Inv
BY DEF Init, Inv, TypeOK, OperationsAreFiled, OpenRootsAreTracked, Option

LEMMA StepKeeps ==
    ASSUME Inv, Next
    PROVE  Kept
<1>1. CASE \E e \in ExecEvent, proc \in ProcSource : OnExec(e, proc)
  BY <1>1, ExecStep
<1>2. CASE \E e \in FileEvent, proc \in ProcSource : OnFile(e, proc)
  BY <1>2, FileStep
<1>3. CASE \E e \in ExitEvent, proc \in ProcSource : OnExit(e, proc)
  BY <1>3, ExitStep
<1>4. CASE FinalizeAll
  BY <1>4, FinalizeStep
<1>5. QED
  BY <1>1, <1>2, <1>3, <1>4 DEF Next

LEMMA StutterKeeps ==
    ASSUME Inv, UNCHANGED vars
    PROVE  Inv'
BY DEF vars, Inv, TypeOK, OperationsAreFiled, OpenRootsAreTracked

-----------------------------------------------------------------------------
(* The parent walk *)

\* The walk is what its recursive definition says: it starts at p, follows the
\* links of par and ends in NoPid.
LEMMA WalkFollowsLinks ==
    ASSUME NEW p \in Pids, NEW par \in [Pids -> Pids \cup {NoPid}]
    PROVE  LET up == Ancestors(p, par)
           IN  /\ up \in [0..MaxWalk -> Pids \cup {NoPid}] /\ up[0] = p
               /\ \A k \in 1..MaxWalk :
                     up[k] = IF up[k - 1] = NoPid THEN NoPid ELSE par[up[k - 1]]
<1> DEFINE S == Pids \cup {NoPid}
           Up(x) == IF x = NoPid THEN NoPid ELSE par[x]
           Walks(f, n) == /\ f \in [0..n -> S] /\ f[0] = p
                          /\ \A k \in 1..n : f[k] = Up(f[k - 1])
           Bad == {n \in Nat : ~ \E f : Walks(f, n)}
<1>1. \A x \in S : Up(x) \in S
  OBVIOUS
<1>2. 0 \notin Bad
  <2>1. Walks([k \in 0..0 |-> p], 0)
    OBVIOUS
  <2>2. QED BY <2>1
<1>3. ASSUME NEW n \in Nat \ {0}, n - 1 \notin Bad
      PROVE  n \notin Bad
  <2>1. n - 1 \in Nat
    OBVIOUS
  <2>2. PICK f : Walks(f, n - 1)
    BY <1>3, <2>1
  <2> DEFINE h == [k \in 0..n |-> IF k = n THEN Up(f[n - 1]) ELSE f[k]]
  <2>3. f[n - 1] \in S
    BY <2>1, <2>2
  <2> HIDE DEF Up
  <2>4. h \in [0..n -> S] /\ h[0] = p /\ h[n] = Up(f[n - 1])
    BY <1>1, <2>1, <2>2, <2>3
  <2>5. \A k \in 0..(n - 1) : h[k] = f[k]
    OBVIOUS
  <2>6. \A k \in 1..n : h[k] = Up(h[k - 1])
    <3> SUFFICES ASSUME NEW k \in 1..n PROVE h[k] = Up(h[k - 1])
      OBVIOUS
    <3> HIDE DEF h
    <3>1. CASE k = n
      BY <2>1, <2>4, <2>5, <3>1
    <3>2. CASE k # n
      <4>1. k \in 1..(n - 1) /\ k \in 0..(n - 1) /\ k - 1 \in 0..(n - 1)
        BY <3>2
      <4>2. QED BY <2>2, <2>5, <4>1
    <3>3. QED BY <3>1, <3>2
  <2> HIDE DEF h
  <2>7. Walks(h, n)
    BY <2>4, <2>6
  <2>8. QED BY <2>7
<1>4. Bad = {}
  <2> SUFFICES ASSUME Bad # {} PROVE FALSE
    OBVIOUS
  <2>1. Bad \subseteq Nat
    OBVIOUS
  <2> HIDE DEF Bad
  <2>2. PICK n \in Bad : \A m \in Bad : n <= m
    BY <2>1, LeastElement
  <2>3. n \in Nat \ {0}
    BY <1>2, <2>1, <2>2
  <2>4. n - 1 \notin Bad
    BY <2>2, <2>3
  <2>5. QED BY <1>3, <2>2, <2>3, <2>4
<1>5. PICK f : Walks(f, MaxWalk)
  BY <1>4, MaxWalkAssumption
<1> DEFINE Body(g) == [k \in 0..MaxWalk |->
                         IF k = 0 THEN p
                         ELSE IF g[k - 1] = NoPid THEN NoPid ELSE par[g[k - 1]]]
           up == Ancestors(p, par)
<1>6. f = Body(f)
  BY <1>5, MaxWalkAssumption
<1>7. up = CHOOSE g : g = Body(g)
  BY DEF Ancestors
<1> HIDE DEF Body
<1>8. up = Body(up)
  BY <1>6, <1>7
<1> USE DEF Body
<1>9. up[0] = p /\ \A k \in 1..MaxWalk : up[k] = Up(up[k - 1])
  <2> HIDE DEF up
  <2>1. QED BY <1>8, MaxWalkAssumption
<1>10. \A k \in 0..MaxWalk : up[k] \in S
  <2> DEFINE Out == {k \in 0..MaxWalk : up[k] \notin S}
  <2> SUFFICES ASSUME Out # {} PROVE FALSE
    OBVIOUS
  <2>1. Out \subseteq Nat
    OBVIOUS
  <2> HIDE DEF Out
  <2>2. PICK k \in Out : \A j \in Out : k <= j
    BY <2>1, LeastElement
  <2> USE DEF Out
  <2>3. k \in 1..MaxWalk /\ up[k] \notin S
    BY <1>9, <2>2
  <2>4. k - 1 \in 0..MaxWalk /\ ~ (k <= k - 1)
    BY <2>3, MaxWalkAssumption
  <2>5. up[k - 1] \in S
    <3>1. k - 1 \notin Out
      <4> HIDE DEF Out
      <4>1. QED BY <2>2, <2>4
    <3>2. QED BY <2>4, <3>1
  <2>6. QED BY <1>1, <1>9, <2>3, <2>5
<1>11. up \in [0..MaxWalk -> S]
  <2> HIDE DEF up
  <2>1. QED BY <1>8, <1>10
<1>12. QED BY <1>9, <1>11

\* The walk stays on the chain.
LEMMA WalkStaysOnChain ==
    ASSUME parents \in [Pids -> Pids \cup {NoPid}], NEW p \in Pids,
           NEW k \in 1..MaxWalk, Ancestors(p, parents)[k] \in Pids
    PROVE  Ancestors(p, parents)[k] \in ChainOf(p)
<1> DEFINE up == Ancestors(p, parents)
<1>1. /\ up \in [0..MaxWalk -> Pids \cup {NoPid}] /\ up[0] = p
      /\ \A j \in 1..MaxWalk :
            up[j] = IF up[j - 1] = NoPid THEN NoPid ELSE parents[up[j - 1]]
  BY WalkFollowsLinks
<1> HIDE DEF up
<1> SUFFICES ASSUME NEW S \in SUBSET Pids,
                    \A q \in S \cup {p} : parents[q] \in S \cup {NoPid},
                    up[k] \notin S
             PROVE  FALSE
  BY DEF ChainOf, up
<1> DEFINE Out == {j \in 1..MaxWalk : up[j] \in Pids \ S}
<1>2. Out \subseteq Nat /\ Out # {}
  BY DEF up
<1> HIDE DEF Out
<1>3. PICK j \in Out : \A i \in Out : j <= i
  BY <1>2, LeastElement
<1> USE DEF Out
<1>4. /\ j \in 1..MaxWalk /\ up[j] \in Pids \ S /\ j - 1 \in 0..MaxWalk
      /\ up[j - 1] # NoPid /\ up[j] = parents[up[j - 1]]
  BY <1>1, <1>3, MaxWalkAssumption, NoPidAssumption
<1>5. up[j - 1] \in S \cup {p}
  <2>1. CASE j = 1
    BY <1>1, <2>1
  <2>2. CASE j # 1
    <3>1. j - 1 \in 1..MaxWalk /\ ~ (j <= j - 1)
      BY <1>4, <2>2, MaxWalkAssumption
    <3>2. j - 1 \notin Out
      <4> HIDE DEF Out
      <4>1. QED BY <1>3, <3>1
    <3>3. QED BY <1>1, <1>4, <3>1, <3>2
  <2>3. QED BY <2>1, <2>2
<1>6. QED BY <1>4, <1>5, NoPidAssumption

\* A walk that ends, or that comes back to where it was, has seen the chain.
LEMMA WalkSeesChain ==
    ASSUME parents \in [Pids -> Pids \cup {NoPid}], NEW p \in Pids,
           NEW n \in 0..MaxWalk,
           LET up == Ancestors(p, parents)
           IN  /\ \A m \in 0..n : up[m] \in Pids
               /\ parents[up[n]] \in {up[m] : m \in 0..n} \cup {NoPid}
    PROVE  ChainOf(p) \subseteq {Ancestors(p, parents)[m] : m \in 0..n}
<1> DEFINE up == Ancestors(p, parents)
           S == {up[m] : m \in 0..n}
<1>1. /\ up[0] = p
      /\ \A j \in 1..MaxWalk :
            up[j] = IF up[j - 1] = NoPid THEN NoPid ELSE parents[up[j - 1]]
  BY WalkFollowsLinks
<1> HIDE DEF up
<1>2. /\ \A m \in 0..n : up[m] \in Pids
      /\ parents[up[n]] \in S \cup {NoPid}
  BY DEF up
<1>3. S \subseteq Pids /\ p \in S
  BY <1>1, <1>2, MaxWalkAssumption
<1>4. ASSUME NEW m \in 0..n PROVE parents[up[m]] \in S \cup {NoPid}
  <2>1. CASE m = n
    BY <1>2, <2>1
  <2>2. CASE m # n
    <3>1. m + 1 \in 0..n /\ m + 1 \in 1..MaxWalk /\ (m + 1) - 1 = m
      BY <2>2, MaxWalkAssumption
    <3>2. up[m + 1] = parents[up[m]]
      BY <1>1, <1>2, <3>1, NoPidAssumption
    <3>3. QED BY <3>1, <3>2
  <2>3. QED BY <2>1, <2>2
<1>5. \A q \in S \cup {p} : parents[q] \in S \cup {NoPid}
  BY <1>3, <1>4
<1> HIDE DEF S
<1>6. ChainOf(p) \subseteq S
  BY <1>3, <1>5 DEF ChainOf
<1>7. QED BY <1>6 DEF S, up

\* If a tracked pid is on the chain the walk finds one, unless the chain is
\* longer than the walk.
LEMMA WalkFindsTracked ==
    ASSUME IsFiniteSet(Pids), TypeOK, NEW p \in Pids, tracked[p] = NoPid,
           NEW q \in ChainOf(p), tracked[q] # NoPid,
           Cardinality(ChainOf(p) \ {p}) <= MaxWalk
    PROVE  InheritedRoot(p, parents) # NoPid
<1> DEFINE up == Ancestors(p, parents)
           chain == ChainOf(p)
<1> SUFFICES ASSUME InheritedRoot(p, parents) = NoPid PROVE FALSE
  OBVIOUS
<1>1. /\ up \in [0..MaxWalk -> Pids \cup {NoPid}] /\ up[0] = p
      /\ \A k \in 1..MaxWalk :
            up[k] = IF up[k - 1] = NoPid THEN NoPid ELSE parents[up[k - 1]]
  BY WalkFollowsLinks DEF TypeOK
<1>2. \A k \in 1..MaxWalk : up[k] \in Pids => tracked[up[k]] = NoPid
  BY WalkFinds, NoPidAssumption DEF TypeOK
<1>3. \A k \in 1..MaxWalk : up[k] \in Pids => up[k] \in chain
  BY WalkStaysOnChain DEF TypeOK
<1>4. \A n \in 0..MaxWalk :
         /\ \A m \in 0..n : up[m] \in Pids
         /\ parents[up[n]] \in {up[m] : m \in 0..n} \cup {NoPid}
         => q \in {up[m] : m \in 0..n}
  BY WalkSeesChain DEF TypeOK
<1> HIDE DEF up
<1>5. \A m \in 0..MaxWalk : up[m] # q
  <2> SUFFICES ASSUME NEW m \in 0..MaxWalk PROVE up[m] # q
    OBVIOUS
  <2>1. CASE m = 0
    BY <1>1, <2>1
  <2>2. CASE m # 0
    <3>1. m \in 1..MaxWalk
      BY <2>2, MaxWalkAssumption
    <3>2. q \in Pids
      BY DEF ChainOf
    <3>3. QED BY <1>2, <3>1, <3>2
  <2>3. QED BY <2>1, <2>2
<1>6. \A n \in 0..MaxWalk :
         ~ (/\ \A m \in 0..n : up[m] \in Pids
            /\ parents[up[n]] \in {up[m] : m \in 0..n} \cup {NoPid})
  BY <1>4, <1>5, MaxWalkAssumption
<1>7. \A n \in 0..MaxWalk : up[n] \in Pids
  <2> DEFINE Out == {n \in 0..MaxWalk : up[n] = NoPid}
  <2> SUFFICES ASSUME Out # {} PROVE FALSE
    BY <1>1
  <2>1. Out \subseteq Nat
    OBVIOUS
  <2> HIDE DEF Out
  <2>2. PICK n \in Out : \A m \in Out : n <= m
    BY <2>1, LeastElement
  <2> USE DEF Out
  <2>3. n \in 1..MaxWalk /\ up[n] = NoPid /\ n - 1 \in 0..MaxWalk
    BY <1>1, <2>2, MaxWalkAssumption, NoPidAssumption
  <2>4. \A m \in 0..(n - 1) : up[m] \in Pids
    <3> SUFFICES ASSUME NEW m \in 0..(n - 1) PROVE up[m] \in Pids
      OBVIOUS
    <3>1. m \in 0..MaxWalk /\ ~ (n <= m)
      BY <2>3, MaxWalkAssumption
    <3>2. m \notin Out
      <4> HIDE DEF Out
      <4>1. QED BY <2>2, <3>1
    <3>3. QED BY <1>1, <3>1, <3>2
  <2>5. parents[up[n - 1]] = NoPid
    BY <1>1, <2>3, <2>4, NoPidAssumption
  <2>6. QED BY <1>6, <2>3, <2>4, <2>5
<1>8. \A i, j \in 0..MaxWalk : i < j => up[i] # up[j]
  <2> SUFFICES ASSUME NEW i \in 0..MaxWalk, NEW j \in 0..MaxWalk, i < j, up[i] = up[j]
               PROVE  FALSE
    OBVIOUS
  <2>1. /\ j \in 1..MaxWalk /\ j - 1 \in 0..MaxWalk /\ i \in 0..(j - 1)
        /\ \A m \in 0..(j - 1) : m \in 0..MaxWalk
    BY MaxWalkAssumption
  <2>2. parents[up[j - 1]] = up[i]
    BY <1>1, <1>7, <2>1, NoPidAssumption
  <2>3. QED BY <1>6, <1>7, <2>1, <2>2
<1>9. QED
  <2> DEFINE rest == (chain \ {p}) \ {q}
             seen == rest \cup {p}
             idx == 0..MaxWalk
  <2>1. q \in chain \ {p} /\ chain \subseteq Pids
    BY <1>1, <1>5, MaxWalkAssumption DEF ChainOf
  <2>2. IsFiniteSet(chain \ {p})
    BY <2>1, FS_Subset
  <2> HIDE DEF chain
  <2>3. /\ IsFiniteSet(rest) /\ Cardinality(rest) = Cardinality(chain \ {p}) - 1
        /\ Cardinality(chain \ {p}) \in Nat
    BY <2>1, <2>2, FS_RemoveElement, FS_CardinalityType
  <2>4. IsFiniteSet(seen) /\ Cardinality(seen) = Cardinality(rest) + 1
    <3>1. p \notin rest
      OBVIOUS
    <3> HIDE DEF rest
    <3>2. QED BY <2>3, <3>1, FS_AddElement
  <2>5. IsFiniteSet(idx) /\ Cardinality(idx) = MaxWalk + 1
    BY FS_Interval, MaxWalkAssumption
  <2>6. up \in [idx -> seen]
    <3> SUFFICES ASSUME NEW k \in idx PROVE up[k] \in seen
      BY <1>1
    <3>1. CASE k = 0
      BY <1>1, <3>1
    <3>2. CASE k # 0
      <4>1. k \in 1..MaxWalk
        BY <3>2, MaxWalkAssumption
      <4>2. up[k] \in chain /\ up[k] # q
        BY <1>3, <1>5, <1>7, <4>1 DEF chain
      <4>3. QED BY <4>2
    <3>3. QED BY <3>1, <3>2
  <2>7. Cardinality(seen) < Cardinality(idx)
    BY <2>3, <2>4, <2>5, MaxWalkAssumption DEF chain
  <2> HIDE DEF seen, rest
  <2>8. \E x, y \in idx : x # y /\ up[x] = up[y]
    <3> HIDE DEF idx
    <3>1. QED BY <2>4, <2>5, <2>6, <2>7, FS_PigeonHole
  <2>9. QED BY <1>8, <2>8, MaxWalkAssumption

-----------------------------------------------------------------------------
(* The theorems. *)

LEMMA InvariantHolds == Spec => []Inv
<1>1. Inv /\ [Next]_vars => Inv'
  BY StepKeeps, StutterKeeps DEF Kept
<1>2. QED
  BY <1>1, InitHolds, PTL DEF Spec

\* Whatever events reach the tree, every map of observe.rs keeps to its types.
THEOREM TypeCorrect == Spec => []TypeOK
<1>1. Inv => TypeOK
  BY DEF Inv
<1>2. QED BY <1>1, InvariantHolds, PTL

\* The root of every open operation is tracked to itself, so membership
\* (observe.rs) never replaces an open operation.
THEOREM OpenRootsStayTracked == Spec => []OpenRootsAreTracked
<1>1. Inv => OpenRootsAreTracked
  BY DEF Inv
<1>2. QED BY <1>1, InvariantHolds, PTL

\* Every open operation is filed under its root pid, has its root among its
\* pids and has no exit code yet.
THEOREM OperationsStayFiled == Spec => []OperationsAreFiled
<1>1. Inv => OperationsAreFiled
  BY DEF Inv
<1>2. QED BY <1>1, InvariantHolds, PTL

\* on_exec, on_file, on_exit and finalize_all keep the promise of the ledger:
\* one operation per call, nothing accumulated is lost, each operation is
\* returned once and complete.
THEOREM TreeKeepsTheLedger == Spec => KeepsTheLedger
<1>1. Init => Ledger!Init
  BY DEF Init, Ledger!Init
<1>2. Inv /\ [Next]_vars => [Ledger!Next]_(Ledger!vars)
  <2>1. Inv /\ Next => Ledger!Next
    BY StepKeeps DEF Kept
  <2>2. UNCHANGED vars => UNCHANGED Ledger!vars
    BY DEF vars, Ledger!vars
  <2>3. QED BY <2>1, <2>2
<1>3. QED
  BY <1>1, <1>2, InvariantHolds, PTL DEF Spec, KeepsTheLedger, Ledger!Spec

\* membership's walk up the parents (observe.rs) misses nobody: for any tree of
\* parents, cycles included, whose chains are no longer than the walk.
THEOREM WalkMissesNobody ==
    ASSUME IsFiniteSet(Pids)
    PROVE  Spec => []WalkIsComplete
<1>1. TypeOK => WalkIsComplete
  <2> SUFFICES ASSUME TypeOK, NEW p \in Pids, tracked[p] = NoPid
               PROVE  LET root == InheritedRoot(p, parents)
                          roots == {tracked[q] : q \in ChainOf(p)} \ {NoPid}
                      IN  /\ root \in roots \cup {NoPid}
                          /\ roots # {} /\ Cardinality(ChainOf(p) \ {p}) <= MaxWalk =>
                                root # NoPid
    BY DEF WalkIsComplete
  <2>1. \/ \E q \in ChainOf(p) : InheritedRoot(p, parents) = tracked[q]
        \/ InheritedRoot(p, parents) = NoPid
    BY WalkFinds, WalkStaysOnChain DEF TypeOK
  <2>2. QED BY <2>1, WalkFindsTracked
<1>2. QED BY <1>1, TypeCorrect, PTL
=============================================================================
