---------------------------- MODULE AssemblyProofs ----------------------------
(***************************************************************************)
(* What an operation reports of its files, for any processes, files, names *)
(* and calls side by side, with calls that fail, records that are lost and *)
(* working directories other than the root's.  FInv says of each file that *)
(* the records do not mislead about what the properties say of the sets    *)
(* classified at the end, of calls that have been reported and not yet     *)
(* taken effect as of those that have; it has to add that a deleted name   *)
(* whose file is there is made up for by another (DeletedIsOutput) and     *)
(* that a file about to be created is an output already (CreatedIsOutput). *)
(***************************************************************************)
EXTENDS Assembly, TLAPS

\* A call that is reported, unless it is an unlink, and has not returned.
Touches(c, f) == c # None /\ c.left = {} /\ c.op # "unlink" /\ c.to = f

Writes(c) ==
    \/ c.op \in {"rename", "truncate"}
    \/ c.op = "open" /\ ClassifyOpen(c.flags) # "read"

IsTouched(f) == \E p \in Procs : Touches(calls[p], f)
IsBeingWritten(f) == \E p \in Procs : Touches(calls[p], f) /\ Writes(calls[p])
IsBeingCreated(f) == \E p \in Procs : Touches(calls[p], f) /\ Creates(calls[p])

\* What some name of a file says of it.
Marked(f) == \E n \in Names : ResolveAgainst(n) = f /\ paths[n].wrote
Output(f) == \E n \in Names : ResolveAgainst(n) = f /\ IsOutput(paths[n])
Kept(f) == \E n \in Names : ResolveAgainst(n) = f
                           /\ (IsInput(paths[n]) \/ IsOutput(paths[n]))

WrittenIsMarked(f) == f \in hasWritten \/ IsBeingWritten(f) => Marked(f)

PresentIsOutput(f) ==
    exists[f] /\ ~Deleting(f) /\ (f \in hasWritten \/ IsBeingWritten(f)) => Output(f)

PresentIsRecorded(f) ==
    exists[f] /\ ~Deleting(f) /\ (f \in hasRead \/ IsTouched(f)) => Kept(f)

DeletedIsOutput(f) ==
    exists[f] /\ ~Deleting(f)
    /\ (\E n \in Names : ResolveAgainst(n) = f /\ paths[n].deleted) => Output(f)

CreatedIsOutput(f) == IsBeingCreated(f) => Output(f)

Told(f) ==
    /\ WrittenIsMarked(f) /\ PresentIsOutput(f) /\ PresentIsRecorded(f)
    /\ DeletedIsOutput(f) /\ CreatedIsOutput(f)

\* A call has one file unless it is a rename, and has the second record of a
\* rename left as long as it has any.
Formed(c) ==
    /\ c \in Call
    /\ c.op = "rename" <=> c.file # c.to
    /\ \E old, new \in Names :
          /\ c.left \subseteq Reports(c.op, c.flags, old, new)
          /\ c.op = "rename" /\ c.left # {} => <<new, "create">> \in c.left

FInv ==
    /\ TypeOK
    /\ \A p \in Procs : calls[p] # None => Formed(calls[p])
    /\ \A f \in Files \ misled : Told(f)

-----------------------------------------------------------------------------
(* Path states, names and calls *)

LEMMA RecordedState ==
    ASSUME NEW st \in PathState, NEW access \in AccessKinds
    PROVE  /\ Recorded(st, access) \in PathState
           /\ st.wrote => Recorded(st, access).wrote
           /\ access = "read" =>
                 Recorded(st, access) = [st EXCEPT !.read = TRUE]
           /\ access = "delete" => Recorded(st, access).wrote = st.wrote
           /\ access \in {"write", "create", "truncate"} =>
                 IsOutput(Recorded(st, access))
BY DEF PathState, AccessKinds, Recorded, IsOutput

LEMMA NamesResolve ==
    ASSUME NEW n \in Names, NEW cwd \in Cwds \cup {Root}
    PROVE  Target(n, cwd) \in Files /\ ResolveAgainst(n) \in Files
<1>1. cwd \in Dirs /\ Root \in Dirs
  BY DirsAssumption
<1>2. n \in (Dirs \cup {Relative}) \X Bases
  BY NamesAssumption
<1>3. QED BY <1>1, <1>2 DEF Target, ResolveAgainst, Files

LEMMA OpenIsNoDelete ==
    ASSUME NEW flags \in OpenFlags
    PROVE  /\ ClassifyOpen(flags) \in {"read", "write", "create"}
           /\ ClassifyOpen(flags) = "read" <=> ~flags.creat /\ flags.mode = "r"
BY DEF ClassifyOpen, OpenFlags

\* What a record says of the call it reports, and what the call has left.
LEMMA ReportedCall ==
    ASSUME NEW c, Formed(c), NEW report \in c.left,
           \A r \in c.left : r[2] = "delete" => report[2] = "delete"
    PROVE  LET d == [c EXCEPT !.left = @ \ {report}]
           IN  /\ Formed(d)
               /\ d.op = c.op /\ d.file = c.file /\ d.to = c.to /\ d.flags = c.flags
               /\ report[1] \in Names /\ report[2] \in AccessKinds
               /\ report[2] = "delete" =>
                     Deletes(c) /\ (c.op = "rename" => d.left # {})
               /\ report[2] = "read" => ~Writes(c) /\ ~Creates(c)
<1> DEFINE d == [c EXCEPT !.left = @ \ {report}]
<1>1. /\ c \in Call /\ c.flags \in OpenFlags
      /\ c.op \in {"open", "rename", "unlink", "truncate"}
      /\ c.left \subseteq Names \X AccessKinds
  BY DEF Formed, Call
<1>2. PICK old \in Names, new \in Names :
         /\ c.left \subseteq Reports(c.op, c.flags, old, new)
         /\ c.op = "rename" /\ c.left # {} => <<new, "create">> \in c.left
  BY DEF Formed
<1>3. /\ d \in Call /\ d.left = c.left \ {report}
      /\ d.op = c.op /\ d.file = c.file /\ d.to = c.to /\ d.flags = c.flags
  BY <1>1 DEF Call
<1>4. report[1] \in Names /\ report[2] \in AccessKinds
  BY <1>1
<1>5. CASE c.op = "rename"
  <2>1. Reports(c.op, c.flags, old, new) = {<<old, "delete">>, <<new, "create">>}
    BY <1>5 DEF Reports
  <2>2. CASE report = <<old, "delete">>
    <3>1. <<new, "create">> \in d.left
      BY <1>2, <1>3, <1>5, <2>2
    <3>2. QED
      BY <1>2, <1>3, <1>4, <1>5, <2>2, <3>1 DEF Formed, Deletes, Writes
  <2>3. CASE report = <<new, "create">>
    <3>1. d.left = {}
      BY <1>2, <1>3, <2>1, <2>3
    <3>2. QED BY <1>2, <1>3, <1>4, <2>3, <3>1 DEF Formed
  <2>4. QED BY <1>2, <2>1, <2>2, <2>3
<1>6. CASE c.op # "rename"
  <2>1. Formed(d)
    BY <1>2, <1>3, <1>6 DEF Formed
  <2>2. report[2] = "delete" => Deletes(c)
    BY <1>1, <1>2, <1>6, OpenIsNoDelete DEF Reports, Deletes
  <2>3. report[2] = "read" => ~Writes(c) /\ ~Creates(c)
    BY <1>1, <1>2, <1>6, OpenIsNoDelete DEF Reports, Writes, Creates
  <2>4. QED BY <1>3, <1>4, <1>6, <2>1, <2>2, <2>3
<1>7. QED BY <1>5, <1>6

-----------------------------------------------------------------------------
(* Records *)

\* An output is all that is asked of a file.
LEMMA OutputIsTold == ASSUME NEW f, Output(f) PROVE Told(f)
<1>1. Marked(f) /\ Kept(f)
  BY DEF Output, Marked, Kept, IsOutput
<1>2. QED
  BY <1>1 DEF Told, WrittenIsMarked, PresentIsOutput, PresentIsRecorded,
              DeletedIsOutput, CreatedIsOutput

\* A record, seen or lost, of a call that p enters or is in.
LEMMA SendsStep ==
    ASSUME FInv, NEW p \in Procs, NEW c, Formed(c),
           calls[p] = None \/ (calls[p] = c /\ c.left # {}),
           Sends(p, c), UNCHANGED truth
    PROVE  FInv'
<1>0. exists' = exists /\ hasRead' = hasRead /\ hasWritten' = hasWritten
  BY DEF truth
<1>1. PICK report \in c.left, lost \in {FALSE, Lossy} :
         LET file == IF report[2] = "delete" THEN c.file ELSE c.to
         IN  /\ \A r \in c.left : r[2] = "delete" => report[2] = "delete"
             /\ calls' = [calls EXCEPT ![p] = [c EXCEPT !.left = @ \ {report}]]
             /\ IF lost THEN UNCHANGED paths ELSE Observe(report[1], report[2])
             /\ misled' = Misled(p, report[2], file, ResolveAgainst(report[1]), lost)
  BY DEF Sends
<1> DEFINE n == report[1]
           access == report[2]
           file == IF access = "delete" THEN c.file ELSE c.to
           seen == ResolveAgainst(n)
           d == [c EXCEPT !.left = @ \ {report}]
<1>2. /\ Formed(d) /\ d.op = c.op /\ d.file = c.file /\ d.to = c.to
      /\ d.flags = c.flags /\ n \in Names /\ access \in AccessKinds
      /\ access = "delete" => Deletes(c) /\ (c.op = "rename" => d.left # {})
      /\ access = "read" => ~Writes(c) /\ ~Creates(c)
  BY <1>1, ReportedCall
<1>3. /\ d \in Call /\ d # None /\ c.file \in Files /\ c.to \in Files
      /\ c.op \in {"open", "rename", "unlink", "truncate"}
  BY <1>2, NoCallAssumption DEF Formed, Call
<1>4. /\ calls' \in [Procs -> Call \cup {None}] /\ calls'[p] = d
      /\ \A q \in Procs \ {p} : calls'[q] = calls[q]
  BY <1>1, <1>3 DEF FInv, TypeOK
<1>5. /\ paths' \in [Names -> PathState]
      /\ \A m \in Names \ {n} : paths'[m] = paths[m]
      /\ lost => paths' = paths
      /\ ~lost => paths'[n] = Recorded(paths[n], access)
  <2>1. paths \in [Names -> PathState] /\ Recorded(paths[n], access) \in PathState
    BY <1>2, RecordedState DEF FInv, TypeOK
  <2>2. QED BY <1>1, <1>2, <2>1 DEF Observe
<1>6. seen \in Files /\ file \in Files
  BY <1>2, <1>3, NamesResolve
<1>7. TypeOK'
  <2>1. misled' \subseteq Files
    BY <1>1, <1>6 DEF Misled, FInv, TypeOK
  <2>2. QED BY <1>4, <1>5, <2>1 DEF FInv, TypeOK, truth
<1>8. \A q \in Procs : calls'[q] # None => Formed(calls'[q])
  BY <1>2, <1>4 DEF FInv
\* The touched, written and deleted files.
<1>9. \A f : Deleting(f) => Deleting(f)'
  BY <1>2, <1>3, <1>4 DEF Deleting, Deletes
<1>10. \A f : \A q \in Procs : Touches(calls'[q], f) =>
          \/ q # p /\ Touches(calls[q], f)
          \/ q = p /\ access # "delete" /\ f = c.to
  BY <1>2, <1>4 DEF Touches, Deletes
<1>11. \A f \in Files \ misled' : Told(f)'
  <2> SUFFICES ASSUME NEW f \in Files, f \notin misled' PROVE Told(f)'
    OBVIOUS
  <2>1. CASE lost \/ f # seen
    <3>1. f \notin misled
      BY <1>1, <2>1 DEF Misled
    <3>2. Told(f)
      BY <3>1 DEF FInv
    <3>3. \A m \in Names : ResolveAgainst(m) = f => paths'[m] = paths[m]
      BY <1>5, <2>1
    <3>4. access # "delete" => f # c.to
      <4>1. CASE access = "delete"
        BY <4>1
      <4>2. CASE access # "delete"
        <5>1. file = c.to
          BY <4>2
        <5>2. misled' = (IF lost \/ access = "read" THEN misled ELSE misled \ {seen})
                        \cup (IF lost \/ seen # file THEN {file} ELSE {})
          BY <1>1, <4>2 DEF Misled
        <5>3. QED BY <2>1, <5>1, <5>2
      <4>3. QED BY <4>1, <4>2
    <3>5. /\ IsTouched(f)' => IsTouched(f)
          /\ IsBeingWritten(f)' => IsBeingWritten(f)
          /\ IsBeingCreated(f)' => IsBeingCreated(f)
      BY <1>4, <1>10, <3>4 DEF IsTouched, IsBeingWritten, IsBeingCreated
    <3>6. (Marked(f) => Marked(f)') /\ (Output(f) => Output(f)') /\ (Kept(f) => Kept(f)')
      BY <3>3 DEF Marked, Output, Kept
    <3>7. WrittenIsMarked(f)' /\ CreatedIsOutput(f)'
      BY <1>0, <3>2, <3>5, <3>6 DEF Told, WrittenIsMarked, CreatedIsOutput
    <3>8. PresentIsOutput(f)' /\ PresentIsRecorded(f)'
      BY <1>0, <1>9, <3>2, <3>5, <3>6 DEF Told, PresentIsOutput, PresentIsRecorded
    <3>9. DeletedIsOutput(f)'
      BY <1>0, <1>9, <3>2, <3>3, <3>6 DEF Told, DeletedIsOutput
    <3>10. QED BY <3>7, <3>8, <3>9 DEF Told
  <2>2. CASE ~lost /\ f = seen /\ access = "delete"
    <3>1. f \notin misled /\ f = c.file /\ f \notin InCreation(p)
      BY <1>1, <2>2 DEF Misled
    <3>2. Told(f)
      BY <3>1 DEF FInv
    <3>3. Deleting(f)'
      BY <1>2, <1>3, <1>4, <2>2, <3>1 DEF Deleting, Deletes
    <3>4. /\ IsBeingWritten(f)' => IsBeingWritten(f)
          /\ ~IsBeingCreated(f)'
      <4>1. \A q \in Procs : Touches(calls'[q], f) => q # p /\ Touches(calls[q], f)
        BY <1>10, <2>2
      <4>2. \A q \in Procs \ {p} : Touches(calls[q], f) => ~Creates(calls[q])
        BY <3>1 DEF InCreation, Touches
      <4>3. QED BY <1>4, <4>1, <4>2 DEF IsBeingWritten, IsBeingCreated
    <3>5. Marked(f) => Marked(f)'
      <4>1. paths'[n].wrote = paths[n].wrote
        BY <1>2, <1>5, <2>2, RecordedState DEF FInv, TypeOK
      <4>2. QED BY <1>5, <4>1 DEF Marked
    <3>6. WrittenIsMarked(f)' /\ CreatedIsOutput(f)'
      BY <1>0, <3>2, <3>4, <3>5 DEF Told, WrittenIsMarked, CreatedIsOutput
    <3>7. QED
      BY <3>3, <3>6
         DEF Told, PresentIsOutput, PresentIsRecorded, DeletedIsOutput
  <2>3. CASE ~lost /\ f = seen /\ access = "read"
    <3>1. f \notin misled
      BY <1>1, <2>3 DEF Misled
    <3>2. Told(f)
      BY <3>1 DEF FInv
    <3>3. /\ paths'[n].wrote = paths[n].wrote /\ paths'[n].deleted = paths[n].deleted
          /\ paths'[n].read
      <4>1. paths[n] \in PathState
        BY <1>2 DEF FInv, TypeOK
      <4>2. paths'[n] = [paths[n] EXCEPT !.read = TRUE]
        BY <1>2, <1>5, <2>3, <4>1, RecordedState
      <4>3. QED BY <4>1, <4>2 DEF PathState
    <3>4. (Marked(f) => Marked(f)') /\ (Output(f) => Output(f)')
      BY <1>5, <3>3 DEF Marked, Output, IsOutput
    <3>5. /\ IsBeingWritten(f)' => IsBeingWritten(f)
          /\ IsBeingCreated(f)' => IsBeingCreated(f)
      <4>1. ~Writes(calls'[p]) /\ ~Creates(calls'[p])
        BY <1>2, <1>4, <2>3 DEF Writes, Creates
      <4>2. QED BY <1>4, <1>10, <4>1 DEF IsBeingWritten, IsBeingCreated
    <3>6. DeletedIsOutput(f)'
      BY <1>5, <1>9, <3>2, <3>3, <3>4 DEF Told, DeletedIsOutput, truth
    <3>7. PresentIsRecorded(f)'
      <4> SUFFICES ASSUME exists'[f], ~Deleting(f)' PROVE Kept(f)'
        BY DEF PresentIsRecorded
      <4>1. CASE paths'[n].deleted
        BY <1>2, <2>3, <3>6, <4>1 DEF DeletedIsOutput, Output, Kept
      <4>2. CASE ~paths'[n].deleted
        BY <1>2, <2>3, <3>3, <4>2 DEF Kept, IsInput, IsOutput
      <4>3. QED BY <4>1, <4>2
    <3>8. QED
      BY <1>9, <3>2, <3>4, <3>5, <3>6, <3>7
         DEF Told, WrittenIsMarked, PresentIsOutput, CreatedIsOutput, truth
  <2>4. CASE ~lost /\ f = seen /\ access \notin {"delete", "read"}
    <3>1. access \in {"write", "create", "truncate"}
      BY <1>2, <2>4 DEF AccessKinds
    <3>2. IsOutput(paths'[n])
      BY <1>2, <1>5, <2>4, <3>1, RecordedState DEF FInv, TypeOK
    <3>3. Output(f)'
      BY <1>2, <2>4, <3>2 DEF Output
    <3>4. Marked(f)' /\ Kept(f)'
      BY <3>3 DEF Output, Marked, Kept, IsOutput
    <3>5. QED
      BY <3>3, <3>4 DEF Told, WrittenIsMarked, PresentIsOutput, PresentIsRecorded,
                        DeletedIsOutput, CreatedIsOutput
  <2>5. QED BY <2>1, <2>2, <2>3, <2>4
<1>12. QED BY <1>7, <1>8, <1>11 DEF FInv

-----------------------------------------------------------------------------
(* Calls that return *)

\* What is asked of the effect of a call that returns: a file is there, read or
\* written if it was or if the call was to make it so, and gone if the call was
\* to delete it, unless the records mislead about it.
TakesEffect(c) ==
    \A f \in Files \ misled' :
        /\ exists'[f] => (exists[f] \/ (Creates(c) /\ c.to = f))
                         /\ ~(Deletes(c) /\ c.file = f)
        /\ f \in hasRead' => f \in hasRead \/ Touches(c, f)
        /\ f \in hasWritten' => f \in hasWritten \/ (Touches(c, f) /\ Writes(c))

LEMMA ReturnStep ==
    ASSUME FInv, NEW p \in Procs, NEW op, Returns(p, op), TypeOK',
           misled \subseteq misled', TakesEffect(calls[p])
    PROVE  FInv'
<1> DEFINE c == calls[p]
<1>1. /\ c # None /\ c.op = op /\ c.left = {} /\ paths' = paths
      /\ calls'[p] = None /\ \A q \in Procs \ {p} : calls'[q] = calls[q]
  BY DEF Returns, FInv, TypeOK
<1>2. \A q \in Procs : calls'[q] # None => Formed(calls'[q])
  BY <1>1 DEF FInv
<1>3. \A f \in Files \ misled' : Told(f)'
  <2> SUFFICES ASSUME NEW f \in Files, f \notin misled' PROVE Told(f)'
    OBVIOUS
  <2>1. Told(f)
    BY DEF FInv
  <2>2. /\ exists'[f] => (exists[f] \/ (Creates(c) /\ c.to = f))
                         /\ ~(Deletes(c) /\ c.file = f)
        /\ f \in hasRead' => f \in hasRead \/ Touches(c, f)
        /\ f \in hasWritten' => f \in hasWritten \/ (Touches(c, f) /\ Writes(c))
    BY DEF TakesEffect
  <2>3. /\ IsTouched(f)' => IsTouched(f)
        /\ IsBeingWritten(f)' => IsBeingWritten(f)
        /\ IsBeingCreated(f)' => IsBeingCreated(f)
    <3>1. \A q \in Procs : Touches(calls'[q], f) => calls'[q] = calls[q]
      BY <1>1 DEF Touches
    <3>2. QED BY <3>1 DEF IsTouched, IsBeingWritten, IsBeingCreated
  <2>4. /\ f \in hasRead' \/ IsTouched(f)' => f \in hasRead \/ IsTouched(f)
        /\ f \in hasWritten' \/ IsBeingWritten(f)'
              => f \in hasWritten \/ IsBeingWritten(f)
    BY <2>2, <2>3 DEF IsTouched, IsBeingWritten
  <2>5. exists'[f] /\ Deleting(f) => Deleting(f)'
    BY <1>1, <2>2 DEF Deleting
  <2>6. exists'[f] => exists[f] \/ Output(f)
    <3>1. CASE Creates(c) /\ c.to = f
      <4>1. Touches(c, f)
        BY <1>1, <3>1 DEF Touches, Creates
      <4>2. QED BY <2>1, <3>1, <4>1 DEF Told, CreatedIsOutput, IsBeingCreated
    <3>2. QED BY <2>2, <3>1
  <2>7. /\ Marked(f)' = Marked(f) /\ Output(f)' = Output(f) /\ Kept(f)' = Kept(f)
    BY <1>1 DEF Marked, Output, Kept
  <2>8. CASE Output(f)
    <3>1. Output(f)'
      BY <2>7, <2>8
    <3>2. QED
      <4>1. Marked(f)' /\ Kept(f)'
        BY <3>1 DEF Output, Marked, Kept, IsOutput
      <4>2. QED
        BY <3>1, <4>1 DEF Told, WrittenIsMarked, PresentIsOutput, PresentIsRecorded,
                          DeletedIsOutput, CreatedIsOutput
  <2>9. CASE ~Output(f)
    <3>1. exists'[f] => exists[f]
      BY <2>6, <2>9
    <3>2. WrittenIsMarked(f)' /\ CreatedIsOutput(f)'
      BY <2>1, <2>3, <2>4, <2>7 DEF Told, WrittenIsMarked, CreatedIsOutput
    <3>3. PresentIsOutput(f)' /\ PresentIsRecorded(f)'
      BY <2>1, <2>4, <2>5, <2>7, <3>1 DEF Told, PresentIsOutput, PresentIsRecorded
    <3>4. DeletedIsOutput(f)'
      BY <1>1, <2>1, <2>5, <2>7, <3>1 DEF Told, DeletedIsOutput
    <3>5. QED BY <3>2, <3>3, <3>4 DEF Told
  <2>10. QED BY <2>8, <2>9
<1>4. QED BY <1>2, <1>3 DEF FInv

\* The call that returns, its files and what the truth is made of.
LEMMA ReturningCall ==
    ASSUME FInv, NEW p \in Procs, NEW op, Returns(p, op)
    PROVE  LET c == calls[p]
           IN  /\ c # None /\ c.op = op /\ c.left = {} /\ Formed(c)
               /\ c.file \in Files /\ c.to \in Files /\ c.flags \in OpenFlags
               /\ op = "rename" <=> c.file # c.to
               /\ op # "unlink" => Touches(c, c.to)
               /\ calls' \in [Procs -> Call \cup {None}] /\ paths' = paths
<1>1. calls[p] # None /\ calls[p].op = op /\ calls[p].left = {} /\ Formed(calls[p])
  BY DEF Returns, FInv
<1>2. calls[p].file \in Files /\ calls[p].to \in Files /\ calls[p].flags \in OpenFlags
  BY <1>1 DEF Formed, Call
<1>3. calls' \in [Procs -> Call \cup {None}] /\ paths' = paths
  BY DEF Returns, FInv, TypeOK
<1>4. QED BY <1>1, <1>2, <1>3 DEF Formed, Touches

LEMMA OpenReturnsStep == ASSUME FInv, NEW p \in Procs, OpenReturns(p) PROVE FInv'
<1> DEFINE c == calls[p]
           f == c.file
<1>1. Returns(p, "open") /\ misled' = misled
  BY DEF OpenReturns
<1>2. /\ c.op = "open" /\ f \in Files /\ c.to = f /\ c.flags \in OpenFlags
      /\ Touches(c, f) /\ calls' \in [Procs -> Call \cup {None}] /\ paths' = paths
  BY <1>1, ReturningCall
<1>3. CASE UNCHANGED truth
  <2>1. TypeOK'
    BY <1>1, <1>2, <1>3 DEF FInv, TypeOK, truth
  <2>2. TakesEffect(c)
    BY <1>2, <1>3 DEF TakesEffect, truth, Deletes
  <2>3. QED BY <1>1, <2>1, <2>2, ReturnStep
<1>4. CASE /\ exists[f] \/ c.flags.creat
           /\ exists' = [exists EXCEPT ![f] = TRUE]
           /\ hasRead' = IF c.flags.mode = "w" THEN hasRead ELSE hasRead \cup {f}
           /\ hasWritten' = IF c.flags.mode # "r" \/ ~exists[f]
                            THEN hasWritten \cup {f} ELSE hasWritten
  <2>1. TypeOK'
    BY <1>1, <1>2, <1>4 DEF FInv, TypeOK
  <2>2. \A g \in Files : exists'[g] => exists[g] \/ (Creates(c) /\ c.to = g)
    BY <1>2, <1>4 DEF FInv, TypeOK, Creates
  <2>3. c.flags.mode # "r" \/ ~exists[f] => Writes(c)
    BY <1>2, <1>4, OpenIsNoDelete DEF Writes
  <2>4. \A g \in Files : g \in hasWritten' => g \in hasWritten \/ (g = f /\ Writes(c))
    BY <1>4, <2>3
  <2>5. \A g \in Files : g \in hasRead' => g \in hasRead \/ g = f
    BY <1>4
  <2>6. ~Deletes(c)
    BY <1>2 DEF Deletes
  <2>7. TakesEffect(c)
    BY <1>2, <2>2, <2>4, <2>5, <2>6 DEF TakesEffect
  <2>8. QED BY <1>1, <2>1, <2>7, ReturnStep
<1>5. QED BY <1>3, <1>4 DEF OpenReturns

\* A deletion that fails misleads about its file, if that is there.
LEMMA NotDeletedStep ==
    ASSUME FInv, NEW p \in Procs, NEW op, Returns(p, op), NotDeleted(calls[p].file)
    PROVE  FInv'
<1> DEFINE c == calls[p]
           f == c.file
<1>1. /\ f \in Files /\ calls' \in [Procs -> Call \cup {None}] /\ paths' = paths
  BY ReturningCall
<1>2. /\ exists' = exists /\ hasRead' = hasRead /\ hasWritten' = hasWritten
      /\ misled' = misled \cup {g \in {f} : exists[g]}
  BY DEF NotDeleted, truth
<1>3. TypeOK'
  BY <1>1, <1>2 DEF FInv, TypeOK
<1>4. TakesEffect(c)
  BY <1>2 DEF TakesEffect
<1>5. QED BY <1>2, <1>3, <1>4, ReturnStep

LEMMA RenameReturnsStep == ASSUME FInv, NEW p \in Procs, RenameReturns(p) PROVE FInv'
<1> DEFINE c == calls[p]
           f == c.file
           g == c.to
<1>1. Returns(p, "rename")
  BY DEF RenameReturns
<1>2. /\ c.op = "rename" /\ f \in Files /\ g \in Files /\ f # g
      /\ Touches(c, g) /\ calls' \in [Procs -> Call \cup {None}] /\ paths' = paths
  BY <1>1, ReturningCall
<1>3. CASE NotDeleted(f)
  BY <1>1, <1>3, NotDeletedStep
<1>4. CASE /\ exists[f]
           /\ exists' = [exists EXCEPT ![f] = FALSE, ![g] = TRUE]
           /\ hasWritten' = hasWritten \cup {g}
           /\ UNCHANGED <<hasRead, misled>>
  <2>1. TypeOK'
    BY <1>2, <1>4 DEF FInv, TypeOK
  <2>2. /\ Creates(c) /\ Writes(c) /\ ~exists'[f]
        /\ \A h \in Files : exists'[h] => exists[h] \/ h = g
    BY <1>2, <1>4 DEF FInv, TypeOK, Creates, Writes
  <2>3. TakesEffect(c)
    BY <1>2, <1>4, <2>2 DEF TakesEffect
  <2>4. QED BY <1>1, <1>4, <2>1, <2>3, ReturnStep
<1>5. QED BY <1>3, <1>4 DEF RenameReturns

LEMMA UnlinkReturnsStep == ASSUME FInv, NEW p \in Procs, UnlinkReturns(p) PROVE FInv'
<1> DEFINE c == calls[p]
           f == c.file
<1>1. Returns(p, "unlink")
  BY DEF UnlinkReturns
<1>2. f \in Files /\ calls' \in [Procs -> Call \cup {None}] /\ paths' = paths
  BY <1>1, ReturningCall
<1>3. CASE NotDeleted(f)
  BY <1>1, <1>3, NotDeletedStep
<1>4. CASE /\ exists[f] /\ exists' = [exists EXCEPT ![f] = FALSE]
           /\ UNCHANGED <<hasRead, hasWritten, misled>>
  <2>1. TypeOK'
    BY <1>2, <1>4 DEF FInv, TypeOK
  <2>2. ~exists'[f] /\ \A h \in Files : exists'[h] => exists[h]
    BY <1>2, <1>4 DEF FInv, TypeOK
  <2>3. TakesEffect(c)
    BY <1>4, <2>2 DEF TakesEffect
  <2>4. QED BY <1>1, <1>4, <2>1, <2>3, ReturnStep
<1>5. QED BY <1>3, <1>4 DEF UnlinkReturns

LEMMA TruncateReturnsStep ==
    ASSUME FInv, NEW p \in Procs, TruncateReturns(p) PROVE FInv'
<1> DEFINE c == calls[p]
           f == c.file
<1>1. /\ Returns(p, "truncate") /\ exists' = exists /\ hasRead' = hasRead
      /\ misled' = misled /\ hasWritten' \in {hasWritten, hasWritten \cup {f}}
  BY DEF TruncateReturns
<1>2. /\ c.op = "truncate" /\ f \in Files /\ c.to = f /\ Touches(c, f)
      /\ calls' \in [Procs -> Call \cup {None}] /\ paths' = paths
  BY <1>1, ReturningCall
<1>3. TypeOK'
  BY <1>1, <1>2 DEF FInv, TypeOK
<1>4. TakesEffect(c)
  BY <1>1, <1>2 DEF TakesEffect, Writes, Deletes
<1>5. QED BY <1>1, <1>3, <1>4, ReturnStep

-----------------------------------------------------------------------------
(* The table of the operation *)

LEMMA FilesInit == Init => FInv
<1> SUFFICES ASSUME Init PROVE FInv
  OBVIOUS
<1>1. /\ \A p \in Procs : calls[p] = None
      /\ \A n \in Names : paths[n] = Untouched
      /\ hasRead = {} /\ hasWritten = {}
  BY DEF Init
<1>2. TypeOK
  BY DEF Init, TypeOK, Untouched, PathState
<1>3. \A f : ~IsTouched(f) /\ ~IsBeingWritten(f) /\ ~IsBeingCreated(f)
  BY <1>1 DEF IsTouched, IsBeingWritten, IsBeingCreated, Touches
<1>4. \A n \in Names : ~paths[n].deleted
  BY <1>1 DEF Untouched
<1>5. \A f \in Files : Told(f)
  BY <1>1, <1>3, <1>4
     DEF Told, WrittenIsMarked, PresentIsOutput, PresentIsRecorded,
         DeletedIsOutput, CreatedIsOutput
<1>6. QED BY <1>1, <1>2, <1>5 DEF FInv

\* A call that is entered is formed as Formed says.
LEMMA EnterStep ==
    ASSUME FInv, NEW p \in Procs, NEW op, NEW old \in Names, NEW new \in Names,
           NEW cwd \in Cwds \cup {Root}, NEW flags \in OpenFlags,
           op \in {"open", "rename", "unlink", "truncate"},
           op = "rename" <=> Target(old, cwd) # Target(new, cwd),
           Enter(p, op, old, new, cwd, flags)
    PROVE  FInv'
<1> DEFINE c == [op |-> op, flags |-> flags,
                 file |-> Target(old, cwd), to |-> Target(new, cwd),
                 left |-> Reports(op, flags, old, new)]
<1>1. calls[p] = None /\ Sends(p, c) /\ UNCHANGED truth
  BY DEF Enter
<1>2. Target(old, cwd) \in Files /\ Target(new, cwd) \in Files
  BY NamesResolve
<1>3. Reports(op, flags, old, new) \subseteq Names \X AccessKinds
  <2>1. ClassifyOpen(flags) \in AccessKinds
    BY OpenIsNoDelete DEF AccessKinds
  <2>2. QED BY <2>1 DEF Reports, AccessKinds
<1>4. c \in Call
  BY <1>2, <1>3 DEF Call
<1>5. op = "rename" => <<new, "create">> \in Reports(op, flags, old, new)
  BY DEF Reports
<1>6. Formed(c)
  BY <1>4, <1>5 DEF Formed
<1>7. QED BY <1>1, <1>6, SendsStep

LEMMA FilesStep == FInv /\ [Next]_vars => FInv'
<1> SUFFICES ASSUME FInv, [Next]_vars PROVE FInv'
  OBVIOUS
<1>1. CASE UNCHANGED vars
  BY <1>1 DEF vars, FInv, TypeOK, Formed, Told, WrittenIsMarked, PresentIsOutput,
              PresentIsRecorded, DeletedIsOutput, CreatedIsOutput, IsTouched,
              IsBeingWritten, IsBeingCreated, Deleting, Marked, Output, Kept
<1>2. CASE Next
  <2>1. PICK p \in Procs :
           Calls(p) \/ SendRest(p) \/ OpenReturns(p) \/ RenameReturns(p)
           \/ UnlinkReturns(p) \/ TruncateReturns(p)
    BY <1>2 DEF Next
  <2>2. CASE Calls(p)
    <3>1. PICK n \in Names, cwd \in Cwds \cup {Root} :
             \/ \E flags \in Flags : Open(p, n, cwd, flags)
             \/ \E m \in Names : Rename(p, n, m, cwd)
             \/ Unlink(p, n, cwd)
             \/ Truncate(p, n, cwd)
      BY <2>2 DEF Calls
    <3>2. NoFlags \in OpenFlags
      BY DEF NoFlags, OpenFlags
    <3>3. CASE \E flags \in Flags : Open(p, n, cwd, flags)
      <4>1. PICK flags \in Flags : Open(p, n, cwd, flags)
        BY <3>3
      <4>2. flags \in OpenFlags
        BY FlagsAssumption
      <4>3. QED BY <4>1, <4>2, EnterStep DEF Open
    <3>4. CASE \E m \in Names : Rename(p, n, m, cwd)
      BY <3>2, <3>4, EnterStep DEF Rename
    <3>5. CASE Unlink(p, n, cwd)
      BY <3>2, <3>5, EnterStep DEF Unlink
    <3>6. CASE Truncate(p, n, cwd)
      BY <3>2, <3>6, EnterStep DEF Truncate
    <3>7. QED BY <3>1, <3>3, <3>4, <3>5, <3>6
  <2>3. CASE SendRest(p)
    <3>1. calls[p] # None /\ Formed(calls[p]) /\ Sends(p, calls[p]) /\ UNCHANGED truth
      BY <2>3 DEF SendRest, FInv
    <3>2. calls[p].left # {}
      BY <3>1 DEF Sends
    <3>3. QED BY <3>1, <3>2, SendsStep
  <2>4. CASE OpenReturns(p) \/ RenameReturns(p) \/ UnlinkReturns(p) \/ TruncateReturns(p)
    BY <2>4, OpenReturnsStep, RenameReturnsStep, UnlinkReturnsStep, TruncateReturnsStep
  <2>5. QED BY <2>1, <2>2, <2>3, <2>4
<1>3. QED BY <1>1, <1>2

LEMMA FilesAlways == Spec => []FInv
BY FilesInit, FilesStep, PTL DEF Spec

LEMMA OutputsAreReported == FInv => ChangedFilesAreOutputs
<1> SUFFICES ASSUME FInv, NEW f \in hasWritten, InScope(f), exists[f], Followed(f)
             PROVE  f \in ScopedOutputs
  BY DEF ChangedFilesAreOutputs
<1>1. Told(f) /\ ~Deleting(f)
  BY DEF FInv, TypeOK, Followed
<1>2. PICK n \in Names : ResolveAgainst(n) = f /\ IsOutput(paths[n])
  BY <1>1 DEF Told, PresentIsOutput, Output
<1>3. QED BY <1>2 DEF ScopedOutputs, Scoped

LEMMA ReadsAreReported == FInv => ReadFilesAreRecorded
<1> SUFFICES ASSUME FInv, NEW f \in hasRead, InScope(f), exists[f], Followed(f)
             PROVE  f \in ScopedInputs \cup ScopedOutputs
  BY DEF ReadFilesAreRecorded
<1>1. Told(f) /\ ~Deleting(f)
  BY DEF FInv, TypeOK, Followed
<1>2. PICK n \in Names : ResolveAgainst(n) = f
                          /\ (IsInput(paths[n]) \/ IsOutput(paths[n]))
  BY <1>1 DEF Told, PresentIsRecorded, Kept
<1>3. QED BY <1>2 DEF ScopedInputs, ScopedOutputs, Scoped

LEMMA ProducedHasTwoNames == FInv => InputsAreNotProduced
<1> SUFFICES ASSUME FInv, NEW f \in (ScopedInputs \cap hasWritten) \ misled
             PROVE  \E n, m \in Names :
                       /\ n # m /\ ResolveAgainst(n) = f /\ ResolveAgainst(m) = f
                       /\ Untouched \notin {paths[n], paths[m]}
  BY DEF InputsAreNotProduced
<1>1. PICK n \in Names : ResolveAgainst(n) = f /\ IsInput(paths[n])
  BY DEF ScopedInputs, Scoped
<1>2. PICK m \in Names : ResolveAgainst(m) = f /\ paths[m].wrote
  BY DEF FInv, TypeOK, Told, WrittenIsMarked, Marked
<1>3. n # m /\ paths[n] # Untouched /\ paths[m] # Untouched
  BY <1>1, <1>2 DEF IsInput, Untouched
<1>4. QED BY <1>1, <1>2, <1>3

\* The classification keeps its types.
THEOREM FileTypes == Spec => []TypeOK
<1>1. FInv => TypeOK
  BY DEF FInv
<1>2. QED BY <1>1, FilesAlways, PTL

\* A file in scope that the operation produced and left behind is an output
\* (observe.rs), for any processes that make any calls side by side: what is
\* lost, fails or is called by a name relative to another directory takes no
\* file with it but those it misleads about.
THEOREM ChangedAreReported == Spec => []ChangedFilesAreOutputs
BY FilesAlways, OutputsAreReported, PTL

\* A file in scope that the operation read and left behind is in the record,
\* unless a call or record about it misleads.
THEOREM ReadsAreKept == Spec => []ReadFilesAreRecorded
BY FilesAlways, ReadsAreReported, PTL

\* No file is both produced by the operation and one of its inputs, unless the
\* operation called it by two names or its records are misleading.
THEOREM InputsWereThere == Spec => []InputsAreNotProduced
BY FilesAlways, ProducedHasTwoNames, PTL

-----------------------------------------------------------------------------
(* What the record says of them *)

LEMMA UsedIsHashed == FInv => UsedFilesAreHashed
<1> SUFFICES ASSUME FInv, NEW f \in hasRead \cup hasWritten, NEW c \in Circumstance,
                    InScope(f), Readable(f, c), Followed(f)
             PROVE  \E e \in Inputs(Disturbed(f, c)) \cup Outputs(Disturbed(f, c)) :
                       e.path = f
  BY DEF UsedFilesAreHashed
<1>1. /\ f \in Files /\ exists[f] /\ Disturbed(f, c)[f] = c
      /\ f \in ScopedInputs \cup ScopedOutputs
  BY OutputsAreReported, ReadsAreReported
     DEF FInv, TypeOK, Readable, Disturbed, ChangedFilesAreOutputs, ReadFilesAreRecorded
<1>2. HashInput(f, c) # None /\ HashOutput(f, c) # None
  BY NoneAssumption DEF HashInput, HashOutput, HashRaw, Raw, Blob, Digests
<1>3. CASE f \in ScopedInputs
  <2>1. [path |-> f, hash |-> HashInput(f, c)] \in Inputs(Disturbed(f, c))
    BY <1>1, <1>2, <1>3 DEF Inputs, HashSet
  <2>2. QED BY <2>1
<1>4. CASE f \in ScopedOutputs
  <2>1. [path |-> f, hash |-> HashOutput(f, c)] \in Outputs(Disturbed(f, c))
    BY <1>1, <1>2, <1>4 DEF Outputs, HashSet
  <2>2. QED BY <2>1
<1>5. QED BY <1>1, <1>3, <1>4

LEMMA InputsJoin == FInv => InputsJoinTheSource
<1> SUFFICES ASSUME FInv, NEW f \in Files \ misled, NEW c \in Circumstance,
                    c.repo, c.tracked, c.fate = "kept", OneName(f),
                    NEW e \in Inputs(Disturbed(f, c)), e.path = f
             PROVE  e.hash = IF c.blob THEN "committed blob" ELSE "checkout raw"
  BY DEF InputsJoinTheSource
<1>1. f \in ScopedInputs /\ e.hash = HashInput(f, c) /\ HashInput(f, c) # None
  <2>1. Disturbed(f, c)[f] = c
    BY DEF Disturbed
  <2> DEFINE hashes == [g \in ScopedInputs |-> HashInput(g, Disturbed(f, c)[g])]
  <2>2. PICK h \in ScopedInputs :
           hashes[h] # None /\ e = [path |-> h, hash |-> hashes[h]]
    BY DEF Inputs, HashSet
  <2>3. h = f
    BY <2>2
  <2>4. QED BY <2>1, <2>2, <2>3
<1>2. InScope(f)
  BY <1>1 DEF ScopedInputs, Scoped
<1>3. f \notin hasWritten
  <2> SUFFICES ASSUME f \in hasWritten PROVE FALSE
    OBVIOUS
  <2>1. PICK n, m \in Names :
           /\ n # m /\ ResolveAgainst(n) = f /\ ResolveAgainst(m) = f
           /\ Untouched \notin {paths[n], paths[m]}
    BY <1>1, ProducedHasTwoNames DEF InputsAreNotProduced
  <2>2. QED BY <2>1 DEF OneName
<1>4. Raw(f, c) = "checkout raw" /\ Blob(f, c) = "committed blob"
  BY <1>3 DEF Raw, Blob
<1>5. QED BY <1>1, <1>2, <1>4 DEF HashInput, HashRaw, IsTracked

\* Every file in scope that was used, is still there and is not misled about
\* has an entry (hash_set), whichever call to git failed.
THEOREM UsedAreHashed == Spec => []UsedFilesAreHashed
BY FilesAlways, UsedIsHashed, PTL

\* The digest of a tracked input that has one name and no misleading records is
\* that of the committed content (hash_input), or of the checked out bytes if
\* git could not provide it.
THEOREM InputsAlwaysJoin == Spec => []InputsJoinTheSource
BY FilesAlways, InputsJoin, PTL
=============================================================================
