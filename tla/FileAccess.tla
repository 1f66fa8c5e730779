------------------------------ MODULE FileAccess ------------------------------
(***************************************************************************)
(* How the file accesses of one operation become its inputs and outputs:   *)
(* the file probes (ci-tracer-ebpf/src/main.rs), which fire when a call is *)
(* entered and do not see whether it succeeds, the accumulation per        *)
(* observed name and the final classification (ci-tracer/src/observe.rs,   *)
(* scope.rs).  Processes of the operation call side by side: each call is  *)
(* entered, its probe sends one record or two, any of which the ring may   *)
(* lose, and the call takes effect and returns, or fails.  Records reach   *)
(* the table in the order they were sent.                                  *)
(*                                                                         *)
(* A file is a directory and a base name.  A call names it absolutely, or  *)
(* by its base name alone, relative to the calling process's directory.    *)
(*                                                                         *)
(* exists, hasRead and hasWritten are the truth: the file system, and what *)
(* the operation really did to it.  misled keeps the files of which the    *)
(* records say something else than what happened.                          *)
(***************************************************************************)
EXTENDS PathAccess

CONSTANTS
    Procs,      \* processes of the operation
    Dirs,       \* directories
    Bases,      \* base names
    Root,       \* the operation's working_directory
    Scope,      \* directories under it that are not excluded
    Cwds,       \* working directories of the processes
    Relative,   \* the directory of a relative name
    Names,      \* the names that are used
    Flags,      \* flags that files are opened with
    Lossy,      \* may the ring be full when a record is sent
    None        \* no call

Files == Dirs \X Bases
OpenFlags == [creat : BOOLEAN, mode : {"r", "w", "rw"}]
NoFlags == [creat |-> FALSE, mode |-> "r"]

\* A call under way: its file, the file a rename gives it the name of, and what
\* its probe has left to report.
Call ==
    [op : {"open", "rename", "unlink", "truncate"}, flags : OpenFlags,
     file : Files, to : Files, left : SUBSET (Names \X AccessKinds)]

ASSUME DirsAssumption ==
    /\ Root \in Dirs /\ Scope \subseteq Dirs /\ Cwds \subseteq Dirs
    /\ Relative \notin Dirs
ASSUME NamesAssumption == Names \subseteq (Dirs \cup {Relative}) \X Bases
ASSUME FlagsAssumption == Flags \subseteq OpenFlags
ASSUME LossyAssumption == Lossy \in BOOLEAN
ASSUME NoCallAssumption == None \notin Call

VARIABLES
    calls,      \* process -> the call it is in
    paths,      \* observed name -> PathState
    exists,     \* file -> does it exist
    hasRead,    \* the files the operation opened for reading
    hasWritten, \* the files whose content or name the operation produced
    misled      \* the files whose records are not what happened to them

vars == <<calls, paths, exists, hasRead, hasWritten, misled>>
truth == <<exists, hasRead, hasWritten>>

\* The file the kernel resolves a name to.
Target(n, cwd) == IF n[1] = Relative THEN <<cwd, n[2]>> ELSE n

\* The file the agent resolves a name to when the operation has ended: a
\* relative name is taken to be relative to the root process's directory.
ResolveAgainst(n) == IF n[1] = Relative THEN <<Root, n[2]>> ELSE n

-----------------------------------------------------------------------------
(* The probes *)

\* Mutant of ClassifyOpen: O_RDWR is taken for reading.
ClassifyOpenReadWrite(flags) ==
    IF flags.creat THEN "create"
    ELSE IF flags.mode = "w" THEN "write"
    ELSE "read"

ClassifyOpen(flags) ==
    IF flags.creat THEN "create"
    ELSE IF flags.mode \in {"w", "rw"} THEN "write"
    ELSE "read"

\* Mutant of Reports: a rename does not report the new name.
ReportsOldOnly(op, flags, old, new) ==
    CASE op = "open" -> {<<old, ClassifyOpen(flags)>>}
      [] op = "truncate" -> {<<old, "truncate">>}
      [] op \in {"unlink", "rename"} -> {<<old, "delete">>}

\* What the probe of a call reports.  ftruncate is not hooked: its file was
\* opened for writing, which is.
Reports(op, flags, old, new) ==
    CASE op = "open" -> {<<old, ClassifyOpen(flags)>>}
      [] op = "truncate" -> {<<old, "truncate">>}
      [] op = "unlink" -> {<<old, "delete">>}
      [] op = "rename" -> {<<old, "delete">>, <<new, "create">>}

\* Mutant of Observe: a deletion drops the path's entry.
ObserveDropsDeleted(n, access) ==
    paths' = IF access = "delete" THEN [m \in DOMAIN paths \ {n} |-> paths[m]]
             ELSE [paths EXCEPT ![n] = Recorded(@, access)]

Observe(n, access) == paths' = [paths EXCEPT ![n] = Recorded(@, access)]

Deletes(c) == c.op \in {"unlink", "rename"}
Creates(c) == c.op = "rename" \/ (c.op = "open" /\ c.flags.creat)

\* The files that another call than p's may be about to create.
InCreation(p) ==
    {calls[q].to : q \in {r \in Procs \ {p} : calls[r] # None /\ Creates(calls[r])}}

\* The files misled once a record arrives, or is lost, that reports an access to
\* file as one to seen.  An access nobody is told of misleads about the file.  A
\* deletion misleads if it is told of another file, or comes while another call
\* may be creating the file and may do so last.  A record that a file is written
\* makes good what was missed before.
Misled(p, access, file, seen, lost) ==
    CASE access = "delete" ->
            misled \cup IF ~lost /\ (seen # file \/ file \in InCreation(p))
                        THEN {seen} ELSE {}
      [] access # "delete" ->
            (IF lost \/ access = "read" THEN misled ELSE misled \ {seen})
            \cup (IF lost \/ seen # file THEN {file} ELSE {})

\* The probe of p's call c sends a record, that of a deletion first.
Sends(p, c) ==
    \E report \in c.left, lost \in {FALSE, Lossy} :
        LET name == report[1]
            access == report[2]
            file == IF access = "delete" THEN c.file ELSE c.to
        IN  /\ \A r \in c.left : r[2] = "delete" => access = "delete"
            /\ calls' = [calls EXCEPT ![p] = [c EXCEPT !.left = @ \ {report}]]
            /\ IF lost THEN UNCHANGED paths ELSE Observe(name, access)
            /\ misled' = Misled(p, access, file, ResolveAgainst(name), lost)

-----------------------------------------------------------------------------
(* The calls *)

Init ==
    /\ calls = [p \in Procs |-> None]
    /\ paths = [n \in Names |-> Untouched]
    /\ exists \in [Files -> BOOLEAN]
    /\ hasRead = {}
    /\ hasWritten = {}
    /\ misled = {}

\* The probe runs at once, which sends the first record.
Enter(p, op, old, new, cwd, flags) ==
    /\ calls[p] = None
    /\ Sends(p, [op |-> op, flags |-> flags,
                 file |-> Target(old, cwd), to |-> Target(new, cwd),
                 left |-> Reports(op, flags, old, new)])
    /\ UNCHANGED truth

\* The second record of a rename.
SendRest(p) == calls[p] # None /\ Sends(p, calls[p]) /\ UNCHANGED truth

\* openat and openat2.
Open(p, n, cwd, flags) == Enter(p, "open", n, n, cwd, flags)

\* A rename of a file to itself does nothing and is left out.
Rename(p, old, new, cwd) ==
    /\ Target(old, cwd) # Target(new, cwd)
    /\ Enter(p, "rename", old, new, cwd, NoFlags)

Unlink(p, n, cwd) == Enter(p, "unlink", n, n, cwd, NoFlags)

Truncate(p, n, cwd) == Enter(p, "truncate", n, n, cwd, NoFlags)

\* A call takes effect and returns after its probe has run, whether or not the
\* records were lost; any call may fail.
Returns(p, op) ==
    /\ calls[p] # None /\ calls[p].op = op /\ calls[p].left = {}
    /\ calls' = [calls EXCEPT ![p] = None]
    /\ UNCHANGED paths

OpenReturns(p) ==
    LET f == calls[p].file
        flags == calls[p].flags
    IN  /\ Returns(p, "open")
        /\ \/ /\ exists[f] \/ flags.creat
              /\ exists' = [exists EXCEPT ![f] = TRUE]
              /\ hasRead' = IF flags.mode = "w" THEN hasRead
                            ELSE hasRead \cup {f}
              /\ hasWritten' = IF flags.mode # "r" \/ ~exists[f]
                               THEN hasWritten \cup {f} ELSE hasWritten
           \/ UNCHANGED truth
        /\ UNCHANGED misled

\* A deletion that was reported and does not happen misleads about its file.
NotDeleted(f) ==
    /\ misled' = misled \cup {g \in {f} : exists[g]}
    /\ UNCHANGED truth

RenameReturns(p) ==
    LET f == calls[p].file
        g == calls[p].to
    IN  /\ Returns(p, "rename")
        /\ \/ /\ exists[f]
              /\ exists' = [exists EXCEPT ![f] = FALSE, ![g] = TRUE]
              /\ hasWritten' = hasWritten \cup {g}
              /\ UNCHANGED <<hasRead, misled>>
           \/ NotDeleted(f)

UnlinkReturns(p) ==
    LET f == calls[p].file
    IN  /\ Returns(p, "unlink")
        /\ \/ /\ exists[f]
              /\ exists' = [exists EXCEPT ![f] = FALSE]
              /\ UNCHANGED <<hasRead, hasWritten, misled>>
           \/ NotDeleted(f)

TruncateReturns(p) ==
    LET f == calls[p].file
    IN  /\ Returns(p, "truncate")
        /\ \/ exists[f] /\ hasWritten' = hasWritten \cup {f}
           \/ UNCHANGED hasWritten
        /\ UNCHANGED <<exists, hasRead, misled>>

Calls(p) ==
    \E n \in Names, cwd \in Cwds \cup {Root} :
        \/ \E flags \in Flags : Open(p, n, cwd, flags)
        \/ \E m \in Names : Rename(p, n, m, cwd)
        \/ Unlink(p, n, cwd)
        \/ Truncate(p, n, cwd)

Next ==
    \E p \in Procs :
        \/ Calls(p)
        \/ SendRest(p)
        \/ OpenReturns(p) \/ RenameReturns(p)
        \/ UnlinkReturns(p) \/ TruncateReturns(p)

Spec == Init /\ [][Next]_vars

-----------------------------------------------------------------------------
(* The classification at the end of the operation *)

InScope(f) == f[1] \in Scope

Scoped(Pred(_)) ==
    {f \in {ResolveAgainst(n) : n \in {m \in Names : Pred(paths[m])}} : InScope(f)}

ScopedInputs == Scoped(IsInput)
ScopedOutputs == Scoped(IsOutput)

-----------------------------------------------------------------------------
(* Properties *)

TypeOK ==
    /\ calls \in [Procs -> Call \cup {None}]
    /\ paths \in [Names -> PathState]
    /\ exists \in [Files -> BOOLEAN]
    /\ hasRead \subseteq Files
    /\ hasWritten \subseteq Files
    /\ misled \subseteq Files

\* A deletion is under way that the table may know of already.
Deleting(f) ==
    \E p \in Procs : calls[p] # None /\ Deletes(calls[p]) /\ calls[p].file = f

Followed(f) == f \notin misled /\ ~Deleting(f)

\* A file in scope that the operation produced and that is still there is an
\* output, by whatever calls of its processes, side by side, it came about and
\* whatever became of the records and calls that concern other files.
ChangedFilesAreOutputs ==
    \A f \in hasWritten :
        InScope(f) /\ exists[f] /\ Followed(f) => f \in ScopedOutputs

\* A file in scope that the operation has read and that is still there is part
\* of the record, again whatever happened to other files.
ReadFilesAreRecorded ==
    \A f \in hasRead :
        InScope(f) /\ exists[f] /\ Followed(f) =>
            f \in ScopedInputs \cup ScopedOutputs

\* And so it is without exception but that of a deletion under way.
EveryReadIsRecorded ==
    \A f \in hasRead :
        InScope(f) /\ exists[f] /\ ~Deleting(f) =>
            f \in ScopedInputs \cup ScopedOutputs

\* No file the operation produced is reported as something it only read, unless
\* the records are misleading about it, or the operation called it by two names:
\* the state is kept per name.
InputsAreNotProduced ==
    \A f \in (ScopedInputs \cap hasWritten) \ misled :
        \E n, m \in Names :
            /\ n # m /\ ResolveAgainst(n) = f /\ ResolveAgainst(m) = f
            /\ Untouched \notin {paths[n], paths[m]}
=============================================================================
