------------------------------- MODULE Delivery -------------------------------
(***************************************************************************)
(* How the agent delivers finalized operations to the pipeline and what it *)
(* reports about it: process_operation and run (ci-tracer/src/main.rs),    *)
(* Submitter (submit.rs), Reconciler (reconcile.rs), and the post hook     *)
(* that stops the agent and reads its report (action/stop.js).             *)
(*                                                                         *)
(* An operation stands for its record.  The pipeline is the environment:   *)
(* to each attempt it answers anything, and its answer may be lost.        *)
(***************************************************************************)
EXTENDS Naturals, FiniteSets

CONSTANTS
    Ops,            \* the operations this job may observe
    Leftover,       \* records an earlier agent left in the buffer directory
    None,
    MaxAttempts,    \* attempts per submission, 5 in the code
    MaxSeq,         \* the last buffer file name an instance may use
    Faults          \* what may go wrong besides the pipeline

FaultKinds ==
    {"no_ebpf",     \* the runner has no eBPF
     "load",        \* loading or attaching the programs fails
     "assembly",    \* an operation has no working directory, repo or commit
     "disk",        \* a buffer file cannot be written, read or removed
     "kill",        \* the agent is killed
     "pid"}         \* the post hook does not know the agent's pid

Records == Ops \cup Leftover
Seqs == 0..MaxSeq

ASSUME OpsAssumption ==
    IsFiniteSet(Ops) /\ IsFiniteSet(Leftover) /\ Ops \cap Leftover = {}
ASSUME NoneAssumption ==
    /\ None \notin Records
    /\ None \notin Seqs
    /\ None \notin {"clean", "unknown", "started", "stopped"}
ASSUME FaultsAssumption == Faults \subseteq FaultKinds
ASSUME AttemptsAssumption == MaxAttempts \in Nat \ {0} /\ MaxSeq \in Nat

VARIABLES
    ebpf,       \* detect::ebpf_available()
    pipeline,   \* a pipeline URL and a token are configured
    oldSignal,  \* the signal an earlier agent left in the state directory
    pc,         \* init, start, loop, submit, final, flush, done, dead
    back,       \* where the loop goes on after a submission
    cur,        \* the record being submitted
    curSeq,     \* the buffer file it was read from, None for a fresh record
    attempt,    \* the number of the next attempt
    observed, submitted,    \* the counters of Reconciler
    nextSeq,    \* next_buffer_seq
    files,      \* the buffer directory: sequence number -> record
    toFlush,    \* directory entries flush_buffered has yet to visit
    signal,     \* coverage in the reconciliation file, None without a file
    heartbeat,  \* state in the heartbeat file, None without a file
    post,       \* the post hook: idle, signalled, ended, or ended unsignalled
    verdict,    \* what the post hook tells the job
    delivered,  \* the records the pipeline has processed
    seen, acked,    \* history: operations observed, records counted submitted
    broken          \* history: operations no buffer file could be made for

reconciler == <<observed, submitted, nextSeq, files>>
submission == <<cur, curSeq, attempt, back>>
reports == <<signal, heartbeat>>
hook == <<post, verdict>>
history == <<seen, acked, broken>>
setting == <<ebpf, pipeline, oldSignal>>
vars == <<setting, pc, submission, reconciler, toFlush, reports, hook, delivered, history>>

Used == {s \in Seqs : files[s] # None}
OnDisk == {files[s] : s \in Used}
May(fault) == fault \in Faults

\* Mutant of Coverage: something submitted is enough.
CoverageOfAny == IF submitted > 0 \/ observed = 0 THEN "clean" ELSE "unknown"

\* Reconciler::coverage
Coverage == IF submitted >= observed THEN "clean" ELSE "unknown"

-----------------------------------------------------------------------------
(* Start and end of the agent *)

\* A directory kept from an earlier agent holds its buffered records, and the
\* files it ended with: without a signal it was killed.
Init ==
    /\ ebpf \in IF May("no_ebpf") THEN BOOLEAN ELSE {TRUE}
    /\ pipeline \in BOOLEAN
    /\ oldSignal \in IF Leftover = {} THEN {None} ELSE {None, "clean", "unknown"}
    /\ pc = "init" /\ back = "loop"
    /\ cur = None /\ curSeq = None /\ attempt = 1
    /\ observed = 0 /\ submitted = 0 /\ nextSeq = 0
    /\ files \in {f \in [Seqs -> Leftover \cup {None}] :
          /\ \A x \in Leftover : \E s \in Seqs : f[s] = x
          /\ \A s, t \in Seqs : f[s] = f[t] /\ f[s] # None => s = t}
    /\ toFlush = {}
    /\ signal = oldSignal
    /\ heartbeat = IF Leftover = {} THEN None
                   ELSE IF oldSignal = None THEN "started" ELSE "stopped"
    /\ post = "idle" /\ verdict = None
    /\ delivered = {}
    /\ seen = {} /\ acked = {} /\ broken = {}

\* A state file is written, or the write fails unnoticed.
Written(old, new) == IF May("disk") THEN {old, new} ELSE {new}

\* finish: the signal and the stop heartbeat.
Finish ==
    /\ signal' \in Written(signal, Coverage)
    /\ heartbeat' \in Written(heartbeat, "stopped")
    /\ pc' = "done"

HeartbeatStart ==
    /\ pc = "init"
    /\ heartbeat' \in Written(heartbeat, "started")
    /\ pc' = "start"
    /\ UNCHANGED <<submission, reconciler, toFlush, signal, hook, delivered,
                   history>>

\* main without eBPF: nothing is observed and the reconciler finishes at once.
NoEbpf ==
    /\ pc = "start" /\ ~ebpf
    /\ Finish
    /\ UNCHANGED <<submission, reconciler, toFlush, hook, delivered, history>>

\* run returns an error before the loop: main logs it, finish is not reached.
LoadFails ==
    /\ pc = "start" /\ ebpf /\ May("load")
    /\ pc' = "dead"
    /\ UNCHANGED <<submission, reconciler, toFlush, reports, hook, delivered,
                   history>>

Attached ==
    /\ pc = "start" /\ ebpf
    /\ pc' = "loop"
    /\ UNCHANGED <<submission, reconciler, toFlush, reports, hook, delivered,
                   history>>

Kill ==
    /\ May("kill") /\ pc \notin {"done", "dead"}
    /\ pc' = "dead"
    /\ UNCHANGED <<submission, reconciler, toFlush, reports, hook, delivered,
                   history>>

-----------------------------------------------------------------------------
(* process_operation *)

\* Reconciler::buffer takes a new name whether or not the write succeeds, and
\* writes over a file of that name; a write that fails halfway destroys it.
Buffer(op) ==
    /\ nextSeq <= MaxSeq
    /\ nextSeq' = nextSeq + 1
    /\ \/ files' = [files EXCEPT ![nextSeq] = op] /\ UNCHANGED broken
       \/ /\ May("disk") /\ broken' = broken \cup {op}
          /\ files' \in {files, [files EXCEPT ![nextSeq] = None]}

\* An operation handed over by the tree is counted first.
Counted(op) ==
    /\ pc \in {"loop", "final"}
    /\ op \notin seen
    /\ observed' = observed + 1
    /\ seen' = seen \cup {op}

\* Mutant of AssemblyFails: operations are counted after assembly only.
AssemblyFailsUncounted(op) ==
    /\ pc \in {"loop", "final"} /\ op \notin seen /\ May("assembly")
    /\ seen' = seen \cup {op}
    /\ broken' = broken \cup {op}
    /\ UNCHANGED <<pc, submission, reconciler, toFlush, reports, hook, delivered,
                   acked>>

AssemblyFails(op) ==
    /\ Counted(op) /\ May("assembly")
    /\ broken' = broken \cup {op}
    /\ UNCHANGED <<pc, submission, submitted, nextSeq, files, toFlush, reports,
                   hook, delivered, acked>>

ProcessUnsent(op) ==
    /\ Counted(op) /\ ~pipeline
    /\ Buffer(op)
    /\ UNCHANGED <<pc, submission, submitted, toFlush, reports, hook, delivered,
                   acked>>

\* Mutant of Process: the record is buffered before it is submitted.
ProcessBuffersFirst(op) ==
    /\ Counted(op) /\ pipeline
    /\ Buffer(op)
    /\ cur' = op /\ curSeq' = None /\ attempt' = 1
    /\ back' = pc /\ pc' = "submit"
    /\ UNCHANGED <<submitted, toFlush, reports, hook, delivered, acked>>

Process(op) ==
    /\ Counted(op) /\ pipeline
    /\ cur' = op /\ curSeq' = None /\ attempt' = 1
    /\ back' = pc /\ pc' = "submit"
    /\ UNCHANGED <<submitted, nextSeq, files, toFlush, reports, hook, delivered,
                   acked, broken>>

-----------------------------------------------------------------------------
(* Submitter::submit, one action for each answer to an attempt *)

Return == pc' = back /\ cur' = None /\ curSeq' = None /\ attempt' = 1
          /\ UNCHANGED back

\* 2xx with a receipt: the record is counted; a flushed one leaves the disk.
Receipt ==
    /\ pc = "submit"
    /\ Return
    /\ delivered' = delivered \cup {cur}
    /\ submitted' = submitted + 1
    /\ acked' = acked \cup {cur}
    /\ IF curSeq = None THEN UNCHANGED files
       ELSE \/ files' = [files EXCEPT ![curSeq] = None]
            \/ May("disk") /\ UNCHANGED files
    /\ UNCHANGED <<observed, nextSeq, toFlush, reports, hook, seen, broken>>

\* Mutant of GiveUp: a record sent from the disk leaves it, whatever the answer.
GiveUpForgets ==
    /\ Return
    /\ IF curSeq = None THEN Buffer(cur)
       ELSE /\ files' = [files EXCEPT ![curSeq] = None]
            /\ UNCHANGED <<nextSeq, broken>>
    /\ UNCHANGED <<observed, submitted, toFlush, reports, hook, seen, acked>>

\* What happens to a record that is given up: fresh ones go to the disk, those
\* read from the disk stay there.
GiveUp ==
    /\ Return
    /\ IF curSeq = None THEN Buffer(cur) ELSE UNCHANGED <<nextSeq, files, broken>>
    /\ UNCHANGED <<observed, submitted, toFlush, reports, hook, seen, acked>>

\* 400 or 422: submit returns without a retry.  The caller does not tell this
\* from other failures.
InvalidRecord ==
    /\ pc = "submit"
    /\ GiveUp
    /\ UNCHANGED delivered

\* Mutant of Unauthorized: the record is dropped.
UnauthorizedDrops ==
    /\ pc = "submit"
    /\ Return
    /\ UNCHANGED <<reconciler, toFlush, reports, hook, delivered, history>>

\* 401: submit returns without a retry.
Unauthorized ==
    /\ pc = "submit"
    /\ GiveUp
    /\ UNCHANGED delivered

\* Mutant of Transient: one attempt too many.
TransientOnceMore ==
    /\ pc = "submit"
    /\ delivered' \in {delivered, delivered \cup {cur}}
    /\ IF attempt <= MaxAttempts
       THEN /\ attempt' = attempt + 1
            /\ UNCHANGED <<pc, cur, curSeq, back, reconciler, toFlush, reports,
                           hook, history>>
       ELSE GiveUp

\* Mutant of Transient: the attempts start over instead of ending.
TransientForever ==
    /\ pc = "submit"
    /\ delivered' \in {delivered, delivered \cup {cur}}
    /\ attempt' = (attempt % MaxAttempts) + 1
    /\ UNCHANGED <<pc, cur, curSeq, back, reconciler, toFlush, reports, hook,
                   history>>

\* A timeout, a transport error, 5xx or an answer without a receipt; the record
\* may have been processed all the same.
Transient ==
    /\ pc = "submit"
    /\ delivered' \in {delivered, delivered \cup {cur}}
    /\ IF attempt < MaxAttempts
       THEN /\ attempt' = attempt + 1
            /\ UNCHANGED <<pc, cur, curSeq, back, reconciler, toFlush, reports,
                           hook, history>>
       ELSE GiveUp

-----------------------------------------------------------------------------
(* The end of run *)

\* The signal has been seen: the ring is drained and open operations finalized.
StopSeen ==
    /\ pc = "loop" /\ post \in {"signalled", "ended"}
    /\ pc' = "final"
    /\ UNCHANGED <<submission, reconciler, toFlush, reports, hook, delivered,
                   history>>

\* No operation is left: flush_buffered lists the directory.
StartFlush ==
    /\ pc = "final" /\ pipeline
    /\ pc' = "flush"
    /\ toFlush' = Used
    /\ UNCHANGED <<submission, reconciler, reports, hook, delivered, history>>

FlushNext(s) ==
    /\ pc = "flush" /\ s \in toFlush
    /\ toFlush' = toFlush \ {s}
    /\ cur' = files[s] /\ curSeq' = s /\ attempt' = 1
    /\ back' = "flush" /\ pc' = "submit"
    /\ UNCHANGED <<reconciler, reports, hook, delivered, history>>

\* A file that cannot be read is passed over; all are if the directory cannot.
FlushSkip(s) ==
    /\ pc = "flush" /\ s \in toFlush /\ May("disk")
    /\ toFlush' = toFlush \ {s}
    /\ UNCHANGED <<pc, submission, reconciler, reports, hook, delivered, history>>

EndRun ==
    /\ \/ pc = "flush" /\ toFlush = {}
       \/ pc = "final" /\ ~pipeline
    /\ Finish
    /\ UNCHANGED <<submission, reconciler, toFlush, hook, delivered, history>>

-----------------------------------------------------------------------------
(* The post hook *)

\* kill -TERM; before run has installed its handler the signal is fatal.
SendTerm ==
    /\ post = "idle"
    /\ post' = "signalled"
    /\ pc' = IF pc \in {"init", "start"} THEN "dead" ELSE pc
    /\ UNCHANGED <<submission, reconciler, toFlush, reports, verdict, delivered,
                   history>>

\* Mutant of ReadSignal: a missing signal file passes for clean.
ReadSignalMissingIsClean ==
    /\ post = "signalled"
    /\ post' = "ended"
    /\ verdict' = IF signal = "unknown" THEN "unknown" ELSE "clean"
    /\ UNCHANGED <<pc, submission, reconciler, toFlush, reports, delivered,
                   history>>

\* Five seconds later, wherever the agent is by then.  Without the agent's pid
\* nobody tells it to stop.
ReadSignal ==
    /\ \/ post = "signalled" /\ post' = "ended"
       \/ May("pid") /\ post = "idle" /\ post' = "unsignalled"
    /\ verdict' = IF signal = "clean" THEN "clean" ELSE "unknown"
    /\ UNCHANGED <<pc, submission, reconciler, toFlush, reports, delivered,
                   history>>

Agent ==
    \/ HeartbeatStart \/ NoEbpf \/ Attached
    \/ Receipt \/ InvalidRecord \/ Unauthorized \/ Transient
    \/ StopSeen \/ StartFlush \/ EndRun
    \/ \E s \in Seqs : FlushNext(s) \/ FlushSkip(s)

Step ==
    \/ Agent
    \/ LoadFails \/ Kill
    \/ \E op \in Ops : AssemblyFails(op) \/ ProcessUnsent(op) \/ Process(op)
    \/ SendTerm \/ ReadSignal

Next == Step /\ UNCHANGED setting

Spec == Init /\ [][Next]_vars

\* The agent keeps running: each attempt has a timeout of 30 s and each retry a
\* delay of at most 8 s, so every blocking call returns.
FairSpec == Spec /\ WF_vars(Agent /\ UNCHANGED setting)

-----------------------------------------------------------------------------
(* Properties *)

TypeOK ==
    /\ ebpf \in BOOLEAN /\ pipeline \in BOOLEAN
    /\ pc \in {"init", "start", "loop", "submit", "final", "flush", "done", "dead"}
    /\ back \in {"loop", "final", "flush"}
    /\ cur \in Records \cup {None}
    /\ curSeq \in Seqs \cup {None}
    /\ attempt \in 1..MaxAttempts
    /\ observed \in Nat /\ submitted \in Nat /\ nextSeq \in Nat
    /\ files \in [Seqs -> Records \cup {None}]
    /\ toFlush \subseteq Seqs
    /\ {signal, oldSignal} \subseteq {None, "clean", "unknown"}
    /\ heartbeat \in {None, "started", "stopped"}
    /\ post \in {"idle", "signalled", "ended", "unsignalled"}
    /\ verdict \in {None, "clean", "unknown"}
    /\ delivered \subseteq Records
    /\ seen \subseteq Ops /\ acked \subseteq Records /\ broken \subseteq Ops

\* A run that reports clean coverage has delivered every operation it observed,
\* through retries, lost answers, buffering and flushing; unless it counted, in
\* their place, records an earlier agent had left in the directory, or the
\* report is the earlier agent's.
CleanMeansDelivered ==
    pc = "done" /\ signal = "clean" /\ oldSignal # "clean" /\ acked \subseteq Ops
        => seen \subseteq delivered

\* No record is counted twice, neither when its first answer was lost nor when
\* it was buffered and flushed.
CountsAreExact ==
    observed = Cardinality(seen) /\ submitted = Cardinality(acked)

\* What was observed and is not on its way is either counted as submitted or in
\* the buffer directory, unless assembling or writing it failed.
NothingIsLost ==
    pc # "dead" => seen \subseteq acked \cup OnDisk \cup {cur} \cup broken

\* A buffered record leaves the directory only when it has been counted as
\* submitted, whatever the pipeline answers to it and however often.  The one
\* exception: buffer names start at 0 again after a restart, and a record of an
\* earlier agent goes when its name is taken.
BufferedAreKept ==
    [][\A s \in Used : files'[s] # files[s] =>
          \/ files[s] \in acked'
          \/ files[s] \in Leftover /\ s = nextSeq /\ nextSeq' = s + 1]_vars

\* The job is told clean only if the agent ended and delivered all it observed,
\* or the signal of an earlier agent said so.
VerdictIsSound ==
    verdict = "clean" /\ oldSignal # "clean" =>
        pc = "done" /\ (acked \subseteq Ops => seen \subseteq delivered)

\* A runner without eBPF is never reported clean.
NoEbpfIsUnknown ==
    ~ebpf /\ pc = "done" => signal = "unknown"

\* Once told to stop the agent ends, whatever the pipeline answers.
StopEnds == post = "signalled" ~> pc \in {"done", "dead"}

\* Submission, buffering, flushing and reporting together keep the contract of
\* a coverage report: retries, files and the hook's timing do not show in it.
Contract == INSTANCE CoverageContract WITH
    ended <- pc \in {"done", "dead"},
    report <- signal,
    told <- verdict
KeepsTheContract == Contract!Spec
=============================================================================
