# A verification project for the CI recorder

The recorder watches a CI job through eBPF, groups what it sees into
*operations* (one per whitelisted command), turns each operation into a record
and delivers the record to a pipeline. What it reports is evidence, so the
questions asked here are those of an auditor: is a file credited to the right
operation, is every operation reported once, are inputs and outputs the right
ones, and does "clean coverage" mean that everything observed was delivered?

Paths are relative to the repository, e.g. `src/ci-tracer/src/observe.rs`.
`PROJECT.json` lists for each definition the lines it models.

## 1. Inventory

| Part | State | Operations | Talks to |
|---|---|---|---|
| Kernel programs (`ci-tracer-ebpf`) | `PARENT_MAP`, `EXIT_CODES` (LRU), `EVENTS` (ring) | fork, exec, exit_group, exit, open, rename, unlink, truncate | writes the ring; runs in the context of any task, on any CPU |
| Agent loop (`main.rs: run`) | position in the loop, the pending signals | drain, dispatch, select, final drain, finalize, flush | reads the ring, calls the tree, then assembly, submission and the reconciler |
| Process tree (`observe.rs`) | `parents`, `tracked`, `operations` | `on_exec`, `on_file`, `on_exit`, `finalize_all` | `/proc` through `ProcSource`; returns finished operations |
| Path states (`observe.rs`, `scope.rs`) | read, wrote, deleted per path | `record`, `inputs`, `outputs` | part of an operation |
| Assembly (`assemble.rs`, `hash.rs`, `resolve.rs`, `runrecord.rs`) | none | operation to record: hash the inputs and outputs, ask the tools for their versions | the file system; runs `git`, `node`, `go` one after the other and waits for each |
| Submission (`submit.rs`) | attempt number | submit with retries and backoff | HTTP to the pipeline |
| Reconciler (`reconcile.rs`) | `observed`, `submitted`, `next_buffer_seq`; buffer, signal and heartbeat files | record, buffer, flush, finish | the state directory, which can outlive the agent |
| Start hook (`action/start.js`) | binary, checksum file, pid file | download both, verify, launch in the background, wait 2 s | the network, files, a shell under sudo |
| Post hook (`action/stop.js`) | none | SIGTERM to the pid in the file, wait 5 s, read the report | signals and files of the agent |
| Whitelist (`config.rs`, `match_whitelist`) | the patterns | match a comm | the kernel's 16-byte comm |
| Adapter, detect, diag | read once | `git_head` runs `git`; nothing else changes state | environment |

The agent is one thread: a record is assembled and submitted, with its retries
and sleeps, inside `dispatch`, while the kernel programs go on filling the
ring. What is hard:

* **Interleaving of tasks.** Events of threads and processes arrive in whatever
  order the scheduler produced. Threads share a process' exit status entry but
  have ids, and events, of their own.
* **Stale identities.** Pids are reused, exit records can be lost, and the tree
  keys everything by pid.
* **Bounds.** The ring drops, the LRU maps evict, the parent walk stops after 64.
* **Delivery.** Answers are lost, retries repeat, files cannot be written, the
  agent is killed, the state directory was used before, the hook does not wait.
* **Self-observation.** The agent's own children pass the same probes as the
  workload: what it does to write a record feeds the ring it drains.
* **Names.** Paths are the strings a program passed, relative ones included.

What makes the parts correct: *tree* - an open operation is never replaced,
mixed with another or returned twice, and every descendant that can be known is
part of it; *observation* - no foreign files, one operation per invocation, the
root's own exit code, the run ends when told to; *paths* - inputs and outputs
agree with what happened to the files; *delivery* - exact counts, nothing lost,
clean means delivered, the job is told what the agent reported; *assembly* - a
file that was used and is still there is in the record, with the digest of the
committed content if it is an input; *job* - only the published binary runs, and
no failure of a hook turns into a clean verdict.

## 2. Modules

```
PathAccess ----------- ProcessTree ---- OperationLedger (abstract), ProcessTreeProofs
  |                       |      \------ Whitelisting -- WhitelistingProofs
FileAccess (MC)           |                   \--------- MCProcessTree
  |                       |
Assembly (MC)        Observation (MC) -- Probes
  |                    |         \------ ObservationProofs -- AttributionProofs
AssemblyProofs       Recorder (MC)

CoverageContract (abstract) -- CoverageContractProofs
  |
Delivery (MC) ------ Job (MC) ---------- JobProofs
  \-- DeliveryProofs ----------------------/
```

**`PathAccess`** - `Operation::record`, `inputs` and `outputs` for one path:
three booleans and five kinds of access. Used by the next two.

**`ProcessTree`** - `observe.rs`. `parents`, `tracked`, `operations` are the
maps of the struct; `emitted` is what the last call returned. `OnExec`, `OnFile`
and `OnExit` model the whole method: the parent link, `membership` with the walk
over parents and `start_operation` (`RootOf`, `Starts`, `InheritedRoot`,
`Admitted`), the refresh of command line and directory from `/proc` (which may
answer anything: `ProcSource`), and the recording. `MaxWalk` is the 64 of the code. A function
that returns early, such as `on_file` without a root, leaves the tables as the
early return does. `Next` is any sequence of events, more than the kernel can
produce, so its properties rest on nothing outside the file.

**`Whitelisting`** - `match_whitelist` and the comm it compares with, over byte
sequences and with `CommLen` for the 16 of the code: the kernel cuts a name to
`CommLen - 1` bytes, the code cuts the pattern to `CommLen`, and a cut inside a
character (`Splits`) panics. It extends `ProcessTree`, says what its `Comms` and
`Whitelist` are, and puts the tree into an agent that a pattern may end:
`AgentSpec` has one action per handler, each of which either does what the tree
does or is a `Panic`, after which nothing happens any more. An event of a pid
that is tracked is not matched and cannot panic (`Fatal`).

**`OperationLedger`** - what the tree promises its caller, in terms of
operations alone: one opens at a time, grows, and is returned once; paths and
members are only added, command and directory are set once. `ProcessTree`
implements it (`KeepsTheLedger`), `operations` and `emitted` mapped to themselves.

**`Probes`** - the eBPF programs and, as their environment, the tasks: fork,
threads, exec, a change of title, file calls, `exit_group`, exits, pids handed
out again. `Workload` says which of these an instance allows, `MaxTasks` how many tasks
there are in all beside the runner. Every record
carries `src`, the truth about the process behind it (incarnation, ancestors,
whether it invoked a whitelisted command, the statuses its threads passed to
`exit_group`). The code never reads it; only properties do. `Output` on a full
ring drops the record under `"drops"`, and otherwise the writer waits, which
stands for "the ring was large enough".

**`Observation`** - the loop of `run` over `Probes` and an instance of
`ProcessTree`. One step dispatches one record. `ProcFs` answers nothing for a pid that is
free and anything for one in use. `rootInc` and `opened` are history.

**`Recorder`** - the same loop with the agent's own children. `Assembly(op)`
lists the processes `process_operation` runs for a record, in order: `git
rev-parse` (`Hasher::new`), three `git` calls per tracked input, `node` and `go`
for their versions, cut short where the code returns early (no working
directory, no repository, an untracked file, a failing call). While `job` is not
empty the loop stands still (`Command::output` waits), the children fork, exec
and exit like anybody else, and their records fill the ring. A child with a
whitelisted command becomes an operation to be assembled in turn. What the
children do to files (`ChildAccessesFile`) goes on when the workload has become
quiet, and nothing is assumed of it.

**`Delivery`** - from a finished operation to the verdict of the job:
`process_operation`, the submitter with one action per class of answer
(`Receipt`, `InvalidRecord`, `Unauthorized`, `Transient`), the buffer, the
flush, `finish`, the early exits of `main`, and the post hook. An attempt whose
answer is lost may have been processed (`delivered`). Every write of a file may
fail unnoticed, as it does in the code. `Faults` lists what may go
wrong; `Leftover` are records an earlier agent left in the directory. Under
`"pid"` the hook has no pid to signal.

**`CoverageContract`** - what a coverage report promises, without files, retries
or hooks: an operation is observed once, a record counted once and only after
the pipeline processed it, the report agrees with the counts, the job is told
what the report in place says. `Delivery` implements it (`KeepsTheContract`),
with the report read off the signal file.

**`Job`** - `start.js` around `Delivery`: both downloads (completed, rejected,
cut off, or failing on the file system), the comparison of the checksum, the
launch in the background with its pid file, the two seconds; then the post hook,
with or without a pid, also when the first hook has failed. The directory may
hold the binary, checksum and pid file of an earlier job. Every step of a job is
one of `Delivery` or leaves its state alone (`JobIsADelivery`).

**`FileAccess`** - the file calls of one operation beside the path table the tree
builds from their records. Its processes call side by side, and a call has steps
of its own: it is entered, where its probe sends the first record (`Open`,
`Rename`, `Unlink`, `Truncate`); a rename sends a second one (`SendRest`); it
takes effect or fails, and returns (`OpenReturns` and so on). The ring may lose
any record. Names are absolute, or relative to the caller's directory. `exists`,
`hasRead` and `hasWritten` keep what really happened, and the properties compare
it with `ScopedInputs` and `ScopedOutputs`. `misled` keeps the files about which
the records say something else than what happened: an access was lost or
resolved to another file, a deletion failed, or it was reported while another
call was about to create the file. The properties leave out these files, and
those with a deletion under way: what they say is that such a
file damages no other one's entry, and that a later write makes it good.

**`Assembly`** - what a record says of those files when the operation ends:
`hash_set` and `Hasher` (`is_tracked`, `hash_input` with git's normalization and
its fallback to raw bytes, `hash_output`). `Circumstance` says how git answers
about a file and what others did to it since. A digest is the bytes it is
computed from. Any state of `FileAccess` may be the last, so the module adds
operators and properties and no steps.

The operators marked *Mutant of ...* in the modules are faulty variants of the
definition they name. They are not part of any specification; each shows that a
property would notice the fault.

## 3. Runs

| Run | Question | Bounds |
|---|---|---|
| `ProcessTree` | tree invariants, completeness of the walk, refinement of the ledger, in an agent that a pattern may end | `Whitelisting`: 3 pids, walk of 2, a 3-byte comm, names and patterns of 2 to 5 bytes, one configuration with a pattern that panics |
| `ObservationIsolation` | no foreign files and no foreign exit code whatever is lost | the runner and 2 tasks, ring 2, maps 1, threads, orphans, drops, the stop at any moment |
| `ObservationDisciplined` | isolation, one operation per invocation, exit codes, every descendant that execs in the operation, with pids reused | the runner and 3 pids handed out up to twice, 3 tasks in all, titles, ring 1 |
| `ObservationStop` | the stop signal ends the run although the agent's children add to the ring and to the operations | `Recorder`: the runner, a process and a helper pid, ring 4, drops, `node` whitelisted |
| `Delivery` | counts, coverage, verdict, loss, end of run, refinement of the contract, the binary that runs | `Job`: 2 operations, 2 leftovers, 3 file names, 2 attempts, all faults |
| `FileAccess` | inputs and outputs against the truth; entries and digests of the record | `Assembly`: 2 processes, 2 directories, 1 base name, one file named relatively and one absolutely, losses, failures, one file in any circumstance |
| `ObservationSubshell`, `ObservationThreadRoot`, `ObservationStolenExitCode`, `DeliveryNoEbpf`, `FileAccessRelativeCwd`, `Whitelisting` | section 5 | smallest that show it |

Why the bounds are enough for the interesting cases. Three pids give a parent
cycle, a chain longer than one link and a stranger; a walk of two is exactly the
longest chain without repetition, so `WalkIsComplete` fails for a walk of one
(64 suffices for 65 pids in a chain, and is a real bound beyond). Two
generations give a pid a past; three tasks beside the runner are a
root with a child and a grandchild, or a pid's next owner beside a root and its child. A ring of one or two is full almost always and
maps of one entry evict at each second insert. A thread acts under the comm it
inherits and without an exec, as a child that never execs does: bare forks are in
`ObservationSubshell` and in the theorem, not in `ObservationIsolation`. Two operations allow one to be
delivered while the other is buffered or failed, and two leftovers can make up
for both or be overwritten by both; two attempts give a first, a
retried and an exhausted one, which is all the attempt counter distinguishes;
three file names let buffered records collide with leftovers. A comm of three
bytes (two kept) has names and patterns that fit, fill it and exceed it, and one
with a character across the cut. Two processes and two files let each call meet any other one on
the same file between entry, records and effect, and rename it to and fro; that a
file has one name is a bound of the run, and the proofs have any number. A ring of
four is filled by one child of the agent (exec, exit, a file) and the workload
beside it. Files are hashed one by one, so one file in any circumstance, with
the others in calm ones, is every case `UsedFilesAreHashed` can tell apart. Symmetry over the
pids other than the runner is used for safety properties only. Deadlock is not
checked where pids, generations or operations run out and the system stops.

What each property says:

* `OpenRootsAreTracked`, `OperationsAreFiled` (tree): the root of an open
  operation is tracked to itself. This is what keeps `start_operation` from
  replacing an operation that is still accumulating.
* `WalkIsComplete`: the bounded walk finds a tracked ancestor exactly when there
  is one, in graphs with cycles too. `ChainOf` defines the ancestors without the
  walk, as the least set closed under the parent links.
* `NoForeignIO`: a file is credited only to an operation whose opener is the
  process or an ancestor of it.
* `InheritanceComplete`: and it is credited, if there is such an operation.
* `OneOperationPerInvocation`, `ExitCodeReported`, `ExitCodeIsOwn`.
* `StopEndsTheRun`: after the signal, once the workload is quiet, the ring is
  emptied, no operation is kept back and every record's children have run -
  although assembling a record puts more into the ring, and with `node`
  whitelisted opens further operations. Their assembly fails, because the
  child's directory is gone by then, which is what ends the chain.
* `ListedCommandsStart` (violated, section 5): a process without an operation
  that runs a listed command starts one.
* `CountsAreExact`, `CleanMeansDelivered`, `NothingIsLost`, `VerdictIsSound`,
  `StopEnds`: see the comments in `Delivery`.
* `BufferedAreKept`: a record leaves the buffer directory only after it was
  acknowledged; a leftover also when a new record takes the name of its file.
* `KeepsTheContract`: no interleaving of retries, failing writes, kills and
  hooks makes a report that the contract would not make.
* `OnlyThePublishedRuns`: no failed, cut off or damaged download, and no file of
  an earlier job, gets the wrong binary started.
* `ChangedFilesAreOutputs`, `ReadFilesAreRecorded`, `InputsAreNotProduced`: a
  file produced and still there is an output, one that was read is recorded, and
  none is both produced and an input, whatever calls came in between and whatever
  was lost or failed on *other* files. `EveryReadIsRecorded` has no exception for
  misleading records and is violated (section 5).
* `UsedFilesAreHashed`: whichever call to git fails, a used file in scope that
  is still there has an entry. `InputsJoinTheSource`: a tracked input nobody
  else changed has the digest of the committed content, or of the checked out
  bytes when git could not give it - because files the operation wrote are not
  inputs.

**Fairness.** `Recorder`: the loop's own steps are weakly fair, since tokio
keeps polling the only task; `SeeSignal` is strongly fair, since the signal stays
pending and `select!` polls it in each round, so that a 10 ms tick cannot win for
ever; `Child` is weakly fair: `git`, `node` and `go` start, end and are waited
for (the code sets no timeout, so a hanging tool hangs the agent). Nothing is
assumed of the workload, and `StopEndsTheRun` is conditional on a quiet one
because the inner loop does not look at the signal while the ring is not empty.
`Job`: weak fairness of the agent once launched: it runs to its next answer,
every HTTP attempt has a timeout. It is assumed neither that operations arrive
nor that the pipeline ever answers well, nor that a hook gets anywhere.

## 4. Proofs

The eight proof modules hold for every value of the constants, under the
`ASSUME`s named in the modules and the premises named in the theorems.

*Process tree.* `Inv` (type correctness, `OperationsAreFiled`,
`OpenRootsAreTracked`) is inductive. The type invariant alone is not enough:
`OperationsAreFiled` needs `RootOf` to return either the tracked root or, for
a start, a pid without an operation, and only `OpenRootsAreTracked` says that an
untracked pid has none. One lemma per event shows that the invariant is kept
*and* that the step is one of the ledger or a stutter; the refinement theorem
`TreeKeepsTheLedger` follows from both. Assumed: the named `ASSUME`s of the
module (`NoPid` is no pid, `None` is no value).

`WalkMissesNobody` proves the walk against the least closed set of ancestors,
for any graph on finitely many pids. The walk is a function on step numbers, so
that "the pids visited up to step k" can be spoken of without recursion: as long
as no step repeats a pid these are k different members of the chain, a repeated
pid closes the set of those visited, and a chain no longer than the walk cannot
have a member it did not reach (pigeonhole, and a least step of which it fails).

*Delivery.* `IInv` has four parts. The counters are cardinalities of history
sets (`Counts`). For "no record counted twice" one must know that a record waiting on
disk or being sent has not been counted (`WaitingIsUncounted`,
`SendingIsUncounted`): during the flush, "waiting" shrinks to the entries the
flush has yet to visit, because a file whose removal failed stays on disk,
counted. `SignalIsOwn` says that the signal file is the earlier agent's until
`finish`, and after it either still that one (the write failed) or in agreement
with the counters.
`CleanMeansDelivered` is then a counting argument: with no leftovers counted,
`acked` is a subset of `seen`, and two finite sets of which the smaller is
not smaller are equal. `NothingIsLost` has an inductive invariant of its own
(`KInv`): names at or above `nextSeq` hold leftovers only, so a new file never
overwrites a record of this agent. Assumed: finitely many operations and
leftovers, disjoint. `BufferedStay` looks at the steps that change a
file: an acknowledgement, which counts the record before its file goes
(`LeavesCounted`), and the writing of a new one, which takes the name `nextSeq`
and, by `KInv`, at most a leftover's place (`BufferTakesOne`). A refused record
keeps its file, because only one that was never sent before is given a name.

`DeliveryKeepsTheContract` shows step by step that `Delivery` refines the
contract: signalling, buffering and waiting are stutters, an attempt whose answer
is lost is a `Deliver`, `finish` is `End`. It needs the counters to be exact at
`finish`, hence `IInv`. `ContractIsEnough` is then about the contract alone:
whatever keeps it says clean only if all was delivered, unless leftovers were
counted.

*Job.* `JobIsADelivery` (every job is a behaviour of `Delivery`) carries all
that is proved of `Delivery` over to the composition; `JobVerdictIsRight` is one
instance. `OnlyTheCheckedRuns` has its own invariant (`BInv`): the binary that
reaches `verify` is one this job has written to, its digest file too, and after
`verify` nobody changes it.

*Observation.* `TypeCorrect` has `TInv` as its invariant: the declared types, the
tree's own `Inv`, and `CInv` (below) - a record is of its type only if the status
it carries is one. `TreeIsFed` shows that the loop drives `ProcessTree`
step by step, so what is proved of the tree for any events holds of those the
ring delivers. Assumed beside the `ASSUME`s of `ProcessTree`: those of `Probes`,
which say that the runner is a task, that some comm is not whitelisted, that
statuses are bytes and that the bounds are positive.

`ExitCodesAreOwn`: a reported exit code is one a thread of the
root's own process passed to `exit_group`. The invariant `CInv` follows the code
on its way. `CodesAreOwn`: an entry of `EXIT_CODES` belongs to the process that
has the pid now - which holds because a leader cannot be freed before its last
task has removed the entry, hence `TasksAreGrouped`. `RecordsAreOwn`: an exit
record in the ring keeps the truth it was emitted with, whoever has the pid
later. `OperationsHaveCodes`: nothing but `on_exit` sets the code of an operation
that is returned. Losses by the ring and evictions by the map are covered.
`ExitCodesAreReported` is the converse, and needs what finding 3 and the LRU map
take away: one thread per process, and room in `EXIT_CODES` (`CodesHaveRoom`, a
premise on the states of the run: a key that is absent finds a free entry). Drops, orphans,
bare forks and reuse are allowed.

*Attribution.* Four theorems, each under the least discipline its argument needs.

* `NoForeignIOWithoutReuse` (`MaxGen = 1`, any workload). `Lineage(P, A)` fixes
  for each tid the process `P` and its ancestors `A`, and says of every link - in
  `PARENT_MAP`, in a record, in the tree - that it leads to a process whose
  ancestors are ancestors of the tid. Without reuse a link that is late, or left
  over after its process is gone, is still true; a lost one is only missing.
* `OneOperationEach` (no threads, no bare forks; everything else allowed, reuse
  and losses too). `OInv`: the records of a pid come in the order of its
  incarnations, and an exit record is its incarnation's last (`Ordered`); an
  incarnation that opened an operation is still tracked or has nothing more to
  come (`Remembered`); and a comm in the whitelist is the sign of an
  invocation (`Invoked`).
* `NoForeignIOWithReuse` (single-threaded, exec first, no orphans, no drops,
  no link evicted; pids reused at will, the agent arbitrarily far behind).
  `Heritage(A, L, V)` fixes the ancestors `A` and the parent `L` of each incarnation, and
  for each pid the incarnation `V` that the tree knows it by: the one its next
  record is about, which moves on when `on_exit` is dispatched. What the tree has
  of a pid is then of `<<pid, V[pid]>>`. The heart is that a process outlives its
  descendants, so that the exit record of an ancestor is behind all of theirs in the ring: when a
  record is dispatched its ancestors are all still current (`HeadIsCurrent`).
* `DescendantsAreCredited` (the same, and nobody has more proper ancestors than
  the walk has steps). `Heritage` also says that links are complete: what is
  missing in the tree is in a record of the ring ahead of any access that needs
  it. If the walk found no root, it would have visited `MaxWalk + 1` different
  processes, all ancestors of the process or itself and none the root; there are
  fewer of these. The premise names the 64 of the code: with longer chains the
  property fails.

The premises `LinksHaveRoom`, `CodesHaveRoom` and `RecordsAreShallow` speak of
the states of the run, not of the constants, because 10240 entries and 64 steps
are plenty for most jobs but below what a machine can have.
`HasRoom` is exactly the condition under which an insert evicts nothing. In
`ObservationDisciplined` the maps and the walk are as large as the pids, so that
all states meet them.

*Files.* `AssemblyProofs` proves `FileAccess` and `Assembly` for any processes,
files, names, flags and working directories, with calls side by side, losses and failures,
and no premise. The invariant `FInv` speaks of each file that is not misled
(`Told`). What the operation wrote and what is there is marked so under some name
(`WrittenIsMarked`, `PresentIsOutput`, `PresentIsRecorded`), unless a deletion of it is under way; a call that has been
reported counts as if it had taken effect. To keep that up, a deleted
name whose file is there needs another one that makes up for it
(`DeletedIsOutput`), and a file about to be created must be an output already
(`CreatedIsOutput`). A deletion reported while a creation is under way would
break the latter, which is why `misled` counts it in.

*Whitelisting.* `LongPatternsAreDead`: for any alphabet, names and patterns
(`WhitelistIsExact`, in both directions). `AgentHasTheTree`: a step of the agent
is a step of the tree or leaves it alone, so that all that is proved of the tree
holds up to the panic.

*Model-checked only:* `StopEnds` and `StopEndsTheRun`, since liveness is out of
the prover's reach. Every other property of a passing run is a theorem. Where a
run combines more than a theorem does, the run goes further:
`ObservationIsolation` checks `ExitCodeIsOwn` and types with threads and losses
and isolation without reuse; nothing is claimed of isolation with reuse *and*
losses, where it fails (section 5).

## 5. Findings

Places where the documents say one thing and the code does another. Each has a
run whose counterexample is the scenario.

1. **Subshells are not inherited** (`ObservationSubshell`). Only exec events
   teach the tree a parent. A child that forks and opens files before, or
   without, an exec is a stranger. `src/specs/observation.md:76`.
2. **A thread can open a second operation** (`ObservationThreadRoot`). File
   events carry the thread id; a thread has no exec event and hence no parent.
   `src/specs/observation.md:83`.
3. **A sibling thread takes the exit code** (`ObservationStolenExitCode`). The
   status is kept by process and removed by the first task that exits.
   `src/specs/observation.md:102`.
4. **Clean without eBPF** (`DeliveryNoEbpf`). Nothing observed, nothing
   submitted, 0 >= 0. `src/specs/deployment.md:62`.
5. **Relative names of another directory** (`FileAccessRelativeCwd`). A file
   read as `a` after a `chdir` is recorded under the root's directory.
   `src/specs/observation.md:104`.
6. **Long patterns are dead** (`Whitelisting`). A pattern of 16 bytes or more is
   cut at 16 and compared with a comm of at most 15: it never matches, and its
   command, `npm run test:unit` say, starts no operation.
   `src/specs/observation.md:75`; the comments at `src/ci-tracer/src/observe.rs:29`
   and `:177` speak of a prefix, truncated to compare.

Limits of the code the properties step around, on purpose and visibly:

* A whitelisted command started inside an operation is absorbed into it (`Starts` is
  asked only of pids without a root); `OneOperationPerInvocation` therefore says
  "at most one", and only opening is constrained.
* Pid reuse together with orphans or losses. `on_exit` forgets the exiting pid
  only. With the `Workload` of `ObservationDisciplined` widened by orphans, TLC
  finds `NoForeignIO` violated in 13 steps: the link that an orphan's late exec
  brings leads to the pid of its dead parent, under which another operation is
  open by then. Widened by drops it is violated in 8: the exit record is lost and
  the pid's next owner is taken for a member of the old operation.
  `src/specs/observation.md:77` promises isolation without exception, so the code
  falls short of it here, though only after a pid has come round. `NoForeignIO` is checked
  and proved with orphans and losses without reuse, and with reuse without them;
  nothing rests on more.
* A descendant whose parent exits before the descendant execs is lost, because
  `on_exit` removes the link that would lead past it. `InheritanceComplete` is
  checked and proved for processes that outlive their descendants.
* A shared state directory: leftovers count as submitted and can make coverage
  clean while an operation of this run failed; a report whose write fails, or that
  is not made before the hook reads, leaves the earlier one in place.
  `CleanMeansDelivered` and `VerdictIsSound` exclude exactly these cases by name
  (`oldSignal`, counted leftovers), and hold in all others.
  Leftover files are overwritten by new ones, whose numbers start at 0;
  `BufferedAreKept` allows exactly that.
* Self-observation: with `git` in the whitelist each assembly opens the next
  operation, `Hasher::new` being called before anything can fail; the run never
  ends and TLC finds `StopEndsTheRun` violated for `Whitelist = {"git"}`. With
  `node` or `go` the probe becomes an operation whose directory is gone when it
  is assembled: it counts as observed, never as submitted, so that coverage is
  never clean.
* Digests: inputs are normalized by git, outputs are hashed raw. Where a checkout
  differs from the blob, one step's output and the next step's input of the same
  bytes have different digests, against the join of `src/specs/content-hashing.md:15`.
  A file that cannot be read has no entry and a log line; if no file can be
  read, the field is null.
* The whitelist: a pattern with a multi-byte character across its sixteenth byte
  ends the agent at the first event of an untracked pid (that an earlier pattern
  does not match): `Panic` in `Whitelisting`. The open operations are
  lost and no report is written. A pattern of 15 bytes matches every name
  that begins so.
* `start.js`: an error of the file stream has no listener and fails the hook,
  which means to fail open; a download has no timeout, so the hook can wait as
  long as the server does; a stale pid file makes `stop.js` signal, as root,
  whoever has that pid. With `hard_fail` the agent's exit code is seen by nobody,
  since it runs in the background.
* `/proc` is read when the event is drained. A root that is gone has no command
  line and directory; one whose pid has a new owner gets the owner's.
* An `openat2` whose flags cannot be read counts as a read; a path that cannot be
  read is empty and resolves to the working directory.
* A failed unlink or rename marks the path deleted, since records are sent when
  the call begins, and so does one that is entered after a creation and takes
  effect before it. `FileAccess` has both; the file is then missing from the
  record (`misled`) until it is written again, and no other file is harmed.
* A record the pipeline called invalid (400, 422) is buffered and sent again at
  the flush, where `src/specs/submission.md:82` says "not retried".
* A ring overflow is not noticed (`OBS_002` of `src/specs/observation.md`:
  "record flagged degraded").
* Aliases: states are kept per name until the end. A file produced under one
  name and read under another is both an input and an output.
  `InputsAreNotProduced` exempts files the operation called by two names.

## 6. Not modelled, and why

* `adapter/*`: beside `git_head` (`Recorder`) it copies environment variables
  once at start; a missing repository or commit is the fault `assembly` of
  `Delivery`. No state, no order of events.
* `runrecord.rs`, the rest of `assemble.rs`: field by field copies, the wire
  format and the heuristic for the record's type, which nothing else depends on.
* `config.rs`: splitting and trimming strings. What behaviour depends on is a
  constant or a choice of the initial state.
* `diag.rs`, `detect.rs`: formatting and constants.
* `start.js`: mounting the tracing file systems, which cannot fail the hook;
  `stop.js`: `chmod` of the files to upload. `noop.js` is empty.
* The hash function and the bytes of paths and commands.
* `mock-pipeline` (a test double: its answers are among those of `Delivery`'s
  environment), `xtask`, `build.rs`, `e2e.sh`, tests: not the running system.
* A thread that execs (the kernel gives it its leader's id), and a directory
  descriptor as the base of a relative name, which the code treats like a
  working directory: exec is of single-threaded processes, and relative names
  are relative to a working directory.
* A report that is read while it is being written: the hook then fails to parse
  it and says so, which counts as "unknown".
* Legacy system calls without a probe (`open`, `unlink`, `rename`): invisible to
  the code, hence absent from the environment's file accesses.

## 7. Plan

Done: the tree with its ledger; probes and loop; the agent's own children; the
whitelist; delivery with its contract; the job with both hooks; files and what
a record says of them; proofs of all safety and action properties the passing
runs check.

Next, most important first:

1. Theorems about `Recorder`: its loop feeds the tree although the agent's own
   children fill the ring, and keeps to its types.
2. Isolation with reuse and orphans when nothing is lost: which links may go
   stale, and for how long (the record of a new owner's exec refreshes them).
3. `openat2` with unreadable flags and unreadable paths as faults of
   `FileAccess`.
4. `/proc` answers tied to the incarnation that owns the pid at the drain.

New questions share runs with, or replace, the present ones rather than add to
them, so that the whole project stays checkable in minutes.
