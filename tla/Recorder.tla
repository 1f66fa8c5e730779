------------------------------- MODULE Recorder -------------------------------
(***************************************************************************)
(* The agent as a process among those it observes.  To assemble a record,  *)
(* process_operation (ci-tracer/src/main.rs) runs git for the hashes       *)
(* (hash.rs), node and go for their versions (resolve.rs), one after the   *)
(* other, and waits for each.  Meanwhile it does not drain the ring, and   *)
(* the kernel's probes see its children as any other process: the ring     *)
(* fills with them, and a child whose command is whitelisted becomes an    *)
(* operation that is to be assembled in turn.                              *)
(*                                                                         *)
(* The agent's children use a pid of their own, Helper, and are forked by  *)
(* a process that runs no whitelisted command, as the runner is.           *)
(***************************************************************************)
EXTENDS Observation, SequencesExt

CONSTANT Helper

Gits == {"rev-parse", "ls-files", "hash-object", "cat-file"}
Tools == Gits \cup {"node", "go"}

ASSUME HelperAssumption == Helper \in Pids \ {Runner}
ASSUME ToolsAssumption == {"git", "node", "go"} \subseteq Comms /\ 0 \in Codes

VARIABLE job    \* the children process_operation has yet to run, in order

recorderVars == <<vars, job>>

CommOf(tool) == IF tool \in Gits THEN "git" ELSE tool

-----------------------------------------------------------------------------
(* Which children a record needs *)

\* hash_input for one input that is tracked.
HashInput == <<"ls-files", "hash-object", "cat-file">>

\* Mutant of Assembly: the tools are asked before the directory is known.
AssemblyProbesFirst(op) ==
    LET inputs == {f \in Paths : Tree!IsInput(op.paths[f])}
    IN  {<<"rev-parse">> \o FlattenSeq([i \in 1..n |-> HashInput]) \o <<"node", "go">>
            : n \in 0..Cardinality(inputs)}

\* Hasher::new looks for a repository.  assemble ends there without a working
\* directory, or without a repo or commit; otherwise it hashes the inputs in
\* scope and asks the tools for their versions.
Assembly(op) ==
    LET inputs == {f \in Paths : Tree!IsInput(op.paths[f])}
        Full(n) == <<"rev-parse">> \o FlattenSeq([i \in 1..n |-> HashInput])
                                   \o <<"node", "go">>
    IN  {<<"rev-parse">>} \cup
        IF op.working_directory = None THEN {}
        ELSE {Full(n) : n \in 0..Cardinality(inputs)}

\* process_operation for each operation of a set.
Assemblies(ops) ==
    LET s == SetToSeq(ops)
    IN  {FlattenSeq(js) : js \in {t \in [1..Len(s) -> UNION {Assembly(o) : o \in ops}] :
                                     \A i \in 1..Len(s) : t[i] \in Assembly(s[i])}}

\* What a failing child spares: without a repository no input is looked up in
\* it, an untracked one has no blob, and without a blob there is none to print.
NotHashing(tool) == tool \notin Range(HashInput)

Spared(tool, rest) ==
    CASE tool = "rev-parse" /\ rest # <<>> -> SelectInSeq(rest, NotHashing) - 1
      [] tool = "ls-files" -> 2
      [] tool = "hash-object" -> 1
      [] OTHER -> 0

Rest(ok) ==
    LET rest == Tail(job)
        spared == IF ok THEN 0 ELSE Spared(Head(job), rest)
    IN  SubSeq(rest, spared + 1, Len(rest))

-----------------------------------------------------------------------------
(* The children *)

SpawnChild ==
    /\ job # <<>>
    /\ Fork(Runner, Helper)
    /\ UNCHANGED <<agentVars, stop, job>>

\* A tool that is not installed leaves a child that exits without an exec.
ExecChild ==
    /\ job # <<>> /\ task[Helper].st = "forked"
    /\ Exec(Helper, CommOf(Head(job)))
    /\ UNCHANGED <<agentVars, stop, job>>

ChildAsksToExit ==
    /\ \E code \in Codes : ExitGroup(Helper, code)
    /\ UNCHANGED <<agentVars, stop, job>>

\* Command::output returns once the child is gone.
ReapChild ==
    LET ok == task[Helper].comm = CommOf(Head(job)) /\ asked[Helper] = {0}
    IN  /\ job # <<>> /\ Alive(Helper)
        /\ task' = [task EXCEPT ![Helper] = FreeTask(Helper, 0, IdleComm)]
        /\ asked' = [asked EXCEPT ![Helper] = {}]
        /\ TraceExit(Helper)
        /\ job' = Rest(ok)
        /\ UNCHANGED <<PARENT_MAP, agentVars, stop>>

Child == SpawnChild \/ ExecChild \/ ChildAsksToExit \/ ReapChild

\* A child opens what files it likes, and is seen to.
ChildAccessesFile ==
    /\ \E a \in Accesses, f \in Paths : FileAccess(Helper, a, f)
    /\ UNCHANGED <<agentVars, stop, job>>

-----------------------------------------------------------------------------
(* The agent, which waits while a child is to be run *)

\* git_head: without a commit in the environment the adapter asks git, once the
\* programs are attached.
RecorderInit ==
    /\ Init
    /\ job \in {<<>>, <<"rev-parse">>}

DispatchAndAssemble ==
    /\ job = <<>>
    /\ Dispatch
    /\ job' \in Assemblies(emitted')

FinalizeAndAssemble ==
    /\ job = <<>>
    /\ Finalize
    /\ job' \in Assemblies(emitted')

Wait == job = <<>> /\ (DrainDone \/ Tick) /\ UNCHANGED job

SeeSignal == job = <<>> /\ Stopped /\ UNCHANGED job

\* The observed processes run one command each.
Workflow ==
    /\ pc # "done"
    /\ \E t \in Pids \ {Helper} :
          \/ \E c \in Pids \ {Helper} : Fork(t, c)
          \/ task[t].st = "forked" /\ \E comm \in Comms : Exec(t, comm)
          \/ \E a \in Accesses, f \in Paths : FileAccess(t, a, f)
          \/ \E code \in Codes : ExitGroup(t, code)
          \/ Exit(t)
    /\ UNCHANGED <<agentVars, stop, job>>

RecorderNext ==
    \/ DispatchAndAssemble \/ FinalizeAndAssemble \/ Wait \/ SeeSignal
    \/ Child \/ ChildAccessesFile
    \/ Workflow
    \/ Signal /\ UNCHANGED job

\* The loop keeps running and the tools it calls end; a signal that is pending
\* when select is polled is seen.
RecorderSpec ==
    /\ RecorderInit /\ [][RecorderNext]_recorderVars
    /\ WF_recorderVars(DispatchAndAssemble \/ FinalizeAndAssemble \/ Wait)
    /\ WF_recorderVars(Child)
    /\ SF_recorderVars(SeeSignal)

-----------------------------------------------------------------------------
(* Properties *)

\* After a stop signal, once the workload is quiet, the agent empties the ring,
\* hands over every operation and assembles it, although assembling adds to the
\* ring and, with a tool in the whitelist, to the operations.
Quiet == <>[][~Workflow]_recorderVars

StopEndsTheRun ==
    Quiet => (stop ~> /\ pc = "done" /\ job = <<>>
                      /\ \A r \in Pids : operations[r] = None)
=============================================================================
