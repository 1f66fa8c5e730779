---------------------------------- MODULE Job ----------------------------------
(***************************************************************************)
(* A job that uses the action: the pre hook (action/start.js) downloads    *)
(* the agent, checks it and starts it in the background, the agent runs as *)
(* Delivery says, and the post hook (action/stop.js) signals the pid the   *)
(* pre hook has left in a file.  The state directory may hold the files of *)
(* an earlier job.                                                         *)
(***************************************************************************)
EXTENDS Delivery

VARIABLES
    pre,        \* fetch_binary, fetch_digest, verify, launch, settle, ended,
                \* or failed, which fails the job
    binary,     \* the file to run: published, damaged, old, None
    digest,     \* whose digest the other file holds, unreadable, None
    pidFile,    \* names the agent, something else, or None without a file
    launched    \* the agent has been started

onDisk == <<binary, digest, pidFile>>
jobVars == <<vars, pre, onDisk, launched>>

JobInit ==
    /\ Init
    /\ pre = "fetch_binary" /\ launched = FALSE
    /\ \/ binary = None /\ digest = None /\ pidFile = None
       \/ /\ Leftover # {}
          /\ binary = "old" /\ digest = "old" /\ pidFile \in {None, "other"}

-----------------------------------------------------------------------------
(* The pre hook *)

\* download: the file is opened and emptied while the request is on its way.
\* A rejected download is caught; one that is cut off never settles, and the
\* hook ends for want of anything to do; an error of the file's stream is
\* nobody's and fails the hook.
FetchBinary ==
    /\ pre = "fetch_binary"
    /\ \/ binary' \in {"published", "damaged"} /\ pre' = "fetch_digest"
       \/ binary' \in {binary, "damaged"} /\ pre' = "ended"
       \/ May("disk") /\ binary' \in {binary, "damaged"} /\ pre' = "failed"
    /\ UNCHANGED <<digest, pidFile, launched>>

FetchDigest ==
    /\ pre = "fetch_digest"
    /\ \/ digest' \in {"published", "unreadable"} /\ pre' = "verify"
       \/ digest' \in {digest, "unreadable"} /\ pre' = "ended"
       \/ May("disk") /\ digest' \in {digest, "unreadable"} /\ pre' = "failed"
    /\ UNCHANGED <<binary, pidFile, launched>>

\* Mutant of Verify: without a readable digest there is nothing to compare.
VerifyIfReadable ==
    /\ pre = "verify"
    /\ pre' = IF digest \in {binary, "unreadable"} THEN "launch" ELSE "ended"
    /\ UNCHANGED <<onDisk, launched>>

Verify ==
    /\ pre = "verify"
    /\ pre' = IF digest = binary THEN "launch" ELSE "ended"
    /\ UNCHANGED <<onDisk, launched>>

\* The shell under sudo puts the agent in the background and writes its pid,
\* unless it cannot be run or the log or the pid cannot be written.
Launch ==
    /\ pre = "launch"
    /\ \/ launched' = TRUE /\ pidFile' = "agent" /\ pre' = "settle"
       \/ launched' = FALSE /\ UNCHANGED pidFile /\ pre' = "ended"
       \/ May("disk") /\ launched' = FALSE /\ pidFile' = "agent" /\ pre' = "settle"
       \/ /\ May("disk")
          /\ launched' = TRUE /\ pidFile' \in {pidFile, "other"} /\ pre' = "ended"
    /\ UNCHANGED <<binary, digest>>

\* Two seconds later the other steps of the job begin, whatever has become of
\* the agent.
Settle ==
    /\ pre = "settle"
    /\ pre' = "ended"
    /\ UNCHANGED <<onDisk, launched>>

PreHook == FetchBinary \/ FetchDigest \/ Verify \/ Launch \/ Settle

-----------------------------------------------------------------------------
(* The agent and the post hook, which runs even if the pre hook failed *)

AgentRuns ==
    /\ launched
    /\ \/ Agent \/ LoadFails \/ Kill
       \/ \E op \in Ops : AssemblyFails(op) \/ ProcessUnsent(op) \/ Process(op)

PostHook ==
    /\ pre \in {"ended", "failed"}
    /\ \/ pidFile = "agent" /\ SendTerm
       \/ (pidFile # "agent" \/ post # "idle") /\ ReadSignal

JobNext ==
    \/ PreHook /\ UNCHANGED vars
    \/ (AgentRuns \/ PostHook) /\ UNCHANGED <<setting, pre, onDisk, launched>>

JobSpec == JobInit /\ [][JobNext]_jobVars

\* As in Delivery: the agent, once started, keeps running.
JobFairSpec ==
    /\ JobSpec
    /\ WF_jobVars(launched /\ Agent /\ UNCHANGED <<setting, pre, onDisk, launched>>)

-----------------------------------------------------------------------------
(* Properties *)

\* What runs as root is what was published for this job, not what a failed or
\* damaged download or an earlier job has left in the directory.
OnlyThePublishedRuns == launched => binary = "published"
=============================================================================
