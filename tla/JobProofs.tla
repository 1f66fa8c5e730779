------------------------------ MODULE JobProofs ------------------------------
(***************************************************************************)
(* A job's agent is one that Delivery describes, so that what is proved of *)
(* Delivery holds of it, and only a checked binary is started: for any     *)
(* operations, leftovers, bounds and faults among which the hook may not   *)
(* know the agent's pid.                                                   *)
(***************************************************************************)
EXTENDS Job, DeliveryProofs

\* Each step of a job is one of Delivery or leaves its state alone.
LEMMA JobStep == JobNext => [Next]_vars
<1>1. CASE PreHook /\ UNCHANGED vars
  BY <1>1
<1>2. CASE (AgentRuns \/ PostHook) /\ UNCHANGED <<setting, pre, onDisk, launched>>
  BY <1>2 DEF AgentRuns, PostHook, Next, Step
<1>3. SUFFICES ASSUME JobNext PROVE [Next]_vars
  OBVIOUS
<1>4. QED BY <1>1, <1>2, <1>3 DEF JobNext

\* With the hooks around it (action/start.js, action/stop.js) the agent behaves
\* as it does alone.
THEOREM JobIsADelivery == JobSpec => Spec
<1>1. JobInit => Init
  BY DEF JobInit
<1>2. [JobNext]_jobVars => [Next]_vars
  BY JobStep DEF jobVars
<1>3. QED BY <1>1, <1>2, PTL DEF JobSpec, Spec

\* The job is told clean only if its agent ended and delivered what it observed,
\* or an earlier agent's signal said so, whatever becomes of the pre hook.
THEOREM JobVerdictIsRight == JobSpec => []VerdictIsSound
BY JobIsADelivery, VerdictIsRight, PTL

-----------------------------------------------------------------------------
(* The binary *)

\* The binary is the published one once it has been verified, and nobody
\* changes it afterwards; until then it is fresh or damaged.
BInv ==
    /\ pre = "fetch_digest" => binary \in {"published", "damaged"}
    /\ pre = "verify" => /\ binary \in {"published", "damaged"}
                         /\ digest \in {"published", "unreadable"}
    /\ pre = "launch" => binary = "published"
    /\ launched => pre \in {"settle", "ended"} /\ binary = "published"

LEMMA BinaryStep == BInv /\ [JobNext]_jobVars => BInv'
<1> SUFFICES ASSUME BInv, [JobNext]_jobVars PROVE BInv'
  OBVIOUS
<1>1. CASE FetchBinary
  BY <1>1 DEF FetchBinary, BInv
<1>2. CASE FetchDigest
  BY <1>2 DEF FetchDigest, BInv
<1>3. CASE Verify
  BY <1>3 DEF Verify, onDisk, BInv
<1>4. CASE Launch
  BY <1>4 DEF Launch, BInv
<1>5. CASE Settle
  BY <1>5 DEF Settle, onDisk, BInv
<1>6. CASE UNCHANGED <<pre, onDisk, launched>>
  BY <1>6 DEF onDisk, BInv
<1>7. QED
  BY <1>1, <1>2, <1>3, <1>4, <1>5, <1>6 DEF JobNext, PreHook, jobVars

\* The agent is started (action/start.js) only from a binary whose bytes are
\* those the digest was published for, whatever downloads did to the files and
\* whatever an earlier job left in their place.
THEOREM OnlyTheCheckedRuns == JobSpec => []OnlyThePublishedRuns
<1>1. JobInit => BInv
  BY DEF JobInit, BInv
<1>2. BInv => OnlyThePublishedRuns
  BY DEF BInv, OnlyThePublishedRuns
<1>3. QED BY <1>1, <1>2, BinaryStep, PTL DEF JobSpec
=============================================================================
