-------------------------- MODULE CoverageContract --------------------------
(***************************************************************************)
(* What a coverage report promises, whatever happens between an operation  *)
(* and the pipeline: each operation is observed once, each record counted  *)
(* once and only after the pipeline has processed it, the report is written*)
(* at the end and is clean only if as many were counted as observed, and   *)
(* the job is told what the report in place says.                          *)
(***************************************************************************)
EXTENDS Naturals, FiniteSets

CONSTANTS
    Ops,        \* the operations a job may observe
    Leftover,   \* records of earlier agents
    None

VARIABLES
    seen,       \* operations observed
    delivered,  \* records the pipeline has processed
    acked,      \* records counted as submitted
    ended,      \* the agent has ended, in whatever way
    report,     \* the report in the state directory
    told        \* what the job has been told

vars == <<seen, delivered, acked, ended, report, told>>

Reports == {"clean", "unknown"}

Init ==
    /\ seen = {} /\ delivered = {} /\ acked = {} /\ ~ended
    /\ report \in Reports \cup {None}
    /\ told = None

Observe(op) ==
    /\ ~ended /\ op \notin seen
    /\ seen' = seen \cup {op}
    /\ UNCHANGED <<delivered, acked, ended, report, told>>

\* The pipeline processes a record and the agent does not learn of it.
Deliver(r) ==
    /\ ~ended
    /\ delivered' = delivered \cup {r}
    /\ UNCHANGED <<seen, acked, ended, report, told>>

\* Only what was observed, or found on disk, is counted.
Acknowledge(r) ==
    /\ ~ended /\ r \in (seen \cup Leftover) \ acked
    /\ delivered' = delivered \cup {r}
    /\ acked' = acked \cup {r}
    /\ UNCHANGED <<seen, ended, report, told>>

\* The agent ends without a report, or with one that agrees with the counts.
End ==
    /\ ~ended /\ ended'
    /\ \/ UNCHANGED report
       \/ report' = IF Cardinality(acked) >= Cardinality(seen)
                    THEN "clean" ELSE "unknown"
    /\ UNCHANGED <<seen, delivered, acked, told>>

Tell ==
    /\ told = None
    /\ told' = IF report = "clean" THEN "clean" ELSE "unknown"
    /\ UNCHANGED <<seen, delivered, acked, ended, report>>

Next ==
    \/ \E op \in Ops : Observe(op)
    \/ \E r \in Ops \cup Leftover : Deliver(r) \/ Acknowledge(r)
    \/ End \/ Tell

Spec == Init /\ [][Next]_vars

-----------------------------------------------------------------------------
(* What a job may conclude from it *)

\* A report this agent wrote is clean only if all it observed was delivered,
\* unless records of earlier agents were counted.
CleanIsComplete ==
    report = "clean" /\ acked \subseteq Ops => seen \subseteq delivered
=============================================================================
