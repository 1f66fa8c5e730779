----------------------------- MODULE Whitelisting -----------------------------
(***************************************************************************)
(* Which commands start an operation: match_whitelist                      *)
(* (ci-tracer/src/observe.rs) compares the patterns of the configuration,  *)
(* in their order, with the comm of a process, which the kernel cuts to    *)
(* fit a field that ends with a NUL.  Names and patterns are sequences of  *)
(* bytes, and the tree's whitelist is what the patterns match.             *)
(*                                                                         *)
(* A pattern that is too long is sliced, and slicing inside a character    *)
(* panics, which ends the agent: AgentSpec is the tree of ProcessTree in   *)
(* an agent that may end so.                                               *)
(***************************************************************************)
EXTENDS ProcessTree, Sequences

CONSTANTS
    CommLen,    \* COMM_LEN, 16 in the code
    Inner,      \* the bytes that continue a character
    Configs,    \* sequences of patterns the agent may be configured with
    Names       \* what programs are called or call themselves

VARIABLES
    patterns,   \* the whitelist of the configuration
    panicked    \* has the agent ended in a panic

agentVars == <<vars, patterns, panicked>>

-----------------------------------------------------------------------------
(* Comms and patterns *)

Cut(s, n) == IF Len(s) <= n THEN s ELSE SubSeq(s, 1, n)

\* Is there a character that begins within the first n bytes and ends after them.
Splits(s, n) == Len(s) > n /\ s[n + 1] \in Inner

\* The kernel keeps one byte for the NUL, which cstr drops.
Comm(name) == Cut(name, CommLen - 1)

Matches(comm, pat) == comm = Cut(pat, CommLen)

\* A pattern cannot be sliced, and none before it matches.
Panics(pats, comm) ==
    \E i \in DOMAIN pats :
        /\ Splits(pats[i], CommLen)
        /\ \A j \in 1..(i - 1) : ~Matches(comm, pats[j])

Whitelisted(pats, comm) ==
    ~Panics(pats, comm) /\ \E i \in DOMAIN pats : Matches(comm, pats[i])

ASSUME CommLenAssumption == CommLen \in Nat \ {0}

\* cstr would replace half a character by another one.
ASSUME NamesAssumption == \A name \in Names : ~Splits(name, CommLen - 1)
ASSUME CommsAssumption == Comms = {Comm(name) : name \in Names}

\* The configurations differ only in patterns that match nothing.
ASSUME WhitelistAssumption ==
    \A pats \in Configs : Whitelist = {c \in Comms : Whitelisted(pats, c)}

-----------------------------------------------------------------------------
(* The agent *)

AgentInit == Init /\ patterns \in Configs /\ panicked = FALSE

\* An event of a pid that is not tracked has its comm matched.
Fatal(p, comm) == tracked[p] = NoPid /\ Panics(patterns, comm)

\* The agent is gone, with what its tree held.
Panic(p, comm) == Fatal(p, comm) /\ panicked' = TRUE /\ UNCHANGED vars

HandleExec(e, proc) ==
    \/ ~Fatal(e.pid, e.comm) /\ OnExec(e, proc) /\ UNCHANGED panicked
    \/ Panic(e.pid, e.comm)

HandleFile(e, proc) ==
    \/ ~Fatal(e.pid, e.comm) /\ OnFile(e, proc) /\ UNCHANGED panicked
    \/ Panic(e.pid, e.comm)

HandleExit(e, proc) ==
    \/ ~Fatal(e.pid, e.comm) /\ OnExit(e, proc) /\ UNCHANGED panicked
    \/ Panic(e.pid, e.comm)

AgentNext ==
    /\ ~panicked
    /\ \/ \E e \in ExecEvent, proc \in ProcSource : HandleExec(e, proc)
       \/ \E e \in FileEvent, proc \in ProcSource : HandleFile(e, proc)
       \/ \E e \in ExitEvent, proc \in ProcSource : HandleExit(e, proc)
       \/ FinalizeAll /\ UNCHANGED panicked
    /\ UNCHANGED patterns

AgentSpec == AgentInit /\ [][AgentNext]_agentVars

-----------------------------------------------------------------------------
(* Properties *)

\* Only patterns shorter than COMM_LEN ever match, and they match what the
\* kernel left of the name: a longer pattern is dead, although it is cut to be
\* compared, and one that fills the comm matches every name that begins so.
WhitelistIsExact ==
    \A pats \in Configs, name \in Names : \A i \in DOMAIN pats :
        Matches(Comm(name), pats[i])
          <=> Len(pats[i]) < CommLen /\ Comm(name) = pats[i]

\* What the documents say (observation.md, "Root match"): a process that is not
\* part of an operation starts one if its command is on the whitelist.
ListedCommandsStart ==
    [][\A e \in ExecEvent, proc \in ProcSource : \A i \in DOMAIN patterns :
          /\ tracked[e.pid] = NoPid /\ e.comm = Comm(patterns[i])
          /\ HandleExec(e, proc)
          => operations'[e.pid] # None]_agentVars
=============================================================================
