-------------------------- MODULE WhitelistingProofs --------------------------
(***************************************************************************)
(* Which patterns can match at all, for names of any length, and what that *)
(* says of an agent that matches them before it asks its tree.             *)
(***************************************************************************)
EXTENDS Whitelisting, SequenceTheorems, TLAPS

\* What a cut sequence is.
LEMMA CutLength ==
    ASSUME NEW Bytes, NEW s \in Seq(Bytes), NEW n \in Nat
    PROVE  /\ Cut(s, n) \in Seq(Bytes)
           /\ Len(Cut(s, n)) = IF Len(s) <= n THEN Len(s) ELSE n
<1>1. CASE Len(s) <= n
  BY <1>1 DEF Cut
<1>2. CASE ~(Len(s) <= n)
  <2>1. Len(s) \in Nat /\ n <= Len(s) /\ 1 <= Len(s) + 1
    BY <1>2
  <2>2. SubSeq(s, 1, n) \in Seq(Bytes) /\ Len(SubSeq(s, 1, n)) = n
    BY <2>1
  <2>3. QED BY <1>2, <2>2 DEF Cut
<1>3. QED BY <1>1, <1>2

\* Whatever programs are called and whatever whitelist the agent is given, a
\* pattern of COMM_LEN bytes or more starts no operation (match_whitelist), and
\* a shorter one exactly those whose comm it is.
THEOREM LongPatternsAreDead ==
    ASSUME NEW Bytes, Names \subseteq Seq(Bytes), Configs \subseteq Seq(Seq(Bytes))
    PROVE  WhitelistIsExact
<1> SUFFICES ASSUME NEW pats \in Configs, NEW name \in Names, NEW i \in DOMAIN pats
             PROVE  Matches(Comm(name), pats[i])
                      <=> Len(pats[i]) < CommLen /\ Comm(name) = pats[i]
  BY DEF WhitelistIsExact
<1> DEFINE pat == pats[i]
<1>1. /\ name \in Seq(Bytes) /\ pat \in Seq(Bytes) /\ Len(pat) \in Nat
      /\ CommLen \in Nat /\ CommLen - 1 \in Nat
  <2>1. pats \in Seq(Seq(Bytes))
    OBVIOUS
  <2>2. pat \in Seq(Bytes)
    BY <2>1, ElementOfSeq
  <2>3. QED BY <2>2, CommLenAssumption
<1>2. Len(Comm(name)) < CommLen
  <2>1. Len(Comm(name)) <= CommLen - 1
    BY <1>1, CutLength DEF Comm
  <2>2. Len(Comm(name)) \in Nat
    BY <1>1, CutLength DEF Comm
  <2>3. QED BY <1>1, <2>1, <2>2
<1>3. CASE Len(pat) < CommLen
  BY <1>1, <1>3 DEF Matches, Cut
<1>4. CASE ~(Len(pat) < CommLen)
  <2>1. Len(Cut(pat, CommLen)) = CommLen
    BY <1>1, <1>4, CutLength
  <2>2. QED BY <1>1, <1>2, <1>4, <2>1 DEF Matches
<1>5. QED BY <1>3, <1>4

\* An agent that a pattern may end is, as long as it runs, the tree of
\* ProcessTree: what holds of that holds of its tree.
THEOREM AgentHasTheTree == AgentSpec => Spec
<1>1. AgentInit => Init
  BY DEF AgentInit
<1>2. [AgentNext]_agentVars => [Next]_vars
  BY DEF AgentNext, agentVars, Next, HandleExec, HandleFile, HandleExit, Panic
<1>3. QED BY <1>1, <1>2, PTL DEF AgentSpec, Spec
=============================================================================
