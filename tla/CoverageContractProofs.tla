------------------------ MODULE CoverageContractProofs ------------------------
(***************************************************************************)
(* What a job may conclude from the contract of a coverage report alone.   *)
(***************************************************************************)
EXTENDS CoverageContract, FiniteSetTheorems, TLAPS

CInv ==
    /\ seen \subseteq Ops
    /\ acked \subseteq seen \cup Leftover
    /\ acked \subseteq delivered
    /\ report = "clean" => ended /\ Cardinality(acked) >= Cardinality(seen)

LEMMA ContractKeeps == ASSUME CInv, [Next]_vars PROVE CInv'
<1> USE DEF CInv
<1>1. ASSUME NEW op \in Ops, Observe(op) PROVE CInv'
  BY <1>1 DEF Observe
<1>2. ASSUME NEW r \in Ops \cup Leftover, Deliver(r) \/ Acknowledge(r)
      PROVE  CInv'
  BY <1>2 DEF Deliver, Acknowledge
<1>3. CASE End
  BY <1>3 DEF End
<1>4. CASE Tell
  BY <1>4 DEF Tell
<1>5. CASE UNCHANGED vars
  BY <1>5 DEF vars
<1>6. QED BY <1>1, <1>2, <1>3, <1>4, <1>5 DEF Next

\* Enough counted, none of it left by an earlier agent, means all delivered.
LEMMA EnoughIsAll ==
    ASSUME IsFiniteSet(Ops), Ops \cap Leftover = {}, CInv
    PROVE  CleanIsComplete
<1> SUFFICES ASSUME report = "clean", acked \subseteq Ops
             PROVE  seen \subseteq delivered
  BY DEF CleanIsComplete
<1>1. IsFiniteSet(seen) /\ Cardinality(seen) \in Nat
  BY FS_Subset, FS_CardinalityType DEF CInv
<1>2. acked \subseteq seen
  BY DEF CInv
<1>3. /\ Cardinality(acked) \in Nat
      /\ Cardinality(acked) <= Cardinality(seen)
      /\ Cardinality(acked) = Cardinality(seen) => acked = seen
  BY <1>1, <1>2, FS_Subset, FS_CardinalityType
<1>4. QED BY <1>1, <1>3 DEF CInv

\* Any agent that keeps the contract, in a directory without an earlier clean
\* report, reports clean only when all it observed was delivered, unless it
\* counted records of earlier agents.
THEOREM ContractIsEnough ==
    ASSUME IsFiniteSet(Ops), Ops \cap Leftover = {}
    PROVE  Spec /\ report # "clean" => []CleanIsComplete
<1>1. Init /\ report # "clean" => CInv
  BY DEF Init, CInv
<1>2. CInv /\ [Next]_vars => CInv'
  BY ContractKeeps
<1>3. CInv => CleanIsComplete
  BY EnoughIsAll
<1>4. QED BY <1>1, <1>2, <1>3, PTL DEF Spec
=============================================================================
