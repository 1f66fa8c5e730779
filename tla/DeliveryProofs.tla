---------------------------- MODULE DeliveryProofs ----------------------------
(***************************************************************************)
(* A clean report is right: the counters are the sizes of two sets, because*)
(* what waits in the buffer or is being sent has not been counted.  And    *)
(* nothing is lost on the way: a buffered operation is below next_buffer_  *)
(* seq, where no later record is written.                                  *)
(***************************************************************************)
EXTENDS Delivery, FiniteSetTheorems, TLAPS

\* The buffer files a later attempt may still send: all of them, until
\* flush_buffered has listed the directory.
Flushing == pc = "flush" \/ (pc = "submit" /\ curSeq # None)
Waiting == IF Flushing THEN toFlush ELSE Used

Types ==
    /\ pc \in {"init", "start", "loop", "submit", "final", "flush", "done", "dead"}
    /\ files \in [Seqs -> Records \cup {None}]
    /\ toFlush \subseteq Seqs
    /\ nextSeq \in Nat
    /\ curSeq \in Seqs \cup {None}

Counts ==
    /\ seen \subseteq Ops
    /\ acked \subseteq seen \cup Leftover
    /\ acked \subseteq delivered
    /\ observed = Cardinality(seen)
    /\ submitted = Cardinality(acked)

Uncounted == (seen \cup Leftover) \ acked

\* Every waiting file holds a record of its own that is not counted.
WaitingIsUncounted ==
    pc \notin {"done", "dead"} =>
        /\ \A s \in Waiting : files[s] \in Uncounted
        /\ \A s, t \in Waiting : files[s] = files[t] => s = t

\* The record being sent is not counted and is not waiting as well.
SendingIsUncounted ==
    pc = "submit" =>
        /\ cur \in Uncounted
        /\ \A s \in Waiting : files[s] # cur
        /\ curSeq = None => back \in {"loop", "final"}
        /\ curSeq # None => back = "flush" /\ curSeq \notin toFlush

IInv == Types /\ Counts /\ WaitingIsUncounted /\ SendingIsUncounted

\* The signal file is the old one until the agent ends; if that was not clean, a
\* clean one agrees with the counters, and the job is told clean only from it.
SignalIsOwn ==
    /\ pc # "done" => signal = oldSignal
    /\ oldSignal # "clean" =>
          /\ signal = "clean" => submitted >= observed
          /\ verdict = "clean" => signal = "clean"

-----------------------------------------------------------------------------
(* Counting *)

LEMMA FiniteSubsets ==
    ASSUME NEW S, S \subseteq Records
    PROVE  IsFiniteSet(S) /\ Cardinality(S) \in Nat
<1>1. IsFiniteSet(Records)
  BY OpsAssumption, FS_Union DEF Records
<1>2. QED BY <1>1, FS_Subset, FS_CardinalityType

\* Adding a new member adds one.
LEMMA OneMore ==
    ASSUME NEW S, S \subseteq Records, NEW x, x \notin S
    PROVE  Cardinality(S \cup {x}) = Cardinality(S) + 1
BY FiniteSubsets, FS_AddElement

\* Enough counted, none of it left by an earlier agent, means all counted.
LEMMA AllCounted ==
    ASSUME Counts, submitted >= observed, acked \subseteq Ops
    PROVE  acked = seen
<1>1. IsFiniteSet(seen) /\ Cardinality(seen) \in Nat
  BY FiniteSubsets DEF Counts, Records
<1>2. acked \subseteq seen
  BY OpsAssumption DEF Counts
<1>3. /\ Cardinality(acked) \in Nat
      /\ Cardinality(acked) <= Cardinality(seen)
      /\ Cardinality(acked) = Cardinality(seen) => acked = seen
  BY <1>1, <1>2, FS_Subset, FS_CardinalityType
<1>4. QED BY <1>1, <1>3 DEF Counts

LEMMA InvariantIsEnough == IInv /\ SignalIsOwn => CleanMeansDelivered
<1> SUFFICES ASSUME IInv, SignalIsOwn, signal = "clean", oldSignal # "clean",
                    acked \subseteq Ops
             PROVE  seen \subseteq delivered
  BY DEF CleanMeansDelivered
<1>1. submitted >= observed
  BY DEF SignalIsOwn
<1>2. QED BY <1>1, AllCounted DEF IInv, Counts

LEMMA InitHolds == Init => IInv
<1> SUFFICES ASSUME Init PROVE IInv
  OBVIOUS
<1>1. /\ files \in [Seqs -> Leftover \cup {None}]
      /\ \A s, t \in Seqs : files[s] = files[t] /\ files[s] # None => s = t
      /\ pc = "init" /\ seen = {} /\ acked = {}
  BY DEF Init
<1>2. Types
  BY <1>1, AttemptsAssumption DEF Init, Types, Records
<1>3. Counts
  BY FS_EmptySet DEF Init, Counts
<1>4. Waiting = Used
  BY <1>1 DEF Waiting, Flushing
<1>5. WaitingIsUncounted /\ SendingIsUncounted
  BY <1>1, <1>4 DEF WaitingIsUncounted, SendingIsUncounted, Uncounted, Used
<1>6. QED BY <1>2, <1>3, <1>5 DEF IInv

-----------------------------------------------------------------------------
(* Steps that keep the buffer and the counters *)

\* What a step leaves alone when it only moves the agent on.
LEMMA QuietStep ==
    ASSUME IInv,
           UNCHANGED <<submission, reconciler, toFlush, seen, acked>>,
           delivered' = delivered,
           Types',
           pc' \notin {"submit", "flush"} \/ pc' = pc,
           pc = "flush" => pc' \in {"flush", "done", "dead"},
           pc = "submit" => pc' \in {"submit", "dead"},
           pc \in {"done", "dead"} => pc' \in {"done", "dead"}
    PROVE  IInv'
<1> USE DEF IInv, submission, reconciler
<1>1. Counts'
  BY DEF Counts
<1>2. pc' \notin {"done", "dead"} => Waiting' = Waiting /\ pc \notin {"done", "dead"}
  BY DEF Waiting, Flushing, Used, Types
<1>3. WaitingIsUncounted'
  BY <1>2 DEF WaitingIsUncounted, Uncounted
<1>4. SendingIsUncounted'
  BY <1>2 DEF SendingIsUncounted, Types, Uncounted
<1>5. QED BY <1>1, <1>3, <1>4

\* The steps of start, stop and end.
LEMMA ControlStep ==
    ASSUME IInv,
           \/ HeartbeatStart \/ NoEbpf \/ Attached \/ LoadFails \/ Kill
           \/ StopSeen \/ EndRun \/ SendTerm \/ ReadSignal
    PROVE  IInv'
<1> USE DEF IInv, reports, hook, history, submission, reconciler
<1>1. CASE HeartbeatStart
  <2>1. Types'
    BY <1>1, NoneAssumption DEF HeartbeatStart, Types
  <2>2. QED BY <1>1, <2>1, QuietStep DEF HeartbeatStart
<1>2. CASE NoEbpf
  <2>1. Types'
    BY <1>2 DEF NoEbpf, Finish, Coverage, Types
  <2>2. QED BY <1>2, <2>1, QuietStep DEF NoEbpf, Finish
<1>3. CASE Attached \/ LoadFails
  <2>1. Types'
    BY <1>3 DEF Attached, LoadFails, Types
  <2>2. QED BY <1>3, <2>1, QuietStep DEF Attached, LoadFails
<1>4. CASE Kill
  <2>1. Types'
    BY <1>4 DEF Kill, Types
  <2>2. QED BY <1>4, <2>1, QuietStep DEF Kill
<1>5. CASE StopSeen
  <2>1. Types'
    BY <1>5 DEF StopSeen, Types
  <2>2. QED BY <1>5, <2>1, QuietStep DEF StopSeen
<1>6. CASE EndRun
  <2>1. Types'
    BY <1>6 DEF EndRun, Finish, Coverage, Types
  <2>2. QED BY <1>6, <2>1, QuietStep DEF EndRun, Finish
<1>7. CASE SendTerm
  <2>1. Types'
    BY <1>7 DEF SendTerm, Types
  <2>2. QED BY <1>7, <2>1, QuietStep DEF SendTerm
<1>8. CASE ReadSignal
  <2>1. Types'
    BY <1>8 DEF ReadSignal, Types
  <2>2. QED BY <1>8, <2>1, QuietStep DEF ReadSignal
<1>9. QED
  BY <1>1, <1>2, <1>3, <1>4, <1>5, <1>6, <1>7, <1>8

-----------------------------------------------------------------------------
(* Observing an operation *)

LEMMA ObservedOnce ==
    ASSUME Counts, NEW op \in Ops, Counted(op),
           UNCHANGED <<submitted, acked, delivered>>
    PROVE  Counts'
<1>1. Cardinality(seen \cup {op}) = Cardinality(seen) + 1
  BY OneMore DEF Counts, Counted, Records
<1>2. QED BY <1>1 DEF Counts, Counted

\* Writing an uncounted record to a new buffer file keeps the files apart.
LEMMA BufferApart ==
    ASSUME Types, NEW op \in Records, Buffer(op), NEW S,
           op \in S,
           \A s \in Used : files[s] \in S /\ files[s] # op,
           \A s, t \in Used : files[s] = files[t] => s = t
    PROVE  /\ files' \in [Seqs -> Records \cup {None}]
           /\ nextSeq' \in Nat
           /\ \A s \in Used' : files'[s] \in S
           /\ \A s, t \in Used' : files'[s] = files'[t] => s = t
<1>1. nextSeq \in Seqs /\ nextSeq' = nextSeq + 1
  BY AttemptsAssumption DEF Types, Buffer, Seqs
<1>2. CASE files' = files
  BY <1>1, <1>2 DEF Types, Used
<1>3. CASE files' = [files EXCEPT ![nextSeq] = op]
  <2>1. files' \in [Seqs -> Records \cup {None}] /\ nextSeq' \in Nat
    BY <1>1, <1>3 DEF Types
  <2>2. \A s \in Used' : \/ s = nextSeq /\ files'[s] = op
                         \/ s # nextSeq /\ s \in Used /\ files'[s] = files[s]
    BY <1>1, <1>3 DEF Types, Used
  <2>3. QED BY <2>1, <2>2
<1>4. CASE files' = [files EXCEPT ![nextSeq] = None]
  <2>1. files' \in [Seqs -> Records \cup {None}] /\ nextSeq' \in Nat
    BY <1>1, <1>4 DEF Types
  <2>2. \A s \in Used' : s \in Used /\ files'[s] = files[s]
    BY <1>1, <1>4 DEF Types, Used
  <2>3. QED BY <2>1, <2>2
<1>5. QED BY <1>2, <1>3, <1>4 DEF Buffer

LEMMA ObserveStep ==
    ASSUME IInv, NEW op \in Ops,
           AssemblyFails(op) \/ ProcessUnsent(op) \/ Process(op)
    PROVE  IInv'
<1> USE DEF IInv, Uncounted
<1>1. /\ pc \in {"loop", "final"} /\ Waiting = Used
      /\ seen' = seen \cup {op} /\ op \notin seen /\ acked' = acked
      /\ toFlush' = toFlush
  BY DEF AssemblyFails, ProcessUnsent, Process, Counted, Waiting, Flushing,
         reports
<1>2. Counts'
  BY ObservedOnce DEF AssemblyFails, ProcessUnsent, Process
<1>3. op \in Uncounted' /\ \A s \in Used : files[s] \in Uncounted' /\ files[s] # op
  BY <1>1, OpsAssumption DEF WaitingIsUncounted, Counts
<1>4. CASE AssemblyFails(op)
  <2>1. pc' = pc /\ files' = files /\ nextSeq' = nextSeq /\ curSeq' = curSeq
    BY <1>4 DEF AssemblyFails, submission
  <2>2. Waiting' = Used
    BY <1>1, <2>1 DEF Waiting, Flushing, Used
  <2>3. Types'
    BY <1>1, <2>1 DEF Types
  <2>4. WaitingIsUncounted'
    BY <1>1, <1>3, <2>1, <2>2 DEF WaitingIsUncounted
  <2>5. SendingIsUncounted'
    BY <1>1, <2>1 DEF SendingIsUncounted
  <2>6. QED BY <1>2, <2>3, <2>4, <2>5
<1>5. CASE ProcessUnsent(op)
  <2>1. pc' = pc /\ curSeq' = curSeq /\ Buffer(op)
    BY <1>5 DEF ProcessUnsent, submission
  <2>2. op \in Records
    BY DEF Records
  <2>4. \A s, t \in Used : files[s] = files[t] => s = t
    BY <1>1 DEF WaitingIsUncounted
  <2>5. /\ files' \in [Seqs -> Records \cup {None}]
        /\ nextSeq' \in Nat
        /\ \A s \in Used' : files'[s] \in Uncounted'
        /\ \A s, t \in Used' : files'[s] = files'[t] => s = t
    <3> HIDE DEF Uncounted
    <3>1. QED BY <1>3, <2>1, <2>2, <2>4, BufferApart
  <2>6. Waiting' = Used'
    BY <1>1, <2>1 DEF Waiting, Flushing
  <2>7. Types'
    BY <1>1, <2>1, <2>5 DEF Types
  <2>8. WaitingIsUncounted'
    BY <2>5, <2>6 DEF WaitingIsUncounted
  <2>9. SendingIsUncounted'
    BY <1>1, <2>1 DEF SendingIsUncounted
  <2>10. QED BY <1>2, <2>7, <2>8, <2>9
<1>6. CASE Process(op)
  <2>1. /\ pc' = "submit" /\ cur' = op /\ curSeq' = None /\ back' = pc
        /\ files' = files /\ nextSeq' = nextSeq
    BY <1>6 DEF Process
  <2>2. Waiting' = Used
    BY <2>1 DEF Waiting, Flushing, Used
  <2>3. Types'
    BY <1>1, <2>1 DEF Types
  <2>4. WaitingIsUncounted'
    BY <1>1, <1>3, <2>1, <2>2 DEF WaitingIsUncounted
  <2>5. SendingIsUncounted'
    BY <1>1, <1>3, <2>1, <2>2 DEF SendingIsUncounted
  <2>6. QED BY <1>2, <2>3, <2>4, <2>5
<1>7. QED BY <1>4, <1>5, <1>6

-----------------------------------------------------------------------------
(* Sending a record *)

LEMMA ReceiptStep ==
    ASSUME IInv, Receipt
    PROVE  IInv'
<1> USE DEF IInv, Uncounted
<1>1. /\ pc = "submit" /\ pc' = back /\ curSeq' = None
      /\ acked' = acked \cup {cur} /\ delivered' = delivered \cup {cur}
      /\ submitted' = submitted + 1
      /\ UNCHANGED <<observed, nextSeq, toFlush, seen>>
  BY DEF Receipt, Return, reports
<1>2. /\ cur \in Uncounted
      /\ \A s \in Waiting : files[s] # cur
      /\ \A s \in Waiting : files[s] \in Uncounted
      /\ \A s, t \in Waiting : files[s] = files[t] => s = t
  BY <1>1 DEF SendingIsUncounted, WaitingIsUncounted
<1>3. Counts'
  <2>1. Cardinality(acked \cup {cur}) = Cardinality(acked) + 1
    BY <1>2, OneMore DEF Counts, Records
  <2>2. QED BY <1>1, <1>2, <2>1 DEF Counts
<1>4. Waiting' = Waiting /\ \A s \in Waiting : files'[s] = files[s]
  <2>1. CASE curSeq = None
    BY <1>1, <2>1 DEF Receipt, Waiting, Flushing, Used, SendingIsUncounted
  <2>2. CASE curSeq # None
    BY <1>1, <2>2 DEF Receipt, Waiting, Flushing, SendingIsUncounted, Types
  <2>3. QED BY <2>1, <2>2
<1>5. files' \in [Seqs -> Records \cup {None}]
  BY <1>1 DEF Receipt, Types
<1>6. back \in {"loop", "final", "flush"}
  BY <1>1 DEF SendingIsUncounted
<1>7. Types'
  BY <1>1, <1>5, <1>6 DEF Types
<1>8. WaitingIsUncounted'
  BY <1>1, <1>2, <1>4 DEF WaitingIsUncounted
<1>9. SendingIsUncounted'
  BY <1>1, <1>6 DEF SendingIsUncounted
<1>10. QED BY <1>3, <1>7, <1>8, <1>9

LEMMA GiveUpStep ==
    ASSUME IInv, pc = "submit", GiveUp, delivered \subseteq delivered'
    PROVE  IInv'
<1> USE DEF IInv
<1>1. /\ pc' = back /\ curSeq' = None
      /\ UNCHANGED <<observed, submitted, toFlush, seen, acked>>
  BY DEF GiveUp, Return, reports
<1>2. /\ cur \in Uncounted /\ cur \in Records
      /\ \A s \in Waiting : files[s] # cur
      /\ \A s \in Waiting : files[s] \in Uncounted
      /\ \A s, t \in Waiting : files[s] = files[t] => s = t
      /\ back \in {"loop", "final", "flush"}
  BY DEF SendingIsUncounted, WaitingIsUncounted, Counts, Uncounted, Records
<1>3. Counts' /\ Uncounted' = Uncounted
  BY <1>1 DEF Counts, Uncounted
<1>4. /\ files' \in [Seqs -> Records \cup {None}]
      /\ nextSeq' \in Nat
      /\ \A s \in Waiting' : files'[s] \in Uncounted
      /\ \A s, t \in Waiting' : files'[s] = files'[t] => s = t
  <2>1. CASE curSeq = None
    <3>1. Waiting = Used /\ Waiting' = Used'
      BY <1>1, <2>1 DEF Waiting, Flushing, SendingIsUncounted
    <3>2. Buffer(cur)
      BY <2>1 DEF GiveUp
    <3>3. QED BY <1>2, <3>1, <3>2, BufferApart
  <2>2. CASE curSeq # None
    <3>1. files' = files /\ nextSeq' = nextSeq
      BY <2>2 DEF GiveUp
    <3>2. Waiting' = Waiting
      BY <1>1, <2>2 DEF Waiting, Flushing, SendingIsUncounted
    <3>3. QED BY <1>2, <3>1, <3>2 DEF Types
  <2>3. QED BY <2>1, <2>2
<1>5. Types'
  BY <1>1, <1>2, <1>4 DEF Types
<1>6. WaitingIsUncounted' /\ SendingIsUncounted'
  BY <1>1, <1>2, <1>3, <1>4 DEF WaitingIsUncounted, SendingIsUncounted
<1>7. QED BY <1>3, <1>5, <1>6

LEMMA AnswerStep ==
    ASSUME IInv, InvalidRecord \/ Unauthorized \/ Transient
    PROVE  IInv'
<1> USE DEF IInv
<1>1. CASE InvalidRecord \/ Unauthorized
  BY <1>1, GiveUpStep DEF InvalidRecord, Unauthorized
<1>2. CASE Transient /\ ~(attempt < MaxAttempts)
  BY <1>2, GiveUpStep DEF Transient
<1>3. CASE Transient /\ attempt < MaxAttempts
  <2>1. /\ UNCHANGED <<pc, cur, curSeq, back, toFlush, seen, acked, observed>>
        /\ UNCHANGED <<submitted, nextSeq, files>>
        /\ delivered \subseteq delivered'
    BY <1>3 DEF Transient, reconciler, reports, history
  <2>2. Waiting' = Waiting
    BY <2>1 DEF Waiting, Flushing, Used
  <2>3. Types' /\ Counts'
    BY <2>1 DEF Types, Counts
  <2>4. WaitingIsUncounted' /\ SendingIsUncounted'
    BY <2>1, <2>2 DEF WaitingIsUncounted, SendingIsUncounted, Uncounted
  <2>5. QED BY <2>3, <2>4
<1>4. QED BY <1>1, <1>2, <1>3

-----------------------------------------------------------------------------
(* Flushing *)

LEMMA FlushStep ==
    ASSUME IInv, StartFlush \/ \E s \in Seqs : FlushNext(s) \/ FlushSkip(s)
    PROVE  IInv'
<1> USE DEF IInv, Uncounted
<1>1. UNCHANGED <<reconciler, reports, delivered, seen, acked>>
  BY DEF StartFlush, FlushNext, FlushSkip, history
<1>2. Counts' /\ files' = files /\ nextSeq' = nextSeq
  BY <1>1 DEF Counts, reconciler, reports
<1>3. CASE StartFlush
  <2>1. Waiting = Used /\ Waiting' = Used /\ pc' = "flush" /\ curSeq' = curSeq
    BY <1>3 DEF StartFlush, Waiting, Flushing, submission
  <2>2. Types'
    BY <1>2, <1>3, <2>1 DEF StartFlush, Types, Used
  <2>3. WaitingIsUncounted' /\ SendingIsUncounted'
    BY <1>1, <1>2, <1>3, <2>1
       DEF StartFlush, WaitingIsUncounted, SendingIsUncounted
  <2>4. QED BY <1>2, <2>2, <2>3
<1>4. ASSUME NEW s \in Seqs, FlushNext(s)
      PROVE  IInv'
  <2>1. /\ pc = "flush" /\ s \in toFlush /\ Waiting = toFlush
        /\ pc' = "submit" /\ cur' = files[s] /\ curSeq' = s /\ back' = "flush"
        /\ toFlush' = toFlush \ {s}
    BY <1>4 DEF FlushNext, Waiting, Flushing
  <2>2. Waiting' = toFlush \ {s}
    BY <2>1, NoneAssumption DEF Waiting, Flushing
  <2>3. Types'
    BY <1>2, <2>1 DEF Types
  <2>4. WaitingIsUncounted'
    BY <1>1, <1>2, <2>1, <2>2 DEF WaitingIsUncounted
  <2>5. SendingIsUncounted'
    BY <1>1, <1>2, <2>1, <2>2, NoneAssumption
       DEF WaitingIsUncounted, SendingIsUncounted
  <2>6. QED BY <1>2, <2>3, <2>4, <2>5
<1>5. ASSUME NEW s \in Seqs, FlushSkip(s)
      PROVE  IInv'
  <2>1. /\ pc = "flush" /\ pc' = pc /\ Waiting = toFlush /\ curSeq' = curSeq
        /\ toFlush' = toFlush \ {s} /\ Waiting' = toFlush'
    BY <1>5 DEF FlushSkip, Waiting, Flushing, submission
  <2>2. Types'
    BY <1>2, <2>1 DEF Types
  <2>3. WaitingIsUncounted' /\ SendingIsUncounted'
    BY <1>1, <1>2, <2>1 DEF WaitingIsUncounted, SendingIsUncounted
  <2>4. QED BY <1>2, <2>2, <2>3
<1>6. QED BY <1>3, <1>4, <1>5

-----------------------------------------------------------------------------

LEMMA StepKeeps ==
    ASSUME IInv, [Next]_vars
    PROVE  IInv'
<1>1. CASE Step
  BY <1>1, ControlStep, ObserveStep, ReceiptStep, AnswerStep, FlushStep
     DEF Step, Agent
<1>2. CASE UNCHANGED vars
  <2>1. UNCHANGED <<pc, cur, curSeq, back, toFlush, seen, acked, observed>>
        /\ UNCHANGED <<submitted, nextSeq, files, delivered>>
    BY <1>2 DEF vars, submission, reconciler, reports, history
  <2>2. Waiting' = Waiting
    BY <2>1 DEF Waiting, Flushing, Used
  <2>3. QED
    BY <2>1, <2>2 DEF IInv, Types, Counts, WaitingIsUncounted,
                      SendingIsUncounted, Uncounted
<1>3. QED BY <1>1, <1>2 DEF Next

\* The counters of the reconciler count records, none of them twice.
THEOREM CountsStayExact == Spec => []CountsAreExact
<1>1. Init => IInv
  BY InitHolds
<1>2. IInv /\ [Next]_vars => IInv'
  BY StepKeeps
<1>3. IInv => CountsAreExact
  BY DEF IInv, Counts, CountsAreExact
<1>4. QED BY <1>1, <1>2, <1>3, PTL DEF Spec

-----------------------------------------------------------------------------
(* What the agent reports and the post hook reads *)

LEMMA SignalStep ==
    ASSUME IInv, SignalIsOwn, [Next]_vars
    PROVE  SignalIsOwn'
<1> USE DEF SignalIsOwn
<1>0. oldSignal' = oldSignal
  BY DEF Next, vars, setting
<1>1. ASSUME UNCHANGED <<signal, verdict>>,
             pc = "done" => pc' = "done" /\ UNCHANGED <<observed, submitted>>,
             pc # "done" => pc' # "done"
      PROVE  SignalIsOwn'
  BY <1>0, <1>1
<1>2. CASE NoEbpf \/ EndRun
  <2>1. /\ pc # "done" /\ pc' = "done" /\ verdict' = verdict
        /\ UNCHANGED <<observed, submitted>>
        /\ signal' \in {signal, Coverage}
    BY <1>2 DEF NoEbpf, EndRun, Finish, Written, reconciler, hook
  <2>2. QED BY <1>0, <2>1, NoneAssumption DEF Coverage
<1>3. CASE HeartbeatStart \/ Attached \/ LoadFails \/ Kill \/ StopSeen \/ StartFlush
  BY <1>1, <1>3 DEF HeartbeatStart, Attached, LoadFails, Kill, StopSeen, StartFlush,
                    reports, hook
<1>4. CASE SendTerm
  BY <1>1, <1>4 DEF SendTerm, reports, reconciler
<1>5. CASE ReadSignal
  BY <1>0, <1>5, NoneAssumption DEF ReadSignal, reports, reconciler
<1>6. CASE Receipt \/ InvalidRecord \/ Unauthorized \/ Transient
  <2>1. /\ pc = "submit" /\ pc' \in {pc, back}
        /\ UNCHANGED <<signal, verdict>>
    BY <1>6 DEF Receipt, InvalidRecord, Unauthorized, Transient, GiveUp, Return,
                reports, hook
  <2>2. back # "done"
    BY <2>1 DEF IInv, SendingIsUncounted
  <2>3. QED BY <1>1, <2>1, <2>2
<1>7. CASE \E s \in Seqs : FlushNext(s) \/ FlushSkip(s)
  BY <1>1, <1>7 DEF FlushNext, FlushSkip, reports, hook
<1>8. CASE \E op \in Ops : AssemblyFails(op) \/ ProcessUnsent(op) \/ Process(op)
  BY <1>1, <1>8 DEF AssemblyFails, ProcessUnsent, Process, Counted, reports, hook
<1>9. CASE UNCHANGED vars
  BY <1>1, <1>9 DEF vars, reports, hook, reconciler
<1>10. QED
  BY <1>2, <1>3, <1>4, <1>5, <1>6, <1>7, <1>8, <1>9 DEF Next, Step, Agent

LEMMA InitIsOwn == Init => SignalIsOwn
BY NoneAssumption DEF Init, SignalIsOwn

\* A report of clean coverage (Reconciler::coverage) means that every observed
\* operation reached the pipeline unless leftover records were counted or the
\* report is an old one: for any number of operations, leftovers and attempts
\* and any faults.
THEOREM CleanIsRight == Spec => []CleanMeansDelivered
<1>1. Init => IInv /\ SignalIsOwn
  BY InitHolds, InitIsOwn
<1>2. IInv /\ SignalIsOwn /\ [Next]_vars => (IInv /\ SignalIsOwn)'
  BY StepKeeps, SignalStep
<1>3. IInv /\ SignalIsOwn => CleanMeansDelivered
  BY InvariantIsEnough
<1>4. QED BY <1>1, <1>2, <1>3, PTL DEF Spec

\* The post hook (action/stop.js) tells the job clean only after the agent ended
\* with everything observed delivered, or from an old file, however the five
\* seconds it waits relate to the agent's progress.
THEOREM VerdictIsRight == Spec => []VerdictIsSound
<1>1. Init => IInv /\ SignalIsOwn
  BY InitHolds, InitIsOwn
<1>2. IInv /\ SignalIsOwn /\ [Next]_vars => (IInv /\ SignalIsOwn)'
  BY StepKeeps, SignalStep
<1>3. IInv /\ SignalIsOwn => VerdictIsSound
  <2>1. oldSignal # "clean" /\ SignalIsOwn /\ verdict = "clean"
          => pc = "done" /\ signal = "clean"
    BY DEF SignalIsOwn
  <2>2. QED BY <2>1, InvariantIsEnough DEF VerdictIsSound, CleanMeansDelivered
<1>4. QED BY <1>1, <1>2, <1>3, PTL DEF Spec

-----------------------------------------------------------------------------
(* Nothing observed is lost *)

\* The buffer names from next_buffer_seq on hold no operation of this agent.
BelowNext == \A s \in Seqs : files[s] \in Ops => s < nextSeq

InHand ==
    /\ pc \notin {"submit", "dead"} => cur = None
    /\ pc = "submit" /\ curSeq # None => files[curSeq] = cur

KInv == BelowNext /\ InHand /\ NothingIsLost

\* Writing to the next name removes no operation from the disk.
LEMMA BufferKeeps ==
    ASSUME Types, BelowNext, NEW op, Buffer(op)
    PROVE  /\ BelowNext'
           /\ OnDisk \cap Ops \subseteq OnDisk'
           /\ op \in Ops => op \in OnDisk' \cup broken'
           /\ broken \subseteq broken'
<1>1. nextSeq \in Seqs /\ nextSeq' = nextSeq + 1 /\ nextSeq \in Nat
      /\ \A s \in Seqs : s \in Nat
  BY AttemptsAssumption DEF Types, Buffer, Seqs
<1>2. CASE files' = files /\ broken' = broken \cup {op}
  <2>1. OnDisk' = OnDisk
    BY <1>2 DEF OnDisk, Used
  <2>2. QED BY <1>1, <1>2, <2>1 DEF BelowNext
<1>3. CASE files' = [files EXCEPT ![nextSeq] = op] /\ broken' = broken
  <2>1. files'[nextSeq] = op /\ \A s \in Seqs \ {nextSeq} : files'[s] = files[s]
    BY <1>1, <1>3 DEF Types
  <2>2. files[nextSeq] \notin Ops
    BY <1>1 DEF BelowNext
  <2>3. BelowNext'
    <3> SUFFICES ASSUME NEW s \in Seqs, files'[s] \in Ops
                 PROVE  s < nextSeq + 1
      BY <1>1 DEF BelowNext
    <3>1. CASE s = nextSeq
      BY <1>1, <3>1
    <3>2. CASE s # nextSeq
      <4>1. s < nextSeq /\ s \in Nat
        BY <1>1, <2>1, <3>2 DEF BelowNext
      <4>2. QED BY <1>1, <4>1
    <3>3. QED BY <3>1, <3>2
  <2>4. OnDisk \cap Ops \subseteq OnDisk'
    BY <2>1, <2>2, NoneAssumption DEF OnDisk, Used, Records
  <2>5. op \in Ops => op \in OnDisk'
    BY <1>1, <2>1, NoneAssumption DEF OnDisk, Used, Records
  <2>6. QED BY <1>3, <2>3, <2>4, <2>5
<1>4. CASE files' = [files EXCEPT ![nextSeq] = None] /\ broken' = broken \cup {op}
  <2>1. files'[nextSeq] = None /\ \A s \in Seqs \ {nextSeq} : files'[s] = files[s]
    BY <1>1, <1>4 DEF Types
  <2>2. files[nextSeq] \notin Ops /\ None \notin Ops
    BY <1>1, NoneAssumption DEF BelowNext, Records
  <2>3. BelowNext'
    <3> SUFFICES ASSUME NEW s \in Seqs, files'[s] \in Ops
                 PROVE  s < nextSeq + 1
      BY <1>1 DEF BelowNext
    <3>1. s < nextSeq /\ s \in Nat
      BY <1>1, <2>1, <2>2 DEF BelowNext
    <3>2. QED BY <1>1, <3>1
  <2>4. OnDisk \cap Ops \subseteq OnDisk'
    BY <2>1, <2>2 DEF OnDisk, Used
  <2>5. QED BY <1>4, <2>3, <2>4
<1>5. QED BY <1>2, <1>3, <1>4 DEF Buffer

LEMMA KeepStep ==
    ASSUME IInv, KInv, [Next]_vars
    PROVE  KInv'
<1> USE DEF KInv, InHand, NothingIsLost
<1>1. Types /\ seen \subseteq Ops
  BY DEF IInv, Counts
<1>2. ASSUME UNCHANGED <<files, nextSeq, cur, curSeq, seen, acked, broken>>,
             pc' = "submit" => pc = "submit",
             pc = "submit" => pc' \in {"submit", "dead"},
             pc = "dead" => pc' = "dead"
      PROVE  KInv'
  BY <1>2 DEF BelowNext, OnDisk, Used
<1>3. CASE \/ HeartbeatStart \/ NoEbpf \/ Attached \/ LoadFails \/ Kill
           \/ StopSeen \/ StartFlush \/ EndRun \/ SendTerm \/ ReadSignal
  BY <1>2, <1>3 DEF HeartbeatStart, NoEbpf, Attached, LoadFails, Kill, StopSeen,
        StartFlush, EndRun, SendTerm, ReadSignal, Finish, submission, reconciler,
        history
<1>4. CASE UNCHANGED vars
  BY <1>2, <1>4 DEF vars, submission, reconciler, history
<1>5. CASE Transient /\ attempt < MaxAttempts
  BY <1>2, <1>5 DEF Transient, reconciler, history
<1>6. ASSUME NEW op \in Ops, AssemblyFails(op) \/ Process(op)
      PROVE  KInv'
  <2>1. /\ pc \in {"loop", "final"} /\ seen' = seen \cup {op}
        /\ UNCHANGED <<files, nextSeq, acked>>
        /\ \/ pc' = pc /\ cur' = cur /\ broken' = broken \cup {op}
           \/ pc' = "submit" /\ cur' = op /\ curSeq' = None /\ broken' = broken
    BY <1>6 DEF AssemblyFails, Process, Counted, submission
  <2>2. BelowNext' /\ OnDisk' = OnDisk
    BY <2>1 DEF BelowNext, OnDisk, Used
  <2>3. None \notin seen
    BY <1>1, NoneAssumption DEF Records
  <2>4. QED BY <2>1, <2>2, <2>3
<1>7. ASSUME NEW op \in Ops, ProcessUnsent(op)
      PROVE  KInv'
  <2>1. /\ pc \in {"loop", "final"} /\ pc' = pc /\ cur' = cur
        /\ seen' = seen \cup {op} /\ acked' = acked /\ Buffer(op)
    BY <1>7 DEF ProcessUnsent, Counted, submission
  <2>2. /\ BelowNext' /\ OnDisk \cap Ops \subseteq OnDisk'
        /\ op \in OnDisk' \cup broken' /\ broken \subseteq broken'
    BY <1>1, <2>1, BufferKeeps
  <2>3. QED BY <1>1, <2>1, <2>2
<1>8. CASE Receipt
  <2>1. /\ pc = "submit" /\ pc' = back /\ cur' = None
        /\ acked' = acked \cup {cur}
        /\ UNCHANGED <<nextSeq, seen, broken>>
        /\ \/ files' = files
           \/ curSeq # None /\ files' = [files EXCEPT ![curSeq] = None]
    BY <1>8 DEF Receipt, Return
  <2>2. BelowNext'
    BY <1>1, <2>1, NoneAssumption DEF BelowNext, Types, Records
  <2>3. OnDisk \subseteq OnDisk' \cup {cur}
    BY <1>1, <2>1 DEF OnDisk, Used, Types
  <2>4. pc' # "submit"
    BY <2>1 DEF IInv, SendingIsUncounted
  <2>5. QED BY <2>1, <2>2, <2>3, <2>4
<1>9. CASE pc = "submit" /\ GiveUp
  <2>1. /\ pc' = back /\ cur' = None /\ seen' = seen /\ acked' = acked
        /\ back # "submit"
    BY <1>9 DEF GiveUp, Return, IInv, SendingIsUncounted
  <2>2. CASE curSeq = None
    <3>1. /\ BelowNext' /\ OnDisk \cap Ops \subseteq OnDisk'
          /\ cur \in Ops => cur \in OnDisk' \cup broken'
          /\ broken \subseteq broken'
      BY <1>1, <1>9, <2>2, BufferKeeps DEF GiveUp
    <3>2. QED BY <1>1, <1>9, <2>1, <3>1
  <2>3. CASE curSeq # None
    <3>1. UNCHANGED <<files, nextSeq, broken>> /\ files[curSeq] = cur
      BY <1>9, <2>3 DEF GiveUp
    <3>2. BelowNext' /\ OnDisk' = OnDisk
      BY <3>1 DEF BelowNext, OnDisk, Used
    <3>3. cur \in Ops => cur \in OnDisk
      BY <1>1, <2>3, <3>1, NoneAssumption DEF OnDisk, Used, Types, Records
    <3>4. QED BY <1>1, <1>9, <2>1, <3>1, <3>2, <3>3
  <2>4. QED BY <2>2, <2>3
<1>10. ASSUME NEW s \in Seqs, FlushNext(s) \/ FlushSkip(s)
       PROVE  KInv'
  <2>1. /\ pc = "flush" /\ UNCHANGED <<files, nextSeq, seen, acked, broken>>
        /\ \/ pc' = "flush" /\ cur' = cur
           \/ pc' = "submit" /\ cur' = files[s] /\ curSeq' = s
    BY <1>10 DEF FlushNext, FlushSkip, reconciler, history, submission
  <2>2. BelowNext' /\ OnDisk' = OnDisk
    BY <2>1 DEF BelowNext, OnDisk, Used
  <2>3. None \notin seen
    BY <1>1, NoneAssumption DEF Records
  <2>4. QED BY <2>1, <2>2, <2>3
<1>11. CASE InvalidRecord \/ Unauthorized \/ Transient
  BY <1>5, <1>9, <1>11 DEF InvalidRecord, Unauthorized, Transient
<1>12. CASE Step
  <2> HIDE DEF KInv
  <2>1. QED BY <1>3, <1>6, <1>7, <1>8, <1>10, <1>11, <1>12 DEF Step, Agent
<1>13. QED BY <1>4, <1>12 DEF Next

LEMMA KeptInit == Init => KInv
BY OpsAssumption, NoneAssumption
   DEF Init, KInv, BelowNext, InHand, NothingIsLost, Records

\* Whatever the pipeline answers and whatever was in the buffer directory, an
\* observed operation is counted, on disk or in hand while the agent lives,
\* unless assembling or writing it failed.
THEOREM NothingGetsLost == Spec => []NothingIsLost
<1>1. Init => IInv /\ KInv
  BY InitHolds, KeptInit
<1>2. IInv /\ KInv /\ [Next]_vars => (IInv /\ KInv)'
  BY StepKeeps, KeepStep
<1>3. KInv => NothingIsLost
  BY DEF KInv
<1>4. QED BY <1>1, <1>2, <1>3, PTL DEF Spec

-----------------------------------------------------------------------------
(* The contract of a coverage report *)

\* The job is told once.
ToldOnce == post \in {"idle", "signalled"} => verdict = None

LEMMA ToldStep == ASSUME ToldOnce, [Next]_vars PROVE ToldOnce'
<1>1. CASE SendTerm \/ ReadSignal
  BY <1>1 DEF SendTerm, ReadSignal, ToldOnce
<1>2. CASE UNCHANGED hook
  BY <1>2 DEF hook, ToldOnce
<1>3. Step => SendTerm \/ ReadSignal \/ UNCHANGED hook
  BY DEF Step, Agent, HeartbeatStart, NoEbpf, Attached, LoadFails, Kill,
         AssemblyFails, ProcessUnsent, Process, Receipt, InvalidRecord,
         Unauthorized, Transient, GiveUp, StopSeen, StartFlush, FlushNext,
         FlushSkip, EndRun, hook
<1>4. QED BY <1>1, <1>2, <1>3 DEF Next, vars

\* A step the contract does not see.
LEMMA Unseen ==
    ASSUME UNCHANGED <<seen, delivered, acked, signal, verdict>>,
           pc \in {"done", "dead"} <=> pc' \in {"done", "dead"}
    PROVE  UNCHANGED Contract!vars
BY DEF Contract!vars

\* The agent ends, and the report stays or agrees with the counters.
LEMMA Ending ==
    ASSUME Counts, pc \notin {"done", "dead"}, pc' \in {"done", "dead"},
           UNCHANGED <<seen, delivered, acked, verdict>>,
           signal' \in {signal, Coverage}
    PROVE  Contract!End
<1>1. /\ Cardinality(seen) = observed /\ Cardinality(acked) = submitted
      /\ UNCHANGED <<seen, delivered, acked, verdict>>
  BY DEF Counts
<1>2. Coverage = IF Cardinality(acked) >= Cardinality(seen)
                 THEN "clean" ELSE "unknown"
  BY <1>1 DEF Coverage
<1>3. QED BY <1>1, <1>2 DEF Contract!End, Contract!Cardinality, Cardinality

LEMMA ContractStep ==
    ASSUME IInv, ToldOnce, [Next]_vars
    PROVE  Contract!Next \/ UNCHANGED Contract!vars
<1> USE DEF IInv, reports, hook
<1>1. CASE HeartbeatStart \/ Attached \/ StopSeen \/ StartFlush
           \/ \E s \in Seqs : FlushNext(s) \/ FlushSkip(s)
  BY <1>1, Unseen DEF HeartbeatStart, Attached, StopSeen, StartFlush, FlushNext,
                      FlushSkip, history
<1>2. CASE NoEbpf \/ EndRun
  <2>1. Contract!End
    BY <1>2, Ending DEF NoEbpf, EndRun, Finish, Written, history
  <2>2. QED BY <2>1 DEF Contract!Next
<1>3. CASE LoadFails \/ Kill
  <2>1. Contract!End
    BY <1>3, Ending DEF LoadFails, Kill, history
  <2>2. QED BY <2>1 DEF Contract!Next
<1>4. CASE SendTerm
  <2>1. CASE pc \in {"init", "start"}
    <3>1. Contract!End
      BY <1>4, <2>1, Ending DEF SendTerm, history
    <3>2. QED BY <3>1 DEF Contract!Next
  <2>2. CASE pc \notin {"init", "start"}
    BY <1>4, <2>2, Unseen DEF SendTerm, history
  <2>3. QED BY <2>1, <2>2
<1>5. CASE ReadSignal
  <2>1. Contract!Tell
    BY <1>5 DEF ReadSignal, Contract!Tell, ToldOnce, history
  <2>2. QED BY <2>1 DEF Contract!Next
<1>6. ASSUME NEW op \in Ops,
             AssemblyFails(op) \/ ProcessUnsent(op) \/ Process(op)
      PROVE  Contract!Next
  <2>1. Contract!Observe(op)
    BY <1>6 DEF AssemblyFails, ProcessUnsent, Process, Counted, Contract!Observe
  <2>2. QED BY <2>1 DEF Contract!Next
<1>7. CASE Receipt
  <2>1. /\ pc = "submit" /\ pc' \notin {"done", "dead"}
        /\ cur \in (seen \cup Leftover) \ acked /\ cur \in Records
    BY <1>7 DEF Receipt, Return, SendingIsUncounted, Uncounted, Counts, Records
  <2>2. Contract!Acknowledge(cur)
    BY <1>7, <2>1 DEF Receipt, Contract!Acknowledge
  <2>3. QED BY <2>1, <2>2 DEF Contract!Next, Records
<1>8. CASE InvalidRecord \/ Unauthorized
  <2>1. pc = "submit" /\ pc' \notin {"done", "dead"}
    BY <1>8 DEF InvalidRecord, Unauthorized, GiveUp, Return, SendingIsUncounted
  <2>2. QED
    BY <1>8, <2>1, Unseen DEF InvalidRecord, Unauthorized, GiveUp
<1>9. CASE Transient
  <2>1. /\ pc = "submit" /\ pc' \notin {"done", "dead"} /\ cur \in Records
        /\ UNCHANGED <<seen, acked, signal, verdict>>
    BY <1>9 DEF Transient, GiveUp, Return, SendingIsUncounted, Uncounted, Counts,
                Records, history
  <2>2. CASE delivered' = delivered
    BY <2>1, <2>2, Unseen
  <2>3. CASE delivered' = delivered \cup {cur}
    <3>1. Contract!Deliver(cur)
      BY <2>1, <2>3 DEF Contract!Deliver
    <3>2. QED BY <2>1, <3>1 DEF Contract!Next, Records
  <2>4. QED BY <1>9, <2>2, <2>3 DEF Transient
<1>10. CASE UNCHANGED vars
  BY <1>10, Unseen DEF vars, history
<1>11. QED
  BY <1>1, <1>2, <1>3, <1>4, <1>5, <1>6, <1>7, <1>8, <1>9, <1>10
     DEF Next, Step, Agent

\* Whatever the pipeline, the disk and the hook do, the agent keeps the contract
\* of a coverage report: it counts a record once and only when it is processed,
\* and a report it writes agrees with the counts.
THEOREM DeliveryKeepsTheContract == Spec => KeepsTheContract
<1>1. Init => IInv /\ ToldOnce /\ Contract!Init
  <2>1. Init => ToldOnce /\ Contract!Init
    BY DEF Init, ToldOnce, Contract!Init, Contract!Reports
  <2>2. QED BY <2>1, InitHolds
<1>2. IInv /\ ToldOnce /\ [Next]_vars => (IInv /\ ToldOnce)'
  BY StepKeeps, ToldStep
<1>3. IInv /\ ToldOnce /\ [Next]_vars => [Contract!Next]_(Contract!vars)
  BY ContractStep
<1>4. QED
  BY <1>1, <1>2, <1>3, PTL DEF Spec, KeepsTheContract, Contract!Spec

-----------------------------------------------------------------------------
(* Types *)

\* What the invariant of the counters leaves out.
Values ==
    /\ ebpf \in BOOLEAN /\ pipeline \in BOOLEAN
    /\ back \in {"loop", "final", "flush"}
    /\ cur \in Records \cup {None}
    /\ attempt \in 1..MaxAttempts
    /\ signal \in {None, "clean", "unknown"}
    /\ oldSignal \in {None, "clean", "unknown"}
    /\ heartbeat \in {None, "started", "stopped"}
    /\ post \in {"idle", "signalled", "ended", "unsignalled"}
    /\ verdict \in {None, "clean", "unknown"}
    /\ delivered \subseteq Records
    /\ broken \subseteq Ops

\* A record that is sent for the first time is of this job.
FreshIsOp == pc = "submit" /\ curSeq = None => cur \in Ops

VInv == Values /\ FreshIsOp

LEMMA ValuesAreTypes == IInv /\ VInv => TypeOK
<1> SUFFICES ASSUME IInv, VInv PROVE TypeOK
  OBVIOUS
<1>1. seen \subseteq Ops /\ seen \subseteq Records /\ acked \subseteq Records
  BY DEF IInv, Counts, Records
<1>2. observed \in Nat /\ submitted \in Nat
  BY <1>1, FiniteSubsets DEF IInv, Counts
<1>3. QED BY <1>1, <1>2 DEF IInv, Types, VInv, Values, TypeOK

LEMMA ValuesStep ==
    ASSUME IInv, VInv, [Next]_vars
    PROVE  VInv'
<1> USE DEF VInv, Values, FreshIsOp
<1>0. UNCHANGED setting
  BY DEF Next, vars
<1>1. 1 \in 1..MaxAttempts
  BY AttemptsAssumption
<1>2. CASE HeartbeatStart \/ NoEbpf \/ Attached \/ LoadFails \/ Kill \/ EndRun
  BY <1>0, <1>2 DEF HeartbeatStart, NoEbpf, Attached, LoadFails, Kill, EndRun,
        Finish, Written, Coverage, setting, submission, reports, hook, history
<1>3. CASE StopSeen \/ StartFlush \/ SendTerm \/ ReadSignal
  BY <1>0, <1>3 DEF StopSeen, StartFlush, SendTerm, ReadSignal, setting,
        submission, reports, hook, history
<1>4. ASSUME NEW op \in Ops,
             AssemblyFails(op) \/ ProcessUnsent(op) \/ Process(op)
      PROVE  VInv'
  <2>1. broken' \subseteq Ops
    BY <1>4 DEF AssemblyFails, ProcessUnsent, Process, Buffer
  <2>2. QED
    BY <1>0, <1>1, <1>4, <2>1 DEF AssemblyFails, ProcessUnsent, Process, Counted,
          Records, setting, submission, reports, hook
<1>5. CASE Receipt
  BY <1>0, <1>1, <1>5 DEF Receipt, Return, IInv, SendingIsUncounted, Uncounted,
        Counts, Records, setting, reports, hook
<1>6. ASSUME pc = "submit", GiveUp, delivered' \subseteq Records
      PROVE  VInv'
  <2>1. broken' \subseteq Ops
    BY <1>6 DEF GiveUp, Buffer
  <2>2. QED
    BY <1>0, <1>1, <1>6, <2>1 DEF GiveUp, Return, IInv, SendingIsUncounted,
          setting, reports, hook
<1>7. CASE InvalidRecord \/ Unauthorized
  BY <1>6, <1>7 DEF InvalidRecord, Unauthorized
<1>8. CASE Transient
  <2>1. delivered' \subseteq Records
    BY <1>8 DEF Transient, IInv, SendingIsUncounted, Uncounted, Counts, Records
  <2>2. CASE attempt < MaxAttempts
    <3>1. attempt' \in 1..MaxAttempts
      BY <1>8, <2>2, AttemptsAssumption DEF Transient
    <3>2. QED
      BY <1>0, <1>8, <2>1, <2>2, <3>1 DEF Transient, setting, reports, hook, history
  <2>3. CASE ~(attempt < MaxAttempts)
    BY <1>6, <1>8, <2>1, <2>3 DEF Transient
  <2>4. QED BY <2>2, <2>3
<1>9. ASSUME NEW s \in Seqs, FlushNext(s) \/ FlushSkip(s)
      PROVE  VInv'
  <2>1. cur' \in Records \cup {None}
    BY <1>9 DEF FlushNext, FlushSkip, IInv, Types, submission
  <2>2. QED
    BY <1>0, <1>1, <1>9, <2>1, NoneAssumption DEF FlushNext, FlushSkip, setting,
          submission, reports, hook, history
<1>10. CASE UNCHANGED vars
  BY <1>0, <1>10 DEF vars, setting, submission, reports, hook, history
<1>11. QED
  <2> HIDE DEF VInv
  <2>1. QED
    BY <1>2, <1>3, <1>4, <1>5, <1>7, <1>8, <1>9, <1>10 DEF Next, Step, Agent

LEMMA ValuesInit == Init => VInv
<1>1. Init => ebpf \in BOOLEAN /\ pipeline \in BOOLEAN
  BY Zenon DEF Init
<1>2. Init => /\ pc = "init" /\ back = "loop" /\ cur = None /\ attempt = 1
              /\ oldSignal \in {None, "clean", "unknown"}
              /\ signal = oldSignal
              /\ heartbeat \in {None, "started", "stopped"}
              /\ post = "idle" /\ verdict = None
              /\ delivered = {} /\ broken = {}
  BY DEF Init
<1>3. QED
  BY <1>1, <1>2, AttemptsAssumption DEF VInv, Values, FreshIsOp

\* Every variable keeps to its values: the retry counter stays within the
\* attempts, and what is sent or on disk is a record.
THEOREM DeliveryTypes == Spec => []TypeOK
<1>1. Init => IInv /\ VInv
  BY InitHolds, ValuesInit
<1>2. IInv /\ VInv /\ [Next]_vars => (IInv /\ VInv)'
  BY StepKeeps, ValuesStep
<1>3. QED BY <1>1, <1>2, ValuesAreTypes, PTL DEF Spec

-----------------------------------------------------------------------------
(* What is in the buffer directory stays there *)

LeavesCounted ==
    \A s \in Used : files'[s] # files[s] =>
        \/ files[s] \in acked'
        \/ files[s] \in Leftover /\ s = nextSeq /\ nextSeq' = s + 1

\* Buffering writes over one file, and not over one of this agent.
LEMMA BufferTakesOne ==
    ASSUME Types, BelowNext, NEW op, Buffer(op)
    PROVE  LeavesCounted
<1>1. nextSeq \in Nat /\ nextSeq' = nextSeq + 1
      /\ \A s \in Seqs \ {nextSeq} : files'[s] = files[s]
  BY DEF Types, Buffer
<1>2. \A s \in Used : s = nextSeq => files[s] \in Leftover
  BY <1>1 DEF BelowNext, Used, Types, Records
<1>3. QED BY <1>1, <1>2 DEF LeavesCounted, Used

LEMMA LeavesStep ==
    ASSUME IInv, KInv, [Next]_vars
    PROVE  LeavesCounted
<1>1. Types /\ BelowNext /\ InHand
  BY DEF IInv, KInv
<1>2. ASSUME files' = files
      PROVE  LeavesCounted
  BY <1>2 DEF LeavesCounted
<1>3. CASE \/ HeartbeatStart \/ NoEbpf \/ Attached \/ LoadFails \/ Kill
           \/ StopSeen \/ StartFlush \/ EndRun \/ SendTerm \/ ReadSignal
  BY <1>2, <1>3 DEF HeartbeatStart, NoEbpf, Attached, LoadFails, Kill, StopSeen,
        StartFlush, EndRun, SendTerm, ReadSignal, reconciler
<1>4. ASSUME NEW op \in Ops, AssemblyFails(op) \/ Process(op)
      PROVE  LeavesCounted
  BY <1>2, <1>4 DEF AssemblyFails, Process
<1>5. ASSUME NEW op \in Ops, ProcessUnsent(op)
      PROVE  LeavesCounted
  BY <1>1, <1>5, BufferTakesOne DEF ProcessUnsent
<1>6. CASE Receipt
  <2>1. acked' = acked \cup {cur}
    BY <1>6 DEF Receipt
  <2>2. \A s \in Used : files'[s] # files[s] => files[s] = cur
    BY <1>1, <1>6 DEF Receipt, InHand, Types, Used
  <2>3. QED BY <2>1, <2>2 DEF LeavesCounted
<1>7. CASE GiveUp
  BY <1>1, <1>2, <1>7, BufferTakesOne DEF GiveUp
<1>8. CASE Transient
  BY <1>2, <1>7, <1>8 DEF Transient, reconciler
<1>9. ASSUME NEW s \in Seqs, FlushNext(s) \/ FlushSkip(s)
      PROVE  LeavesCounted
  BY <1>2, <1>9 DEF FlushNext, FlushSkip, reconciler
<1>10. CASE UNCHANGED vars
  BY <1>2, <1>10 DEF vars, reconciler
<1>11. QED
  BY <1>3, <1>4, <1>5, <1>6, <1>7, <1>8, <1>9, <1>10
     DEF Next, Step, Agent, InvalidRecord, Unauthorized

\* However often the pipeline refuses them, what an agent buffers, and what
\* earlier ones left, leaves the directory only as counted, or when a name that
\* an earlier agent used is taken again (reconcile.rs).
THEOREM BufferedStay == Spec => BufferedAreKept
<1>1. Init => IInv /\ KInv
  BY InitHolds, KeptInit
<1>2. IInv /\ KInv /\ [Next]_vars => (IInv /\ KInv)'
  BY StepKeeps, KeepStep
<1>3. IInv /\ KInv /\ [Next]_vars => [LeavesCounted]_vars
  BY LeavesStep
<1>4. [LeavesCounted]_vars =>
         [\A s \in Used : files'[s] # files[s] =>
             \/ files[s] \in acked'
             \/ files[s] \in Leftover /\ s = nextSeq /\ nextSeq' = s + 1]_vars
  BY DEF LeavesCounted
<1>5. QED BY <1>1, <1>2, <1>3, <1>4, PTL DEF Spec, BufferedAreKept
=============================================================================
