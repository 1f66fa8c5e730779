\* Every fault, a state directory that an earlier agent may have used, and a
\* pipeline that answers anything or is not configured.
CONSTANTS
  Ops = {o1, o2}
  Leftover = {x1, x2}
  None = None
  MaxAttempts = 2
  MaxSeq = 2
  Faults = {"no_ebpf", "load", "assembly", "disk", "kill", "pid"}
SPECIFICATION JobFairSpec
INVARIANTS TypeOK CleanMeansDelivered CountsAreExact VerdictIsSound NothingIsLost OnlyThePublishedRuns
PROPERTIES BufferedAreKept StopEnds KeepsTheContract
CHECK_DEADLOCK FALSE
