\* Almost anything goes except pid reuse: threads, orphans,
\* lost records, evicted map entries, and the end of the job at any moment.
CONSTANTS
  Pids = {r, p1, p2}
  NoPid = NoPid
  Comms = {npm, sh}
  Whitelist = {npm}
  Paths = {f}
  Accesses = {"read"}
  Codes = {7}
  Commands = {}
  None = None
  Runner = r
  Workload = {"threads", "orphans", "drops", "stop"}
  MaxGen = 1
  MaxTasks = 2
  RingCap = 2
  MapCap = 1
  MaxWalk = 3
SPECIFICATION Spec
INVARIANTS TypeOK
PROPERTIES NoForeignIO ExitCodeIsOwn
SYMMETRY Symmetry
CHECK_DEADLOCK FALSE
