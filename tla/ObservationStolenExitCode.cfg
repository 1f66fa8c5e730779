\* A sibling thread of the root exits first.
CONSTANTS
  Pids = {r, p1, p2}
  NoPid = NoPid
  Comms = {npm, sh}
  Whitelist = {npm}
  Paths = {f}
  Accesses = {"read"}
  Codes = {7}
  Commands = {}
  None = None
  Runner = r
  Workload = {"threads"}
  MaxGen = 1
  MaxTasks = 2
  RingCap = 2
  MapCap = 3
  MaxWalk = 3
SPECIFICATION Spec
PROPERTIES ExitCodeReported
SYMMETRY Symmetry
CHECK_DEADLOCK FALSE
