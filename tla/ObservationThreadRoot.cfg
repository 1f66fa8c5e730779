\* A thread of a whitelisted command opens a file.
CONSTANTS
  Pids = {r, p1, p2}
  NoPid = NoPid
  Comms = {npm, sh}
  Whitelist = {npm}
  Paths = {f}
  Accesses = {"read"}
  Codes = {7}
  Commands = {}
  None = None
  Runner = r
  Workload = {"threads"}
  MaxGen = 1
  MaxTasks = 2
  RingCap = 2
  MapCap = 3
  MaxWalk = 3
SPECIFICATION Spec
PROPERTIES OneOperationPerInvocation
SYMMETRY Symmetry
CHECK_DEADLOCK FALSE
