\* A descendant that never execs.
CONSTANTS
  Pids = {r, p1, p2}
  NoPid = NoPid
  Comms = {npm, sh}
  Whitelist = {npm}
  Paths = {f}
  Accesses = {"read"}
  Codes = {7}
  Commands = {}
  None = None
  Runner = r
  Workload = {"bare_fork"}
  MaxGen = 1
  MaxTasks = 2
  RingCap = 2
  MapCap = 3
  MaxWalk = 3
SPECIFICATION Spec
PROPERTIES InheritanceComplete
SYMMETRY Symmetry
CHECK_DEADLOCK FALSE
