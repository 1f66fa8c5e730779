\* The disciplined workload: children exec at once, processes are
\* single-threaded and outlive their descendants, nothing is lost.  Processes
\* rename themselves, their trees have up to three levels, and a pid may be
\* reused as soon as its process is gone.
CONSTANTS
  Pids = {r, p1, p2, p3}
  NoPid = NoPid
  Comms = {npm, sh}
  Whitelist = {npm}
  Paths = {f}
  Accesses = {"read"}
  Codes = {7}
  Commands = {}
  None = None
  Runner = r
  Workload = {"titles"}
  MaxGen = 2
  MaxTasks = 3
  RingCap = 1
  MapCap = 4
  MaxWalk = 4
SPECIFICATION Spec
PROPERTIES NoForeignIO OneOperationPerInvocation ExitCodeReported ExitCodeIsOwn
  InheritanceComplete
SYMMETRY Symmetry
CHECK_DEADLOCK FALSE
