\* The agent's loop and its children under fairness: the stop signal ends the
\* run, also when a tool the agent calls is observed itself.
CONSTANTS
  Pids = {r, p1, h}
  NoPid = NoPid
  Comms = {"git", "node", "go"}
  Whitelist = {"node"}
  Paths = {f}
  Accesses = {"read"}
  Codes = {0, 1}
  Commands = {cmd}
  None = None
  Runner = r
  Helper = h
  Workload = {"drops", "stop"}
  MaxGen = 1
  MaxTasks = 2
  RingCap = 4
  MapCap = 3
  MaxWalk = 2
SPECIFICATION RecorderSpec
PROPERTIES StopEndsTheRun
CHECK_DEADLOCK FALSE
