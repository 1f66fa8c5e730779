\* Three pids and any events: parent links of every shape, pids that are reused
\* without an exit event, exits without an exec.  One of the configurations has
\* a pattern that ends the agent, which is why it may stop.  The command lines
\* that /proc may or may not answer are left to the proofs.
CONSTANTS
  Pids = {p1, p2, p3}
  NoPid = NoPid
  CommLen = 3
  Inner = {"^"}
  Names <- SomeNames
  Configs <- SomeConfigs
  Comms <- TheComms
  Whitelist <- TheWhitelist
  Paths = {f}
  Accesses = {"create"}
  Codes = {c0}
  Commands = {}
  None = None
  MaxWalk = 2
SPECIFICATION AgentSpec
INVARIANTS TypeOK OpenRootsAreTracked OperationsAreFiled WalkIsComplete
PROPERTIES KeepsTheLedger
CHECK_DEADLOCK FALSE
