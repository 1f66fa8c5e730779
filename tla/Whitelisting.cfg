\* A pattern of COMM_LEN bytes or more, as "npm run test:unit" is: two pids are
\* enough, one of them to be the parent of the other.
CONSTANTS
  Pids = {p1, p2}
  NoPid = NoPid
  CommLen = 3
  Inner = {"^"}
  Names <- SomeNames
  Configs <- OneIsLong
  Comms <- TheComms
  Whitelist <- TheWhitelist
  Paths = {f}
  Accesses = {"create"}
  Codes = {c0}
  Commands = {}
  None = None
  MaxWalk = 2
SPECIFICATION AgentSpec
PROPERTIES ListedCommandsStart
CHECK_DEADLOCK FALSE
