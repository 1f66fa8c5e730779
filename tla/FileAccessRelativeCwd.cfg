\* A process whose working directory is not the root's; nothing is lost.
CONSTANTS
  Procs = {p1}
  Dirs = {root, sub}
  Bases = {a}
  Root = root
  Scope = {root, sub}
  Cwds = {root, sub}
  Relative = Relative
  Names <- AllNames
  Flags <- SomeFlags
  Lossy = FALSE
  None = None
SPECIFICATION Spec
INVARIANTS EveryReadIsRecorded
