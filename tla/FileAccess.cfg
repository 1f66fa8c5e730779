\* Two processes that call side by side, an absolute and a relative name, calls
\* that fail, records that are lost, and at the end any answer of git and any change
\* by others to one of the files.
CONSTANTS
  Procs = {p1, p2}
  Dirs = {root, sub}
  Bases = {a}
  Root = root
  Scope = {root, sub}
  Cwds = {root}
  Relative = Relative
  Names <- OneNameEach
  Flags <- SomeFlags
  Lossy = TRUE
  None = None
SPECIFICATION Spec
INVARIANTS TypeOK ChangedFilesAreOutputs ReadFilesAreRecorded InputsAreNotProduced
  UsedFilesAreHashed InputsJoinTheSource
SYMMETRY Symmetry
