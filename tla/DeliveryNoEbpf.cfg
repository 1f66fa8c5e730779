\* A runner without eBPF.
CONSTANTS
  Ops = {o1, o2}
  Leftover = {}
  None = None
  MaxAttempts = 2
  MaxSeq = 2
  Faults = {"no_ebpf"}
SPECIFICATION Spec
INVARIANTS NoEbpfIsUnknown
CHECK_DEADLOCK FALSE
