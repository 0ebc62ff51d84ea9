SPECIFICATION Spec
CONSTANTS
  HeapSize = 80
  HdrSize = 12
  Requests = {4}
  VmMayFail = FALSE
  Word = 65536
INVARIANT
  AlwaysCompacted
CHECK_DEADLOCK FALSE
