SPECIFICATION Spec
CONSTANTS
  HeapSize = 96
  HdrSize = 12
  Requests = {0, 1, 4, 23, 97}
  VmMayFail = TRUE
  Word = 65536
INVARIANTS WellFormed Tiling MemFreeExact
PROPERTY
  OwnedBlocksKept
CHECK_DEADLOCK FALSE
