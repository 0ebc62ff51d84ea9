SPECIFICATION Spec
CONSTANTS
  Window = 4
  Ram <- Pages14
  LowLimit = 8
  MaskLimit = 12
  Orders = {0, 2, 3}
  VmSizes = {3}
  MaxBlocks = 3
  VmMayFail = TRUE
  LookupMayFail = FALSE
  RecordMayFail = FALSE
  None = None
INVARIANTS BlocksConsistent DmaReaches NothingLost
