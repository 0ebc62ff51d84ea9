SPECIFICATION FairSpec
CONSTANTS
  Bytes = {0, 1}
  ActiveSensing = 1
  Stale = 9
  Size = 2
  TxMax = 1
  RxMax = 1
  FifoSize = 1
  Requests = {3}
INVARIANTS PortConsistent
PROPERTIES OutputInOrder InputInOrder CallsEnd
