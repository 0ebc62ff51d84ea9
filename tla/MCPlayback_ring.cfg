SPECIFICATION Spec
CONSTANTS
  BufferSize = 4
  PeriodSize = 1
  Laps = 2
  MaxFrames = 9
  MaxLatency = 1
  Requests = {3}
  CanPause = TRUE
INVARIANTS
  TypeOK
  PointersInRange
  ChunkInRing
  DmaMatchesState
