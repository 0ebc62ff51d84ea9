SPECIFICATION Spec
CONSTANTS
  BufferSize = 8
  PeriodSize = 2
  Laps = 4
  MaxFrames = 12
  MaxLatency = 2
  Requests = {3, 8}
  CanPause = FALSE
INVARIANTS
  CopiesOverPlayed
  HwPtrTracksDma
  QueuedOrSilent
  NeverBlocks
PROPERTY
  XrunJustified
