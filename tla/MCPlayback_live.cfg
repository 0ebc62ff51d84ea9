SPECIFICATION FairSpec
CONSTANTS
  BufferSize = 4
  PeriodSize = 1
  Laps = 4
  MaxFrames = 5
  MaxLatency = 1
  Requests = {1, 4}
  CanPause = FALSE
PROPERTY
  UnderrunReported
