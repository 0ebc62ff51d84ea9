SPECIFICATION FairSpec
CONSTANTS
  UINT_MAX = 9999
  LONG_MAX = 4999
  Cards <- SmallCards
  Requests <- SmallRequests
INVARIANTS InstalledFits NoSolutionLost RefusedForAReason
PROPERTY CallReturns
