SPECIFICATION FairSpec
CONSTANTS
  Requests = {r1, r2}
  MaxProcs = 2
  Durations = {1, 2}
  MaxStops = 1
  None = None
INVARIANTS LivePortsReserved IdsAccounted UnmanagedOnlyIfFailed
PROPERTIES EventuallyReaped AddReturns
CHECK_DEADLOCK FALSE
