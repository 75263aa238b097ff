SPECIFICATION BootSpec
CONSTANTS
  NumThreads = 2
  MaxRuns = 2
  MaxCrashes = 1
  CreateMayFail = FALSE
INVARIANTS
  OwnState
\* The run ends when the server is not started again.
CHECK_DEADLOCK FALSE
