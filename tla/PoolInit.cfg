SPECIFICATION BootFairSpec
CONSTANTS
  NumThreads = 4
  MaxRuns = 3
  MaxCrashes = 2
  CreateMayFail = TRUE
INVARIANTS
  OwnStateIfFresh
  ArgsLiveIfFresh
PROPERTIES
  InitReturns
\* The run ends when the server is not started again.
CHECK_DEADLOCK FALSE
