SPECIFICATION FairSpec
CONSTANTS
  NumThreads = 2
  Tasks = {t1, t2, t3}
  NULL = NULL
  SOFT = SOFT
  HARD = HARD
  DRAIN_AND_DROP = DRAIN_AND_DROP
  Options = {SOFT, HARD, DRAIN_AND_DROP}
  MaxStaleTokens = 1
INVARIANTS
  WorkCount
  NoLostWakeup
  BusyExact
  TaskOnce
  SoftDrains
PROPERTIES
  ImplementsTaskPool
  DestroyCompletes
  EveryTaskRuns
