SPECIFICATION FairSpec
CONSTANTS
  Threads = {t1, t2, t3}
  NULL = NULL
  STDOUT = STDOUT
  MaxCalls = 5
INVARIANTS
  NoUseAfterClose
  OneStream
PROPERTIES
  ImplementsLogSink
  CallsReturn
