SPECIFICATION FairSpec
CONSTANTS
  MaxConns = 1
  NumThreads = 1
  MaxFds = 2
  BufSize = 1
  IdleLimit = 1
  Clients = {c1, c2, c3}
  NONE = NONE
  Senders = {c1}
  MaxSend = 2
  MaxClock = 0
  MayFail = FALSE
PROPERTIES
  InputIsTaken
  BacklogDrains
