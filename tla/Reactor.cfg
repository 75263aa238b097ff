SPECIFICATION Spec
CONSTANTS
  MaxConns = 2
  NumThreads = 2
  MaxFds = 3
  BufSize = 2
  IdleLimit = 1
  Clients = {c1, c2}
  NONE = NONE
  Senders = {c1}
  MaxSend = 2
  MaxClock = 1
  MayFail = TRUE
INVARIANTS
  TypeOK
  WatchedOpen
  OneTaskPerBusySlot
  FdLeadsToOwner
  NoFdLeak
  NoRequestLeftBehind
PROPERTIES
  ExpiresOnlySilent
