SPECIFICATION Spec
CONSTANTS
  MaxConns = 1
  NumThreads = 1
  MaxFds = 2
  BufSize = 2
  IdleLimit = 1
  Clients = {c1, c2}
  NONE = NONE
  Senders = {c1, c2}
  MaxSend = 1
  MaxClock = 1
  MayFail = FALSE
INVARIANTS
  BufferIsPrivate
SYMMETRY Symmetry
