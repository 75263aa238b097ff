SPECIFICATION FairSpec
CONSTANTS
  Requests <- MCRequests
  BufSize = 10
  IntMax = 15
  MaxRequests = 2
  Leftovers <- MCLeftovers
INVARIANTS
  HandledAsSent
PROPERTIES
  RequestsEnd
