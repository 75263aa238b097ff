SPECIFICATION FairSpec
CONSTANTS
  w1 = w1
  w2 = w2
  Workers = {w1, w2}
  Requests <- MCRequests
  Inodes = {1, 2}
  Sizes = {0, 9}
  Disks <- MCDisks
  Absent = Absent
  Dir = Dir
  HeadLen = 2
  TextLen = 1
  IntMax = 3
  SockBuf = 2
  Readers = {w1}
  MaxRequests = 2
  Renames <- MCRenames
  MaxChanges = 1
INVARIANTS
  Framed
  BodiesKept
  ClosesOnlyAnnounced
PROPERTIES
  RequestEnds
CHECK_DEADLOCK FALSE
