SPECIFICATION FairSpec
CHECK_DEADLOCK FALSE
CONSTANTS
  g = g
  b1 = b1
  b2 = b2
  c1 = c1
  Block <- MCBlock
  Genesis = g
  Parent <- MCParent
  Work <- MCWork
  Address <- MCAddress
  NULL = NULL
  Peer = {p1, p2}
  Preferable = {p1}
  Client = {}
  Window = 1
  MaxInTransit = 2
INVARIANTS
  BooksAgree
PROPERTIES
  RequestsInOrder
  EveryRequestEnds
  SyncStarts
