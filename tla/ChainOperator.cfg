SPECIFICATION Spec
CONSTANTS
  g = g
  a1 = a1
  a2 = a2
  b1 = b1
  b2 = b2
  none = none
  Genesis = g
  Block <- ForkBlocks
  Parent <- ForkParent
  Work <- ForkWork
  Address <- ForkAddress
  Threads = {t1}
  Invalid = {b1}
  BadContext = {b2}
  Contestable = {a2}
  ReprocessDepth = 0
  MaxInvalidate = 1
  MaxReconsider = 1
  MaxReprocess = 1
  MaxContest = 1
  MaxCrash = 1
INVARIANTS
  LinksExact
  CandidatesSound
  DiskLoadable
