SPECIFICATION Spec
CONSTANTS
  g = g
  a1 = a1
  a2 = a2
  b1 = b1
  b2 = b2
  none = none
  Genesis = g
  Block <- ForkBlocks
  Parent <- ForkParent
  Work <- ForkWork
  Address <- ForkAddress
  Threads = {t1}
  Invalid = {}
  BadContext = {}
  Contestable = {a2}
  ReprocessDepth = 0
  MaxInvalidate = 0
  MaxReconsider = 0
  MaxReprocess = 1
  MaxContest = 1
  MaxCrash = 0
INVARIANTS
  BestChainActive
