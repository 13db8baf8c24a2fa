SPECIFICATION Spec
CONSTANTS
  g = g
  a1 = a1
  a2 = a2
  b1 = b1
  b2 = b2
  none = none
  Genesis = g
  Block <- OverBlocks
  Parent <- OverParent
  Work <- OverWork
  Address <- OverAddress
  Threads = {t1}
  Invalid = {b2}
  BadContext = {}
  Contestable = {a1}
  ReprocessDepth = 0
  MaxInvalidate = 0
  MaxReconsider = 0
  MaxReprocess = 0
  MaxContest = 1
  MaxCrash = 0
INVARIANTS
 BestChainActive
