SPECIFICATION FairSpec
CONSTANTS
  g = g
  a1 = a1
  a2 = a2
  b1 = b1
  b2 = b2
  none = none
  Genesis = g
  Block <- OverBlocks
  Parent <- OverParent
  Work <- OverWork
  Address <- OverAddress
  Threads = {t1, t2}
  Invalid = {b2}
  BadContext = {}
  Contestable = {}
  ReprocessDepth = 0
  MaxInvalidate = 0
  MaxReconsider = 0
  MaxReprocess = 0
  MaxContest = 0
  MaxCrash = 2
INVARIANTS
 BestChainActive
PROPERTIES
 ActivationEnds
