SPECIFICATION Spec
CONSTANTS
  g = g
  a1 = a1
  a2 = a2
  b1 = b1
  b2 = b2
  none = none
  Genesis = g
  Block <- ForkBlocks
  Parent <- ForkParent
  Work <- ForkWork
  Address <- ForkAddress
  Threads = {t1, t2}
  Invalid = {}
  BadContext = {}
  Contestable = {b2}
  ReprocessDepth = 0
  MaxInvalidate = 1
  MaxReconsider = 0
  MaxReprocess = 0
  MaxContest = 1
  MaxCrash = 0
INVARIANTS
 CandidatesCompleteAtRest
 BestChainActive
 ActiveChainValid
 FailuresExplained
