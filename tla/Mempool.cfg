SPECIFICATION PoolSpec
CONSTANTS
  f = f
  k = k
  a = a
  b = b
  c = c
  d = d
  e = e
  n = n
  Tx <- MCTx
  Inputs <- MCInputs
  Outputs <- MCOutputs
  Funding = {f}
  Generated = {k}
  NonStandard = {n}
  Peers = {p1, p2}
  Maturity = 2
  MaxOrphanTx = 2
  MaxHeight = 4
  MaxBlockTx = 2
INVARIANTS
  PoolMinable
PROPERTIES
  NothingLost
  OrphansFollowParents
