SPECIFICATION Spec
CONSTANTS
  g = g
  p1 = p1
  p2 = p2
  s3 = s3
  s4 = s4
  s5 = s5
  d5 = d5
  q4 = q4
  q5 = q5
  e4 = e4
  c1 = c1
  c2 = c2
  k3 = k3
  t3 = t3
  z4 = z4
  y4 = y4
  t5 = t5
  u5 = u5
  x4 = x4
  v3 = v3
  z = z
  v = v
  none = none
  Genesis = g
  Block <- LedgerBlocks
  Parent <- LedgerParent
  Work <- LedgerWork
  Address <- LedgerAddress
  Tx <- LedgerTx
  Serial = {v, z}
  Kind <- LedgerKind
  Ins <- LedgerIns
  Outs <- LedgerOuts
  Serials <- LedgerSerials
  Body <- LedgerBody
  Maturity = 2
  CheckDepth = 2
  RpcDepth = 2
  MaxDisconnect = 3
  MaxVerify = 1
  MaxStop = 1
  MaxCrash = 1
INVARIANTS
  CoinsMatchChain
  SerialsRecorded
  SpentOnce
  MaturityKept
PROPERTIES
  VerifyPasses
