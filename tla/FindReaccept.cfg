SPECIFICATION WalletSpec
CONSTANTS
  f = f
  k = k
  a = a
  b = b
  d = d
  none = none
  Tx <- MCTx
  Inputs <- MCInputs
  Outputs <- MCOutputs
  Funding = {f}
  Generated = {k}
  NonStandard = {}
  Peers = {}
  Maturity = 1
  MaxOrphanTx = 0
  MaxHeight = 2
  MaxBlockTx = 1
  Mine <- MCMine
  Coinbases = {}
  HashOrder <- MCHashOrder
  bSpendZeroConfChange = TRUE
  MaxDisconnect = 1
  MaxCrash = 1
PROPERTY ReacceptComplete
