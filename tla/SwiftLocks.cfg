SPECIFICATION FairSwiftSpec
CONSTANTS
  f = f
  a = a
  b = b
  m1 = m1
  m2 = m2
  Tx <- MCTx
  Inputs <- MCInputs
  Outputs <- MCOutputs
  Funding = {f}
  Generated = {}
  NonStandard = {}
  Peers = {}
  Maturity = 1
  MaxOrphanTx = 0
  MaxHeight = 1
  MaxBlockTx = 1
  Requests = {a, b}
  Masternodes = {m1, m2}
  Self = {}
  SignaturesRequired = 2
  Life = 1
  ReprocessDepth = 0
  Ballots <- MCBallots
  MaxChecked = 1
INVARIANTS
  VotesCountedOnce
  LockedByConsensus
PROPERTIES
  RivalsKeptOut
  LocksExpire
