SPECIFICATION Spec
CONSTANTS
  Txid = {x1, x2}
  Output = {o1, o2}
  BlockId = {h1, h2}
  none = none
  MaxWriteErrors = 1
INVARIANTS
  FlagsSound
PROPERTIES
  ImplementsStore
