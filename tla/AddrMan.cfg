SPECIFICATION Spec
CONSTANTS
  h1 = h1  h2 = h2  h3 = h3  s1 = s1  s2 = s2
  Service <- MCService
  Source <- MCSource
  NewBuckets = {0, 1}
  TriedBuckets = {0, 1}
  Positions = {0, 1}
  GetNewBucket <- MCNewBucket
  GetTriedBucket <- MCTriedBucket
  GetBucketPosition <- MCPosition
  MaxRefs = 2
  MaxPct = 50
  MaxId = 3
INVARIANTS CheckPasses RestoredAsDumped
PROPERTIES ForgottenForAnother
