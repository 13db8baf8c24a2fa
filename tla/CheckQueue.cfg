SPECIFICATION Spec
CONSTANTS
  Workers = {w1, w2}
  Master = m
  Check = {c1, c2, c3, c4}
  BatchSize = 2
  BadSets = {{}, {c1}, {c1, c2, c3, c4}}
  MaxSessions = 2
INVARIANTS
  CountersExact
PROPERTY
  ImplementsService
  WaitReturns
