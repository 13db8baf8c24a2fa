SPECIFICATION FairSpec
CONSTANTS
  Servers = {s1, s2}
  MaxTime = 3
  MaxDelay = 2
  MaxTasks = 3
CHECK_DEADLOCK FALSE
INVARIANTS
  ThreadsCounted
  FirstTaskAttended
  DrainLeavesNothing
PROPERTIES
  StopEnds
