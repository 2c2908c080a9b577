SPECIFICATION FairSpec
CONSTANTS
  Job = {j1, j2}
  Name = {n1, n2}
  Orders <- AllOrders
  Crashes = 1
INVARIANTS
  TypeOK
  NotTooEarly
  ResultHonest
PROPERTIES
  StatusForward
  EveryJobEnds
CHECK_DEADLOCK FALSE
