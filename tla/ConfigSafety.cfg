SPECIFICATION FairSpec
CONSTANTS
  Orders <- SomeOrders
  FirstPeriod = 3
  Alert <- AlertAt90
  Milli = 10
  Word = 64
  Byte = 256
  Absent = Absent
  Half = Half
  CreateFails = TRUE
  Leaks = 1
  Crashes = 2
INVARIANTS
  TypeOK
  NoStrayTimers
  IdsApart
  TimersFollowFile
  AcknowledgedKept
PROPERTIES
  ComesBack
  LimitsAsAsked
CHECK_DEADLOCK FALSE
