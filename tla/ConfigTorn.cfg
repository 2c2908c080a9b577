SPECIFICATION Spec
CONSTANTS
  Orders <- OneOrder
  FirstPeriod = 3
  Alert <- AlertAt90
  Milli = 10
  Word = 64
  Byte = 256
  Absent = Absent
  Half = Half
  CreateFails = FALSE
  Leaks = 0
  Crashes = 1
INVARIANTS
  PeriodsStored
CHECK_DEADLOCK FALSE
