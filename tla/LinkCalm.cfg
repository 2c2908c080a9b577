SPECIFICATION FairSpec
CONSTANTS
  HEART_MAX_COUNT = 0
  QUEUE_DEPTH_LEN = 1
  AirCap = 1
  SilentCap = 0
  MemoryFails = FALSE
  Racers = {"pub"}
  Moods = {"calm"}
PROPERTIES
  CalmJoins
CHECK_DEADLOCK FALSE
