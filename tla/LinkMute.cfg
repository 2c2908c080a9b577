SPECIFICATION FairSpec
CONSTANTS
  HEART_MAX_COUNT = 0
  QUEUE_DEPTH_LEN = 1
  AirCap = 1
  SilentCap = 0
  MemoryFails = FALSE
  Racers = {}
  Moods = {"mute"}
PROPERTIES
  OutageRevokes
  MuteNoticed
CHECK_DEADLOCK FALSE
