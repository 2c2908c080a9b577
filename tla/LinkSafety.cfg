SPECIFICATION Spec
CONSTANTS
  HEART_MAX_COUNT = 1
  QUEUE_DEPTH_LEN = 1
  AirCap = 2
  SilentCap = 4
  MemoryFails = TRUE
  Racers = {"insert", "heart", "inter"}
  Moods = {}
INVARIANTS
  TypeOK
  SilenceBounded
PROPERTIES
  ImplementsAccess
CHECK_DEADLOCK FALSE
