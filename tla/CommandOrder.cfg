SPECIFICATION FairSpec
CONSTANTS
  Mid = {m1, m2}
  Types <- OneOfEach
  QUEUE_DEPTH_LEN = 1
  ParamPassed = TRUE
  Outages = 1
INVARIANTS
  TypeOK
  RightHandler
  RightReply
PROPERTIES
  ImplementsLanes
  AllServed
CHECK_DEADLOCK FALSE
