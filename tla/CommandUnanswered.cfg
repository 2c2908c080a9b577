SPECIFICATION FairSpec
CONSTANTS
  Mid = {m1}
  Types = {"CON_UPGRADE"}
  QUEUE_DEPTH_LEN = 1
  ParamPassed = FALSE
  Outages = 0
PROPERTIES
  CommandAnswered
CHECK_DEADLOCK FALSE
