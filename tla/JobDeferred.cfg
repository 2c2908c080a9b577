SPECIFICATION FairSpec
CONSTANTS
  Job = {j1}
  Name = {n1}
  Orders <- Deferrals
  Crashes = 0
PROPERTIES
  DeferredRuns
CHECK_DEADLOCK FALSE
