SPECIFICATION Spec
CONSTANTS
  Job = {j1}
  Name = {n1}
  Orders <- Upgrades
  Crashes = 0
INVARIANTS
  UpgradeFinishes
CHECK_DEADLOCK FALSE
