SPECIFICATION FairSpec
CONSTANTS
  Faults = 1
  ReadErrors = 1
  Commands = 1
  Ticking = {"heart", "app_timer"}
INVARIANTS
  TypeOK
  FindsItsOwn
  WholeOrNot
  LeftAtExit
PROPERTIES
  TimersHeard
  RebootEnds
CHECK_DEADLOCK FALSE
