SPECIFICATION FairSpec
CONSTANTS
  Parts = 3
  QueueSize = 2
  MaxMsg = 6
INVARIANTS CheckKept LastOnItsWay
PROPERTIES IsRegister LastGot
CHECK_DEADLOCK FALSE
