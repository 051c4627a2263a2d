SPECIFICATION FairSpec
CONSTANTS
  MaxVel = 2
  Acc = 1
  Window = 4
  CmdTimeout = 2
  MaxDt = 1
  RosVel <- MCRosVel
INVARIANTS NoRunaway RosObeyed
PROPERTY PadDrives
