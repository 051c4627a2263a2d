SPECIFICATION FairSpec
CONSTANTS
  Twist <- MCTwist
  ZeroTwist = 0
  WheelVel <- MCWheelVel
  Still = 0
  Motor <- MCMotor
  NoMsg = NoMsg
  IdleTime = 2
  SettleTime = 2
  CmdTimeout = 2
  MaxLag = 1
  MaxTime = 10
  MaxRuns = 2
  MaxInflight = 2
INVARIANTS NoReplay DeadMan LastCommandWins
PROPERTIES IsDeadManSwitch DriveReached
