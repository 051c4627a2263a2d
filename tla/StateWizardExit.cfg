SPECIFICATION FairSpec
CONSTANTS
  Motion = Motion
  Arm = Arm
  Legs = Legs
  Machine <- MCMachine
  Enabled <- MCMachine
  Laps = 4
INVARIANT CleanExit
CHECK_DEADLOCK FALSE
