SPECIFICATION SignalledFairSpec
CONSTANTS
  Motion = Motion
  Arm = Arm
  Legs = Legs
  SIGINT = SIGINT
  SIGTERM = SIGTERM
  Machine <- MCMachine
  Enabled <- MCEnabled
  Laps = 4
  MaxSignals = 3
INVARIANTS Lockstep ListWhole InOrder NotForgotten
PROPERTIES NoUpdateAfterSignal AllUpdated IsService InterruptEnds
CHECK_DEADLOCK FALSE
