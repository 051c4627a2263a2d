SPECIFICATION Spec
CONSTANTS
  Idle = Idle
  Drive = Drive
  done = done
  stop = stop
  State <- MCState
  Event <- MCEvent
  NoState = NoState
  NoEvent = NoEvent
  NoCall = NoCall
  Initial = Idle
  Table <- MCTable
  Acts <- MCActs
  MaxQueue = 2
  MaxEdits = 0
INVARIANT SetStateSets
CHECK_DEADLOCK FALSE
