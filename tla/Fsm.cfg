SPECIFICATION FairSpec
CONSTANTS
  Idle = Idle
  Drive = Drive
  done = done
  stop = stop
  State <- MCState
  Event <- MCEvent
  NoState = NoState
  NoEvent = NoEvent
  NoCall = NoCall
  Initial = Idle
  Table <- MCTable
  Acts <- MCActs
  MaxQueue = 3
  MaxEdits = 1
INVARIANTS OneEntered EventsAreCurrent RequestKept
PROPERTY EventLeaves
CHECK_DEADLOCK FALSE
