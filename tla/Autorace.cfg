SPECIFICATION FairSpec
CONSTANTS
  Delays <- MCDelays
  GameTime = 8
  GateTime = 3
INVARIANTS FalseStartSeen FinishIsLap OneSign GateOpens
PROPERTY RaceBegins
