SPECIFICATION FairSpec
CONSTANTS
  N = 2
  Vel = {0, 1}
  Stop = 0
  Shapes <- AnyShapes
  NoMsg = NoMsg
  MaxSent = 2
  MaxRuns = 2
  MaxDeaths = 1
INVARIANTS Provenance TornOneStep NoLeftover FreshVelocity
PROPERTY CommandDriven
