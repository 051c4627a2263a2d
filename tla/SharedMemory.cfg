SPECIFICATION Spec
CONSTANTS
  controller = controller
  rosio = rosio
  gamepad = gamepad
  joints = joints
  gain = gain
  a1 = a1
  a2 = a2
  a3 = a3
  one = one
  few = few
  short = short
  long = long
  None = None
  Process <- MCProcess
  Key <- MCKey
  Length <- MCLength
  Address <- MCAddress
  Layouts <- MCLayouts
  OtherLengths <- MCOtherLengths
  MaxChanges = 1
SYMMETRY Symmetry
INVARIANTS PointersLive SomeoneSurvives
