SPECIFICATION UdpSpec
CONSTANTS
  Message = {1, 2, 3}
  Size <- MCSize
  Uuid <- MCUuid
  MaxBody = 2
  ByteRange = 4
  maxQueueSize = 2
  MaxArrivals = 2
  MaxRestarts = 1
INVARIANTS Intact MixedInPlace LossTolerated NoMoreThanArrived
CHECK_DEADLOCK FALSE
