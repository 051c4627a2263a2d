SPECIFICATION UdpSpec
CONSTANTS
  Message = {1}
  Size <- FullSize
  Uuid <- MCUuid
  MaxBody = 2
  ByteRange = 4
  maxQueueSize = 2
  MaxArrivals = 2
  MaxRestarts = 0
INVARIANT AnySize
CHECK_DEADLOCK FALSE
