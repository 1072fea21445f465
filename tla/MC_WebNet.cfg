SPECIFICATION Spec
CONSTANTS
  Addrs = {a, b, c}
  Named = {a, b, c}
  Slots = 2
  MaxSockets = 3
  MaxStreams = 0
  maxConnections = 1
  PendingSends = 1
  PendingPackets = 1
  NxQueue = 1
  MaxPackets = 3
  MaxData = 0
  MaxWritten = 0
  MaxFaults = 0
SYMMETRY Symmetry
INVARIANTS
  PacketsInOrder
PROPERTIES
  GameConnectionKept
CHECK_DEADLOCK FALSE
