SPECIFICATION Spec
CONSTANTS
  Addrs = {a}
  Named = {a}
  Slots = 1
  MaxSockets = 1
  MaxStreams = 2
  maxConnections = 1
  PendingSends = 1
  PendingPackets = 1
  NxQueue = 1
  MaxPackets = 1
  MaxData = 2
  MaxWritten = 1
  MaxFaults = 1
INVARIANTS
  StreamsOwned StreamExact
PROPERTIES
  OpenIsAnswered
CHECK_DEADLOCK FALSE
