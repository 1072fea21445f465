SPECIFICATION FairSpec
CONSTANTS
  FRAGMENT_SIZE = 2
  MAX_MSGLEN = 4
  MAX_NETCHAN_QUEUE = 1
  MaxMessages = 4
INVARIANTS
  TypeOK
  FragmentsExact
  QueueBounded
PROPERTIES
  Implements
  Drains
CHECK_DEADLOCK FALSE
