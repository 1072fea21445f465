SPECIFICATION Spec
CONSTANTS
  PACKET_BACKUP = 3
  DELTA_MARGIN = 0
  MAX_PARSE_ENTITIES = 5
  PARSE_MARGIN = 2
  NumSnapshotEntities = 7
  MaxEntities = 2
  Values = {"a", "b"}
  Worlds <- SmallWorlds
  Others = {0, 2}
  MaxMessages = 5
INVARIANTS
  TypeOK
  DeltasValid
  SnapshotsExact
CHECK_DEADLOCK FALSE
