SPECIFICATION FairSpec
CONSTANTS
  MAX_DOWNLOAD_WINDOW = 2
  Numbers = 16
  NumFiles = 2
  MaxBlocks = 3
  MaxFailures = 1
  MaxCommands = 9
  MaxInFlight = 2
INVARIANTS
  TypeOK
  WindowIntact
  BlocksExact
  HonestNeverDropped
PROPERTIES
  DownloadsEnd
CHECK_DEADLOCK FALSE
