SPECIFICATION FairSpec
CONSTANTS
  MAX_RELIABLE_COMMANDS = 2
  MaxServerCommands = 3
  MaxClientCommands = 3
  MaxInFlight = 1
INVARIANTS
  TypeOK
  CommandsExact
  Acknowledgements
  KeysAgree
PROPERTIES
  CommandsArrive
CHECK_DEADLOCK FALSE
