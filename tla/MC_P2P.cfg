SPECIFICATION Spec
CONSTANTS
  Hosts = {h}
  Guests = {g}
  MaxConns = 4
  MaxRooms = 3
  maxConnections = 4
  maxRooms = 3
  Slots = 1
  MaxIncidents = 2
INVARIANTS
  LobbyConsistent PagesKnow
PROPERTIES
  HostKeepsRoom HostReturns
CHECK_DEADLOCK FALSE
