SPECIFICATION FairSpec
CONSTANTS
  c1 = c1
  c2 = c2
  Clients = {c1}
  PortsOf <- MC_PortsOf
  None = None
  NumSlots = 2
  MAX_CHALLENGES = 2
  RETRANSMIT_TIMEOUT = 3
  cl_timeout = 5
  sv_reconnectlimit = 3
  sv_zombietime = 4
  sv_timeout = 4
  MaxAge = 1
  MaxConnects = 2
  MaxIncidents = 1
  MaxInFlight = 2
INVARIANTS
  TypeOK
  KeysAgree
  OneSlotPerPlayer
PROPERTIES
  NotThrownOut
  ConnectEnds
  AbandonedFreed
CHECK_DEADLOCK FALSE
