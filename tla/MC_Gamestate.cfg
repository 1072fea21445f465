SPECIFICATION FairSpec
CONSTANTS
  MaxSpawns = 1
  MaxRestarts = 1
  MaxChanges = 1
INVARIANTS
  TypeOK
  HonestServed
PROPERTIES
  EntersWorld
  Converges
