SPECIFICATION FairSpec
CONSTANTS
  MaxSpawns = 0
  MaxRestarts = 1
  MaxChanges = 0
PROPERTIES
  GamestateArrives
