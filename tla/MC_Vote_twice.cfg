SPECIFICATION Spec
CONSTANTS
  Slots = {s1, s2}
  Players = {referee, a, b}
  Referees = {referee}
  None = None
  VOTE_TIME = 2
  MinTime = 1
  vote_percent = 50
  vote_limit = 1
  timelimit = 2
  match_minplayers = 2
  VOTEF_USE_TOTAL_VOTERS = TRUE
  VOTEF_NO_POPULIST_PENALTY = TRUE
  Stopwatch = TRUE
  StartTime = 4
  WarmupLength = 3
  MaxTime = 6
  MaxCalls = 1
  MaxIncidents = 2
SYMMETRY Symmetry
VIEW View
INVARIANTS
  VotedOnce
CHECK_DEADLOCK FALSE
