SPECIFICATION Spec
CONSTANTS
  Users = {1, 2}
  Points = {1}
  MAX_PENALTY_MINS = 5
  EndTime = 1
  MaxTime = 2
  MaxSolves = 2
  Captures = {k1}
INVARIANTS
  EarlierWinsTies
CHECK_DEADLOCK FALSE
