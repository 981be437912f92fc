SPECIFICATION FairSpec
CONSTANTS
  Jobs <- MCTwice
  Pairs <- MCPairs
  KindOf <- MCTwiceKind
  PairOf <- MCTwicePair
  VerdictOf <- MCTwiceVerdict
  GoWorkers <- MCGo
  TsWorkers <- MCTwoTs
  Fallible <- MCOnlyGo
  MaxRetries = 1
  MaxFaults = 2
INVARIANTS
  CreditsAreEarned
  CreditedOnce
PROPERTIES
  EveryJobSettles
CHECK_DEADLOCK FALSE
