SPECIFICATION FairSpec
CONSTANTS
  Jobs <- MCOne
  Pairs <- MCPairs
  KindOf <- MCOneContest
  PairOf <- MCOnePair
  VerdictOf <- MCOneVerdict
  GoWorkers <- MCGo
  TsWorkers <- MCTs
  Fallible <- MCProcs
  MaxRetries = 1
  MaxFaults = 1
PROPERTIES
  SolvedIsCredited
CHECK_DEADLOCK FALSE
