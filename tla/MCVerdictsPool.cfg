SPECIFICATION FairSpec
CONSTANTS
  Calls <- MCPair
  Subs <- MCSubs
  SubOf <- MCPairSubOf
  VerdictOf <- MCPairVerdictOf
  KindOf <- MCPairKindOf
  PoolSize = 2
  MaxAppends = 5
  MaxAgain = 0
  MaxFaults = 0
PROPERTIES
  EveryUpdateEnds
CHECK_DEADLOCK FALSE
