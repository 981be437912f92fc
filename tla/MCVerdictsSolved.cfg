SPECIFICATION Spec
CONSTANTS
  Calls <- MCPair
  Subs <- MCSubs
  SubOf <- MCPairSubOf
  VerdictOf <- MCPairVerdictOf
  KindOf <- MCPairKindOf
  PoolSize = 4
  MaxAppends = 5
  MaxAgain = 0
  MaxFaults = 0
INVARIANTS
  SolvedIsCounted
CHECK_DEADLOCK FALSE
