SPECIFICATION FairSpec
CONSTANTS
  Jobs <- MCMixed
  Pairs <- MCPairs
  KindOf <- MCMixedKind
  PairOf <- MCMixedPair
  VerdictOf <- MCMixedVerdict
  GoWorkers <- MCGo
  TsWorkers <- MCTs
  Fallible <- MCOnlyGo
  MaxRetries = 1
  MaxFaults = 1
INVARIANTS
  TypeOK
  NothingIsDropped
CHECK_DEADLOCK FALSE
