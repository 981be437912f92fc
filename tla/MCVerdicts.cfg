SPECIFICATION FairSpec
CONSTANTS
  Calls <- MCCalls
  Subs <- MCSubs
  SubOf <- MCSubOf
  VerdictOf <- MCVerdictOf
  KindOf <- MCKindOf
  PoolSize = 5
  MaxAppends = 2
  MaxAgain = 1
  MaxFaults = 1
INVARIANTS
  TypeOK
  StreamsHaveNoGaps
  VerdictsAreRecorded
  LockedUpdatesExclude
PROPERTIES
  EveryUpdateEnds
CHECK_DEADLOCK FALSE
