SPECIFICATION FairSpec
CONSTANTS
  Relays = {r1, r2}
  BatchSize = 2
  MaxCrashes = 1
  MaxAborts = 1
  Msgs <- MCTwo
  CreatedAt <- MCTwoCreatedAt
  MaxAttempts <- MCTwoMaxAttempts
INVARIANTS
  TypeOK
  ClaimsAreExclusive
  PublishedReachedBroker
  NoRowStaysInFlight
  CopiesAreExplained
PROPERTIES
  SettledIsForever
  EveryRowSettles
  ImplementsDelivery
