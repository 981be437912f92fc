SPECIFICATION FairSpec
CONSTANTS
  Gateways <- MCGateways
  Requests <- MCRequests
  GatewayOf <- MCGatewayOf
  Nobody = Nobody
  TTL = 2
  MaxClock = 4
  MaxUpsets = 1
INVARIANTS
  TypeOK
  NoEntryOutlives
  OneLeader
  FollowersAreHeard
PROPERTIES
  EveryRequestEnds
CHECK_DEADLOCK FALSE
