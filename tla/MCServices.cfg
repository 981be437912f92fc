SPECIFICATION MCSpec
CONSTANTS
  c1 = c1
  Contests = {c1, c2}
  Users = {u1}
  Problems = {p1}
  Calls = {r1, r2}
  Start <- MCStart
  End <- MCEnd
  RegistrationTtl = 3
  OngoingTtl = 1
  MaxTime = 3
  MaxFaults = 1
  i1 = i1
  i2 = i2
  Ids = {i1, i2, slug, live}
  Words = {slug, live}
  Exempt = {live}
  Offsets <- MCOffsets
  Instances = {n1, n2}
  MaxBoots = 3
  MaxLosses = 1
  MaxTests = 3
  Tests <- MCTests
  timeLimit = 1
  oneSecond = 2
  Subs = {s1, s2}
  Codes <- MCCodes
  K = 2
  W = 2
  Percent = 80
  MaxRetries = 1
  MAX_RETRIES = 2
  MaxDrops = 3
  Nodes = {n1, n2}
  failureThreshold = 2
  recoveryTimeout = 1
  halfOpenMaxAttempts = 2
  MaxCalls = 2
  Hosts = {h1, h2}
  Skew <- MCSkew
  fast = h2
  maxTokens = 2
  CoreTtl = 4
  GatewayTtl = 4
  LimitTime = 6
  MaxErrors = 1
  Entrants = {v1, v2}
  limit = 1
  Tasks = {easy, hard}
  Difficulty <- MCDifficulty
  maxScore <- MCmaxScore
  easy = easy
  startTime = 0
  Penalty = 5
  MaxRows = 3
  MaxFetches = 2
  Callers = {k1, k2, k3}
  None0 = none
  Pending = pending
  MaxAgain = 2
  MaxExcuses = 2
  SagaSteps = 3
  MaxRuns = 3
  Rankers = {1, 2}
  Points = {1, 2}
  MAX_PENALTY_MINS = 5
  EndTime = 1
  BoardTime = 2
  MaxSolves = 2
  Captures = {k1}
  Emails = {e1}
  Browsers = {b1, b2}
  Posts = {r1, r2, r3}
  BrowserOf <- MCBrowserOf
  b1 = b1
  b2 = b2
  r3 = r3
  LastSecond = 1
  Pool = {r1, r2, w3}
  Threshold = 3
  MaxRequests = 2
  Interval = 1
  Timeout = 1
SYMMETRY Symmetry
INVARIANTS
  PartsTypeOK
  CopiesAreExplained
  GateIsClosed
  VerdictsAreDeserved
  ReportsAreRight
  ConnectionIsMinded
  GuardsKeepCount
PROPERTIES
  StandingsOnlyImprove
CHECK_DEADLOCK FALSE
