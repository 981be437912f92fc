SPECIFICATION Spec
CONSTANTS
  Tabs = {t1, t2}
  FirstTab = t1
  Calls = {me, list}
  Me = me
  Deployments = {TRUE, FALSE}
  MaxTurns = 1
  Problems = {p1, p2}
  MaxAttempts = 3
  MaxPolls = 2
  MaxVisits = 1
  Codes = {d1, d2}
  MaxEdits = 3
INVARIANTS
  TypeOK
  WaitersHaveARefresh
  PageIsUpToDate
PROPERTIES
  RequestsEnd
  AttemptsEnd
CHECK_DEADLOCK FALSE
