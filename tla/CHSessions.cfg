CONSTANTS
  n1 = n1  n2 = n2  c1 = c1  c2 = c2  c3 = c3
  Nodes = {n1, n2}
  Conns = {c1, c2, c3}
  NodeOf <- TwoNodes
  None = None
  Made = Made
  NodeLimits = {1, 2}
  Cases <- ReconnectOrTwo
  MaxSlow = 1
  MaxMiss = 1
SPECIFICATION FairSpec
CHECK_DEADLOCK FALSE
INVARIANTS TypeOK NoDeadSession NumberExact LimitRespected PoolIsRead
PROPERTIES SessionsEnd HealthyKeepsRunning
