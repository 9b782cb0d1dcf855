SPECIFICATION Spec
CONSTANTS
  m1 = m1
  m2 = m2
  s1 = s1
  g1 = g1
  a1 = a1
  Modules = {m1, m2}
  Calls = {s1, g1, a1}
  Mixes <- MCMixes
  Target <- MCTarget
  ChanSize = 1
  MaxTries = 2
INVARIANTS TypeOK NoSendOnClosed
PROPERTIES ImplementsRequestReply EveryCallReturns
CHECK_DEADLOCK FALSE
