SPECIFICATION FairSpec
CONSTANTS
  u1 = u1
  u2 = u2
  u3 = u3
  n1 = n1
  n2 = n2
  Uids = {u1}
  Names = {n1}
  NameOf <- OneObject
  Pods = {}
  MaxRV = 2
  MaxId = 8
  RetryTimes = 1
  ChanCap = 1
  Cases <- CrashCases
PROPERTIES AtLeastOnce
CHECK_DEADLOCK FALSE
