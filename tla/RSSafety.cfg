SPECIFICATION Spec
CONSTANTS
  u1 = u1
  u2 = u2
  u3 = u3
  n1 = n1
  n2 = n2
  Uids = {u1, u2, u3}
  Names = {n1, n2}
  NameOf <- PodAndObject
  Pods = {n2}
  MaxRV = 2
  MaxId = 8
  RetryTimes = 1
  ChanCap = 1
  Cases <- SafetyCases
INVARIANTS TypeOK RecordedWasPersisted NothingStranded
PROPERTIES RowOutlivesObject ForgottenOnlyWhenRemoved
CHECK_DEADLOCK FALSE
