CONSTANTS
  MaxMsgs = 3
  MaxBreaks = 2
  MaxFailures = 1
  MaxRotations = 1
SPECIFICATION FairSpec
CHECK_DEADLOCK FALSE
INVARIANTS TypeOK WorkingLinkIsServed
PROPERTY StaysConnected
