SPECIFICATION FairSpec
CONSTANTS
  l1 = l1
  x1 = x1
  Conns = {l1, x1}
  Upgrades = {x1}
  MaxSession = 2
  TunnelCap = 1
  ReadCap = 1
  Cases <- TunnelCases
INVARIANTS TypeOK PeerDoneFits StopFits
PROPERTIES SessionCloses RequestEnds EdgeStops
CHECK_DEADLOCK FALSE
