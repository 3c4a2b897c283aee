CONSTANTS
  a = a
  b = b
  Node = {a, b}
  Mac <- MacAB
  NumSources <- TwoAndOne
  PoolSize = 3
  Retransmits = 3
  ProbeTime = 13
  AnnounceTimes = {26}
  MaxDown = 1
  MaxRestarts = 0
  MaxLost = 3
SPECIFICATION MaapFairSpec
PROPERTY OverlapResolved
