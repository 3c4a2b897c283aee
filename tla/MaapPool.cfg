CONSTANTS
  a = a
  b = b
  Node = {a, b}
  Mac <- MacAB
  NumSources <- TwoAndOne
  PoolSize = 3
  Retransmits = 3
  ProbeTime = 13
  AnnounceTimes = {26}
  MaxDown = 1
  MaxRestarts = 1
  MaxLost = 1
SPECIFICATION MaapSpec
INVARIANT RangeInPool
