CONSTANTS
  Node = {a, b}
  Declarer = {a}
  JoinNew = {TRUE}
  Periodic = FALSE
  JoinTime = 1
  LeaveTime = 4
  LeaveAllTime = 6
  PeriodicTime = 5
  MaxLost = 1
SPECIFICATION FairSpec
PROPERTIES RegisteredIsIndicated
