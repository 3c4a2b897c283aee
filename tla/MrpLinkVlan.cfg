CONSTANTS
  Node = {a, b}
  Declarer = {a, b}
  JoinNew = {TRUE, FALSE}
  Periodic = TRUE
  JoinTime = 1
  LeaveTime = 4
  LeaveAllTime = 5
  PeriodicTime = 5
  MaxLost = 0
SYMMETRY Symmetry
SPECIFICATION Spec
INVARIANT NoStaleJoin
PROPERTY RegistrationHeld
