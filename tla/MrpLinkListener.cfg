CONSTANTS
  Node = {a, b}
  Declarer = {a}
  JoinNew = {TRUE}
  Periodic = FALSE
  JoinTime = 2
  LeaveTime = 8
  LeaveAllTime = 12
  PeriodicTime = 1
  MaxLost = 1
SPECIFICATION FairSpec
PROPERTIES RegistrationHeld DeclaredIsRegistered WithdrawnIsDeregistered
