CONSTANTS
  Size = 3
  MaxPacket = 2
  Period = 0
  Diffs <- MCDiffs
  StableThreshold = 0
  Acceptable = 3
  LockThreshold = 0
  LostThreshold = 1
  MinFill = 1
SPECIFICATION FairSpec
INVARIANT StampsMatch
PROPERTIES HeardOnlyLocked NotificationAnswered IsSampleQueue
