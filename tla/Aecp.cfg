SPECIFICATION FairSpec
CONSTANTS
  Controllers = {c1, c2, c3}
  NoController = NoController
  Page = 2
  Lengths = {1, 2, 3, 5}
  MaxImage = 7
  Devices <- MCDevices
  Ids <- MCIds
  MaxCommands = 5
INVARIANTS ImageInOrder AcceptedIsHeld DescriptorsAgree
PROPERTIES GrantMeansOwner PersistentKept ContenderAnswered
CHECK_DEADLOCK FALSE
