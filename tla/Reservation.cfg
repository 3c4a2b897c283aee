CONSTANTS
  LeaveTime = 0
  Source = {s1}
  Remote = {r1}
  NoStream = none
  Vlans = {2, 3}
  DefaultVlan = 2
  MaxAttrs = 4
  MaxEntries = 2
  MaxVlans = 2
  Sink = {1}
  Input = {1}
  Unmapped = unmapped
  Configs <- MCConfigs
  Wire = {"JOINMT", "LV"}
  MaxCommands = 4
  MaxPdus = 3
SPECIFICATION Spec
INVARIANTS NoDangling StreamingHasListener OnJoinedVlan
PROPERTIES BandwidthFollows DeclaresWhileAttached TracksWhileAttached
