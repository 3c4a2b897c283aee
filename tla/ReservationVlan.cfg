CONSTANTS
  LeaveTime = 0
  Source = {s1, s2}
  Remote = {r1}
  NoStream = none
  Vlans = {2, 3}
  DefaultVlan = 2
  MaxAttrs = 6
  MaxEntries = 3
  MaxVlans = 2
  Sink = {1}
  Input = {1, 2}
  Unmapped = unmapped
  Configs <- TwoInputs
  Wire = {"JOINMT", "LV"}
  MaxCommands = 4
  MaxPdus = 3
SPECIFICATION Spec
PROPERTY VlanTakesEffect
