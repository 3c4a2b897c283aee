CONSTANTS
  Talker = {t1}
  Listener = {l1, l2}
  SourceIds = {0}
  SinkIds = {0}
  OtherIds = {1}
  Types = {"CONNECT_RX", "DISCONNECT_RX"}
  ClassB = {}
  MaxListeners = 2
  MaxInflight = 2
  MaxCommands = 4
  MaxLost = 0
  Patient = TRUE
SPECIFICATION SpecAll
PROPERTY DisconnectAllReaches
CHECK_DEADLOCK FALSE
