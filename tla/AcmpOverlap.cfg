CONSTANTS
  t1 = t1
  l1 = l1
  l2 = l2
  Talker = {t1}
  Listener = {l1}
  SourceIds = {0}
  SinkIds = {0}
  OtherIds = {}
  Types = {"CONNECT_RX", "DISCONNECT_RX"}
  ClassB = {}
  MaxListeners = 1
  MaxInflight = 2
  MaxCommands = 4
  MaxLost = 0
  Patient = FALSE
SPECIFICATION Spec
PROPERTY DisconnectDisables
CHECK_DEADLOCK FALSE
