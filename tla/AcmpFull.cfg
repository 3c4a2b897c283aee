CONSTANTS
  t1 = t1
  l1 = l1
  l2 = l2
  Talker = {t1}
  Listener = {l1, l2}
  SourceIds = {0}
  SinkIds = {0}
  OtherIds = {}
  Types = {"CONNECT_RX", "DISCONNECT_RX"}
  ClassB = {}
  MaxListeners = 1
  MaxInflight = 2
  MaxCommands = 4
  MaxLost = 0
  Patient = TRUE
SPECIFICATION Spec
PROPERTY SourceDisabledByLast
CHECK_DEADLOCK FALSE
