CONSTANTS
  t1 = t1
  l1 = l1
  l2 = l2
  Talker = {t1}
  Listener = {l1, l2}
  SourceIds = {0}
  SinkIds = {0}
  OtherIds = {}
  Types = {"CONNECT_RX", "DISCONNECT_RX", "GET_TX_STATE"}
  ClassB = {2}
  MaxListeners = 1
  MaxInflight = 2
  MaxCommands = 3
  MaxLost = 1
  Patient = FALSE
SPECIFICATION Spec
INVARIANTS CountMatchesList ConnectedIsEnabled SequenceIdsDistinct ListenerNotWedged AnsweredOnce
SYMMETRY Symmetry
CHECK_DEADLOCK FALSE
