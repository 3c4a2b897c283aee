CONSTANTS
  Talker = {t1}
  Listener = {l1, l2}
  SourceIds = {0}
  SinkIds = {0}
  OtherIds = {9}
  Types = {"CONNECT_RX", "DISCONNECT_RX", "GET_RX_STATE", "GET_TX_CONNECTION"}
  ClassB = {}
  MaxListeners = 2
  MaxInflight = 2
  MaxCommands = 3
  MaxLost = 2
  Patient = TRUE
SPECIFICATION FairSpecAll
INVARIANT EndsAgree
PROPERTY TakenIsAnswered
CHECK_DEADLOCK FALSE
