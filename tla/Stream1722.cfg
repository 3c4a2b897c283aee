CONSTANTS
  Streams = {1, 2}
  Rates <- MCRates
  Channels = 2
  LockPackets = 16
  MaxLostPackets = 2
  CommandFrames = 4
  MaxFrames = 490
SPECIFICATION StreamSpec
INVARIANTS PromptPacketsWhole AccumulatorExact StreamLearned MarkIsStamped
CHECK_DEADLOCK FALSE
