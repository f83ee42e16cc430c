SPECIFICATION Spec
CONSTANTS
  ConnectLimit = 2
  ChannelLimit = 2
  InCap = 1
  Batch = 2
  Reordering = {}
  RootSocket = FALSE
  Events = {}
  MaxLoad = 2
INVARIANTS NoStrandedMessage
CHECK_DEADLOCK FALSE
