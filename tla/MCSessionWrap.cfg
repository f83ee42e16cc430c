SPECIFICATION Spec
CONSTANTS
  ConnectLimit = 3
  ChannelLimit = 2
  InCap = 1
  Batch = 1
  Reordering = {}
  RootSocket = FALSE
  Events = {}
  MaxLoad = 2
INVARIANTS NoStrandedMessage
CHECK_DEADLOCK FALSE
