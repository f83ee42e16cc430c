SPECIFICATION FairSpec
CONSTANTS
  ConnectLimit = 2
  ChannelLimit = 2
  InCap = 1
  Batch = 1
  Reordering = {}
  RootSocket = FALSE
  Events = {}
  MaxLoad = 2
INVARIANTS NoStrandedMessage
PROPERTIES Delivered ServerNotices
CHECK_DEADLOCK FALSE
