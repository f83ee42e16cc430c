SPECIFICATION FairSpec
CONSTANTS
  ConnectLimit = 2
  ChannelLimit = 2
  InCap = 1
  Batch = 1
  Reordering = {}
  RootSocket = FALSE
  Events = {"sig","ack", "listen", "cancel", "drop", "disconnect"}
  MaxLoad = 1

INVARIANT OnlyAckAfterTerm
PROPERTY ServerReleases
CHECK_DEADLOCK FALSE
