SPECIFICATION FairSpec
CONSTANTS
  ConnectLimit = 2
  ChannelLimit = 2
  InCap = 1
  Batch = 1
  Reordering = {}
  RootSocket = FALSE
  Events = {"drop"}
  MaxLoad = 1

PROPERTIES ClientReleases
CHECK_DEADLOCK FALSE
