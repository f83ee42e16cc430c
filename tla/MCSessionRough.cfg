SPECIFICATION Spec
CONSTANTS
  ConnectLimit = 2
  ChannelLimit = 2
  InCap = 1
  Batch = 2
  Reordering = {"client"}
  RootSocket = TRUE
  Events = {"sig", "ack", "listen", "cancel", "drop", "disconnect"}
  MaxLoad = 2
INVARIANTS TypeOK OneOfEachInFlight
PROPERTIES ImplementsStopAndWait CancelIsFinal
CHECK_DEADLOCK FALSE
