SPECIFICATION SocketSpec
CONSTANTS
  Values = {a, b}
  Hole = Hole
  Size = 2
  MaxPuts = 5
  MaxWaiters = 0
  Receivers = {1, 2}
  MaxFrames = 4
  MaxCalls = 3
  In = 2
  Shared = FALSE
  Websocket = FALSE
INVARIANTS ClientTypeOK OutgoingInOrder WaitersMeanEmpty MissedByCancelOnly
PROPERTIES HeldBackIsSent
CHECK_DEADLOCK FALSE
