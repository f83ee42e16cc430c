\* drop of a websocket's root while another socket is in use.
SPECIFICATION Spec
CONSTANTS
  Receivers = {1, 2}
  MaxFrames = 1
  MaxCalls = 3
  In = 1
  Shared = FALSE
  Websocket = TRUE
PROPERTY DropEndsOneSocket
CHECK_DEADLOCK FALSE
