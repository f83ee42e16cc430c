\* drop of the root and the promise closed of the others.
SPECIFICATION Spec
CONSTANTS
  Receivers = {1, 2}
  MaxFrames = 1
  MaxCalls = 3
  In = 1
  Shared = FALSE
  Websocket = FALSE
PROPERTY DropLeavesTheOthersOpen
CHECK_DEADLOCK FALSE
