\* Two receivers at one socket, as two sessions of the README's client.
SPECIFICATION Spec
CONSTANTS
  Receivers = {1, 2}
  MaxFrames = 2
  MaxCalls = 3
  In = 1
  Shared = TRUE
  Websocket = FALSE
INVARIANT MissedByCancelOnly
CHECK_DEADLOCK FALSE
