\* send called twice on a connected one-shot route.
SPECIFICATION Spec
CONSTANTS
  MaxCalls = 2
  Events = {}
INVARIANT OwnReply
CHECK_DEADLOCK FALSE
