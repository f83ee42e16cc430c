\* A starter of its own for each recv of a listen route: the sessions share a nonce.
SPECIFICATION Spec
CONSTANTS
  MaxSessions = 2
  MaxMessages = 1
  NonceLimit = 2
  SharedStarter = FALSE
  NonceFree = FALSE
  Silence = 0
  Events = {}
INVARIANT NoCrossTalk
CHECK_DEADLOCK FALSE
