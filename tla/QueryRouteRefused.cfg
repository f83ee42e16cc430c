\* A query refused by a full outgoing buffer, and the replies after it.
SPECIFICATION Spec
CONSTANTS
  ClientBuffer = 1
  ServerBuffer = 6
  Window = 6
  MaxQueries = 6
  Events = {}
INVARIANT Paired
CHECK_DEADLOCK FALSE
