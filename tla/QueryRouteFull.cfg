\* More requests than the server's buffer holds.
SPECIFICATION Spec
CONSTANTS
  ClientBuffer = 4
  ServerBuffer = 1
  Window = 4
  MaxQueries = 4
  Events = {}
PROPERTIES FullBufferDropsConnection
CHECK_DEADLOCK FALSE
