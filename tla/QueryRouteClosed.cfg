\* Queries that wait when the session ends.
SPECIFICATION FairSpec
CONSTANTS
  ClientBuffer = 2
  ServerBuffer = 2
  Window = 1
  MaxQueries = 2
  Events = {"end"}
PROPERTIES EveryQueryReturns
CHECK_DEADLOCK FALSE
