SPECIFICATION RoutesSpec
CONSTANTS
  ClientBuffer = 2
  ServerBuffer = 1
  Window = 5
  MaxQueries = 5
  Events = {"end", "cancel", "null", "invalid", "reject"}
  MaxCalls = 2
  OnceEvents = {"fail", "reject", "invalid"}
  Kinds = {"stream", "listen", "duplex"}
  Buffer = 1
  MaxLoad = 3
INVARIANTS
  TypeOK RepliesPaired RepliesInOrder NoReplyUnclaimed
  ServicesTypeOK NobodyLeavesEarly AcceptedIsHandled
PROPERTIES EveryQuerySettles SingleUse AcceptedGetsHandled
CHECK_DEADLOCK FALSE
