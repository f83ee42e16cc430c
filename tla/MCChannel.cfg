SPECIFICATION MCSpec
CONSTANTS
  MaxSessions = 3
  MaxTimed = 2
  MaxMessages = 2
  MaxTotal = 2
  NonceLimit = 2
  SharedStarter = TRUE
  NonceFree = TRUE
  Silence = 2
  Events = {"abandon", "serverEnds", "handlerCancels", "socketCloses"}
INVARIANTS TypeOK NoCrossTalk StoppedMeansOver
PROPERTIES TermEndsItsOwn EveryStartIsAnswered
CHECK_DEADLOCK FALSE
