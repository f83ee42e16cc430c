\* The deadline of the next INIT ends a session in use.
SPECIFICATION Spec
CONSTANTS
  MaxSessions = 1
  MaxMessages = 2
  NonceLimit = 2
  SharedStarter = TRUE
  NonceFree = TRUE
  Silence = 2
  Events = {}
PROPERTY ActiveSessionSurvives
CHECK_DEADLOCK FALSE
