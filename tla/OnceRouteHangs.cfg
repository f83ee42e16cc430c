\* A one-shot call whose session fails before the reply.
SPECIFICATION FairSpec
CONSTANTS
  MaxCalls = 1
  Events = {"fail"}
PROPERTY EverySendSettles
CHECK_DEADLOCK FALSE
