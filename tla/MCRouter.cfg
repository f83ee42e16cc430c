SPECIFICATION MCSpec
CONSTANTS
  Routers = {r1, r2}
  One = r1
  Copies = {1, 2}
  First = 1
  KeyLimit = 1
  MaxRoutes = 3
INVARIANTS TypeOK UnservedIsSwapped FramesReachTheirRoute
CHECK_DEADLOCK FALSE
