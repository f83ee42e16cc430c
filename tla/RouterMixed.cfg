\* A receiving end of the other side is registered.
SPECIFICATION Spec
CONSTANTS
  Routers = {r1}
  Copies = {1}
  KeyLimit = 1
  MaxRoutes = 2
INVARIANT AllRoutesServed
CHECK_DEADLOCK FALSE
