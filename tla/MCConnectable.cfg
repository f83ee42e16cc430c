SPECIFICATION ConnectableSpec
CONSTANTS
  Values = {a, b}
  Hole = Hole
  Size = 2
  MaxPuts = 4
  MaxWaiters = 1
PROPERTY FlushesCircularly
CHECK_DEADLOCK FALSE
