SPECIFICATION LibSpec
CONSTANTS
  Values = {a, b}
  Hole = Hole
  Size = 2
  MaxPuts = 6
  MaxWaiters = 2
  MaxTasks = 2
  MaxTimers = 1
  MaxPolls = 2
INVARIANTS TypeOK WaitersOnlyWhenEmpty CancelledIsSettled NoTimerAfterRace
PROPERTIES ImplementsQueue SubtasksFollow PollsEnd
CHECK_DEADLOCK FALSE
