CONSTANTS
  t1 = t1
  t2 = t2
  p1 = p1
  p2 = p2
  Tasks <- OneTask
  Posts <- TwoPosts
  TaskOf <- SameOf
  Aborts <- OneTask
  Deletes <- OneTask
  Local <- None
  Git <- None
  MaxSlots = 1
  MaxCrash = 1
  MaxRestart = 2
SPECIFICATION Spec
INVARIANTS
  NoStuckTask
  DoneHasTerminalEvent
  AcceptedOnce
\* all requests may have been answered
CHECK_DEADLOCK FALSE
