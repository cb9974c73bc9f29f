CONSTANTS
  t1 = t1
  t2 = t2
  p1 = p1
  p2 = p2
  Tasks <- OneTask
  Posts <- OnePost
  TaskOf <- OneOf
  Aborts <- OneTask
  Deletes <- None
  Local <- None
  Git <- None
  MaxSlots = 1
  MaxCrash = 0
  MaxRestart = 0
SPECIFICATION Spec
PROPERTY TerminalIsFinal
\* all requests may have been answered
CHECK_DEADLOCK FALSE
