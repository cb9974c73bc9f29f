CONSTANTS
  t1 = t1
  t2 = t2
  p1 = p1
  p2 = p2
  Tasks <- TwoTasks
  Posts <- TwoPosts
  TaskOf <- EachOf
  Aborts <- None
  Deletes <- None
  Local <- OneTask
  Git <- OtherTask
  MaxSlots = 1
  MaxCrash = 1
  MaxRestart = 1
SPECIFICATION FairSpec
INVARIANTS
  TypeOK
  ContainersWithinSlots
  NothingLeftBehind
PROPERTY TaskSettles
\* all requests may have been answered
CHECK_DEADLOCK FALSE
