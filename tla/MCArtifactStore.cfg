CONSTANTS
  t1 = t1
  t2 = t2
  a1 = a1
  a2 = a2
  a3 = a3
  d1 = d1
  Tasks <- MCTasks
  Artifacts <- MCArtifacts
  TaskOf <- MCTaskOf
  OldRows <- OneRow
  Downloads = {d1}
  Wanted <- MCWanted
  BatchLimit = 2
  MaxFaults = 1
  MaxCrash = 1
SPECIFICATION FairSpec
INVARIANTS
  TypeOK
  NoOrphanFile
  KeptUntilExpired
PROPERTY ExpiredIsCollected
\* every task may be collected and every request answered
CHECK_DEADLOCK FALSE
