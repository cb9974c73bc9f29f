CONSTANTS
  Runner = runner
  h1 = h1
  a1 = a1
  c1 = c1
  Handlers <- NoWriters
  Aborters <- MCAborters
  Clients <- MCClients
  MaxProgress = 1
  MaxCrash = 1
  MaxReconnect = 1
SPECIFICATION FairSpec
PROPERTY WaitEnds
\* the task and its clients may have finished
CHECK_DEADLOCK FALSE
