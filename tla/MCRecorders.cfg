CONSTANTS
  u1 = u1
  u2 = u2
  d1 = d1
  d2 = d2
  Uses = {u1, u2}
  McpTools = {u1, u2}
  Backtests = {u1, u2}
  RunDir <- MCRunDir
  Mixes <- MCMixes
  MaxMessages = 3
  MaxPending = 2
  MaxEvents = 5
SPECIFICATION Spec
INVARIANTS
  ConversationKept
  CountedOnce
  BacktestsWhole
\* the run ends
CHECK_DEADLOCK FALSE
