CONSTANTS
  i1 = i1
  i2 = i2
  Names = {i1, i2}
  Order <- MCOrder
  Main = main
  Others = {sse, handler}
  ErrorBudget = 2
  MaxEvents = 4
SPECIFICATION Spec
INVARIANTS
  TypeOK
  ErrorsBounded
  FlushAfterTerminal
  OthersKept
\* the run ends
CHECK_DEADLOCK FALSE
