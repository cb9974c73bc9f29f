SPECIFICATION FairSpec
CONSTANTS
  p1 = p1
  plan = plan
  Perms = {p1}
  AutoApprove = {}
  Mode = "plan_first"
  OnTimeout = "continue"
  _REJECT_THRESHOLD = 1
  Plan = plan
CHECK_DEADLOCK FALSE
INVARIANTS
  PlanGate
  NoLeakedTasks
  AbortHasCause
PROPERTIES
  AbortEndsRun
