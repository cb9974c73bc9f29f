SPECIFICATION Spec
CONSTANTS
  p1 = p1
  plan = plan
  Perms = {p1}
  AutoApprove = {}
  Mode = "direct_execute"
  OnTimeout = "abort"
  _REJECT_THRESHOLD = 1
  Plan = plan
CHECK_DEADLOCK FALSE
INVARIANTS
  SessionErrorFailsRun
