SPECIFICATION Spec
CONSTANTS
  p1 = p1
  p2 = p2
  p3 = p3
  plan = plan
  Perms = {p1, p2, p3}
  AutoApprove = {p3}
  Mode = "direct_execute"
  OnTimeout = "abort"
  _REJECT_THRESHOLD = 2
  Plan = plan
SYMMETRY Symmetric
CHECK_DEADLOCK FALSE
INVARIANTS
  TypeOK
  HitlGate
  RejectLoopBroken
  AbortHasCause
