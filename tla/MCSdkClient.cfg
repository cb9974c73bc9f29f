CONSTANTS
  create = create
  again = again
  get = get
  answer = answer
  second = second
  abort = abort
  stop = stop
  check = check
  down = down
  rival = rival
  task = task
  decision = decision
  path = path
  Nobody = Nobody
  Calls <- MCCalls
  Programs <- MCPrograms
  Op <- MCOp
  Target <- MCTarget
  Overwrite <- MCOverwrite
  OldFiles = {}
  MaxAttempts = 2
  RetryOn = {"server", "transport"}
  Chunks = 2
SPECIFICATION Spec
INVARIANTS
  SdkTypeOK
  OutcomeHonest
  RetriesSpent
  CompatBypass
  FilesWhole
\* every call may have ended
CHECK_DEADLOCK FALSE
