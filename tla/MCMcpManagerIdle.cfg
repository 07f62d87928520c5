SPECIFICATION FairSpec
CONSTANTS
  Server = {s1}
  Call = {c1}
  Edit = {}
  Renewal = {}
  ErrorRetry = 1
  IdleTTL = 1
  None = None
PROPERTIES IdleOut
CHECK_DEADLOCK FALSE
