SPECIFICATION FairSpec
CONSTANTS
  Server = {s1}
  Call = {c1, c2}
  Edit = {e1}
  Renewal = {w1}
  ErrorRetry = 1
  IdleTTL = 1
  None = None
INVARIANTS ClosedOnce NoneLost OneDial EditsTakeEffect WaitersHaveAttempt
PROPERTIES CallsReturn
CHECK_DEADLOCK FALSE
