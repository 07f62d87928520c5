SPECIFICATION FairSpec
CONSTANTS
  Scheds = {job, other}
  Fires = {1, 2}
  RunAt = 1
  Period = 1
  Grace = 0
  ClaimLimit = 1
  Concurrency = 1
  MaxTime = 1
  MaxEdits = 0
  MaxRestarts = 0

PROPERTIES FiresEnd
CHECK_DEADLOCK FALSE
