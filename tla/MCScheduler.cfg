SPECIFICATION Spec
CONSTANTS
  Scheds = {job}
  Fires = {1, 2}
  RunAt = 1
  Period = 1
  Grace = 0
  ClaimLimit = 2
  Concurrency = 1
  MaxTime = 2
  MaxEdits = 1
  MaxRestarts = 1
INVARIANTS MarkersAreFires ClaimOnce
PROPERTIES OnlyEditsEnable ImplementsSingleFlight
CHECK_DEADLOCK FALSE
