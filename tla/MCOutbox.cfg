SPECIFICATION FairSpec
CONSTANTS
  N = 2
  MaxAttempts = 2
  MaxRestarts = 1
INVARIANTS RedeliveryBounded RedeliveryWarned
PROPERTIES ImplementsAtLeastOnce RowsSettle
CHECK_DEADLOCK FALSE
