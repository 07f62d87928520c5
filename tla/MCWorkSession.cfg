CONSTANTS
  c1 = c1
  c2 = c2
  Call = {c1, c2}
  MaxCalls = 4
  MaxSessions = 2
  MaxSummons = 2
  MaxRestarts = 1
  Budget = 2
SYMMETRY Symmetry
SPECIFICATION Spec
INVARIANT HopsCoverRuns
INVARIANT BudgetPauseHasCause
INVARIANT OnlyOverlapsCoexist
PROPERTY ClosedIsTerminal
PROPERTY ImplementsLedger
CHECK_DEADLOCK FALSE
