SPECIFICATION Spec
CONSTANTS
  Fires = {f1, f2}
  Day = 3
  Windows <- BothKinds
  AutoPause = 2
  MaxTrail = 3
INVARIANTS StreakAgrees FailuresPause WindowRespected OneTickAtATime
SYMMETRY Symmetry
CHECK_DEADLOCK FALSE
