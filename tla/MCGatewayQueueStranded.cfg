CONSTANTS
  s1 = s1
  m1 = m1
  m2 = m2
  None = None
  Session = s1
  Msg = {m1, m2}
  Foreign = {}
  Press = {}
  Depth = 1
  MaxLegs = 1
SPECIFICATION FairSpec
PROPERTY QueuedTurnsRun
CHECK_DEADLOCK FALSE
