CONSTANTS
  s1 = s1
  m1 = m1
  m2 = m2
  f1 = f1
  p1 = p1
  p2 = p2
  None = None
  Session = s1
  Msg = {m1, m2}
  Foreign = {f1}
  Press = {p1, p2}
  Depth = 1
  MaxLegs = 3
SYMMETRY Symmetry
SPECIFICATION Spec
INVARIANT EachTurnOnce
INVARIANT OnlyReturnsExceedDepth
INVARIANT CardIsLive
PROPERTY ImplementsTurnBook
CHECK_DEADLOCK FALSE
