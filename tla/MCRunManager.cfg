CONSTANTS
  k1 = k1
  r1 = r1
  r2 = r2
  e1 = e1
  e2 = e2
  None = None
  Key = {k1}
  Run = {r1, r2}
  EventViewer = {e1, e2}
  TaskViewer = {}
SYMMETRY Symmetry
SPECIFICATION Spec
INVARIANT EventStreamsClose
INVARIANT UnsubscribeHitsOwnStream
INVARIANT CancelHitsItsRun
INVARIANT DrainLeavesNoneRunning
PROPERTY ImplementsRunSlots
CHECK_DEADLOCK FALSE
