CONSTANTS
  k1 = k1
  r1 = r1
  e1 = e1
  t1 = t1
  None = None
  Key = {k1}
  Run = {r1}
  EventViewer = {e1}
  TaskViewer = {t1}
SPECIFICATION FairSpec
INVARIANT OnlyLateTaskStreamsStay
PROPERTY CancelFreesSession
PROPERTY SubscribersDrainToEOF
CHECK_DEADLOCK FALSE
