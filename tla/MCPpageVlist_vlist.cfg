SPECIFICATION FairSpec
CONSTANTS
  t1 = t1
  t2 = t2
  t3 = t3
  Thread = {t1, t2, t3}
  MaxPushes = 3
INVARIANTS
  Exclusive NoLostWakeup AtomicUnlessOverlapped
PROPERTIES
  CallsReturn
CHECK_DEADLOCK FALSE
