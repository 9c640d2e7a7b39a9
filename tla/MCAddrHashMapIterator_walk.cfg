SPECIFICATION IterSpec
CONSTANTS
  t1 = t1
  t2 = t2
  k1 = k1
  k2 = k2
  k3 = k3
  k4 = k4
  v1 = v1
  Thread = {t1, t2}
  Key = {k1, k2, k3, k4}
  Value = {v1}
  NoKey = NoKey
  NoValue = NoValue
  NoThread = NoThread
  Embedded = 1
  InitCap = 2
  MaxCalls = 5
SYMMETRY ThreadsAndKeys
INVARIANT LaterCellsCurrent
PROPERTY VisitsAll
CHECK_DEADLOCK FALSE
