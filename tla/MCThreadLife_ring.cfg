CONSTANTS
  o1 = o1
  o2 = o2
  o3 = o3
  o4 = o4
  a1 = a1
  a2 = a2
  a3 = a3
  Os = {o1, o2, o3, o4}
  Main = o1
  Address = {a1, a2, a3}
  MaxThreads = 4
  Iterations = 2
  Null = Null
  Globals = Globals
SPECIFICATION Spec
SYMMETRY Symmetry
CHECK_DEADLOCK FALSE
INVARIANT RingInMemory
