SPECIFICATION Spec
CONSTANTS
  PageSize = 8
  t1 = t1
  t2 = t2
  Thread = {t1}
  NumClasses = 1
  ClassSize <- SmallClass
  RzSize = 8
  PopulateSize = 64
  RegionSize = 64
  SpaceBeg = 8
  StaleLinks <- ZeroLinks
INVARIANTS
  VlistConsistent
CHECK_DEADLOCK FALSE
