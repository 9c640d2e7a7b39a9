SPECIFICATION Spec
CONSTANTS
  PageSize = 8
  t1 = t1
  t2 = t2
  Thread = {t1, t2}
  NumClasses = 1
  ClassSize <- SpanningClass
  RzSize = 8
  PopulateSize = 40
  RegionSize = 80
  SpaceBeg = 8
  StaleLinks <- WildLinks
SYMMETRY Symmetry
INVARIANTS
  ChecksHold MapsAgree HeapInv PagesExclusive NoRevival
CHECK_DEADLOCK FALSE
