CONSTANTS
  t1 = t1
  t2 = t2
  Thread = {t1, t2}
  PageSize = 8
  Granule = 4
  MetaSize = 4
  RedZone = 8
  ClassSize = 20
  RangeSize = 56
  RegionSize = 112
  MmapSize = 48
  Request <- Requests
SPECIFICATION Spec
SYMMETRY Symmetry
CHECK_DEADLOCK FALSE
INVARIANTS TypeOK ObjectsApart ObjectsAddressable MissesOnlyNearFrees DanglingTraps
