SPECIFICATION MemSpec
CONSTANTS
  PageSize = 8
  t1 = t1
  t2 = t2
  Thread = {t1, t2}
  NumClasses = 1
  ClassSize <- SmallClass
  RzSize = 8
  PopulateSize = 40
  RegionSize = 40
  SpaceBeg = 8
  StaleLinks <- AnyLinks
  Value = {0, 1}
  Zero = 0
  MaxDirty = 1
SYMMETRY Symmetry
INVARIANTS
  FrontInUse ExactlyMapped SlotsDisjoint MissesAtMostOne
PROPERTIES
  PrivateMemoryKept SlotsConserved
CHECK_DEADLOCK FALSE
