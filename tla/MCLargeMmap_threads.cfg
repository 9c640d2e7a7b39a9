SPECIFICATION Spec
CONSTANTS
  t1 = t1
  t2 = t2
  Thread = {t1, t2}
  NoThread = NoThread
  NumPages = 8
  Sizes = {1, 2}
  Alignments = {1, 2}
  MaxChunks = 3
SYMMETRY ThreadsAlike
INVARIANTS
  TypeOK ChunksAnswer Enlisted LookupsAgree
PROPERTIES
  OnlyHolesLost
CHECK_DEADLOCK FALSE
