CONSTANTS
  a = a
  b = b
  Readers = {a}
  Kind <- OneCursor
  MaxLog = 2
  MaxGen = 2
  MaxRead = 2
  CacheMax = 1
  MayClose = TRUE
SPECIFICATION Spec
INVARIANTS EofMeansComplete
CHECK_DEADLOCK FALSE
