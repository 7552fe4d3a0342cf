CONSTANTS
  Paths = {a, b}
  None = None
  MaxId = 2
  MaxTail = 2
  Bodies = {1}
  Chunk = 1
  MaxBursts = 1
  MaxCrashes = 0
  MayExpire = TRUE
  MetaBursts = FALSE
SPECIFICATION Spec
INVARIANT ForksKeepSourcesAlive
CHECK_DEADLOCK FALSE
