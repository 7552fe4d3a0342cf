CONSTANTS
  Callers = {p1, p2}
  Keys = {k1}
  NumShards = 2
  MaxCommits = 4
  MaxCrashes = 2
  FsyncMayFail = FALSE
  TornWrites = TRUE
  None = None
  Torn = Torn
SPECIFICATION Spec
INVARIANTS AckedSurvives
CHECK_DEADLOCK FALSE
