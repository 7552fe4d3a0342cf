CONSTANTS
  Callers = {p1, p2}
  Keys = {k1}
  NumShards = 2
  MaxCommits = 4
  MaxCrashes = 3
  FsyncMayFail = TRUE
  TornWrites = FALSE
  None = None
  Torn = Torn
SPECIFICATION Spec
INVARIANTS WatermarkSound SeqsUnique AckedSurvives
CHECK_DEADLOCK FALSE
