CONSTANTS
  None = None
  MaxU = 2
  BodyOf <- MCBodyOf
  Readers = {"chunks", "state"}
  MaxReadBytes = 2
  ChunksBuffer = 2
SPECIFICATION LSpec
INVARIANTS AcceptedOnce NothingLostInChunks EndIsHonest MaterializedIsMeaning CacheAgrees
PROPERTIES EverythingArrives
CHECK_DEADLOCK FALSE
