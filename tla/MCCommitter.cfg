CONSTANTS
  Streams = {s1, s2}
  MaxJobs = 2
  BatchMax = 2
  StoreMayFail = TRUE
SPECIFICATION FairSpec
INVARIANTS AnsweredOnce OkIsDurable CommitOrder ResolveOrder NoCommitAfterClose
PROPERTIES EveryJobAnswered
CHECK_DEADLOCK FALSE
