CONSTANTS
  Posters = {1, 2}
  Settings <- MCSettings
  None = None
SPECIFICATION Spec
INVARIANTS OneWriter AckedStored NoZombie NotFoundIsHonest FlushMeansStored WindowCovered
PROPERTIES AnsweredUnlessStuck IdleStreamExpires
CHECK_DEADLOCK FALSE
