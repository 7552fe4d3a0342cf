CONSTANTS
  Posters = {1, 2}
  Settings <- HangSettings
  None = None
SPECIFICATION Spec
PROPERTIES EverySubmitAnswered
CHECK_DEADLOCK FALSE
