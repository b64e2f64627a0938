SPECIFICATION Spec
CONSTANTS
  Environments <- Settings
  AllowedModels <- Models
  Tracks <- WorkTracks
  DefaultPriority = 500
  MaxManualPriority = 1000
  MaxPriority = 1002
  None = None
  MaxTasks = 5
  MaxRound = 2
INVARIANTS
  LedgerExplainsPriority
  FrontIsFirst
  ChildrenAreWhole
  ChildrenFit
CHECK_DEADLOCK FALSE
