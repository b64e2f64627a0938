SPECIFICATION Spec
CONSTANTS
  Reviewers = {"r1", "r2"}
  Findings = {"f1", "f2"}
  RaisedBy <- Raised
  Environments <- AllEnvironments
  MaxTasks = 3
  MaxRound = 3
INVARIANTS
  ApprovedIsClean
  BudgetHolds
  RoundsCountOnce
  NothingLost
PROPERTIES
  RejectedForCause
  ResearchEnds
CHECK_DEADLOCK FALSE
