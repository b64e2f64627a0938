SPECIFICATION Spec
CONSTANTS
  Tasks = {"t1", "t2"}
  PRs = {"p1", "p2"}
  Owners = {"o1"}
  OwnerOf <- OneOwner
  Mergers = {"m1", "m2"}
  Environments <- AllEnvironments
  BackoffInterval = 1
  MaxRows = 2
INVARIANTS
  DoneMeansMerged
  QuietWhenLimited
  BouncesAnswerReviews
PROPERTIES
  MergedIsDone
  MergeRowsEnd
  StalePRsClose
CHECK_DEADLOCK FALSE
