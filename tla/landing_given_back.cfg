SPECIFICATION LandSpec
CONSTANTS
  Models = {"opus"}
  Ladder <- NoLadder
  EscalationThresholds <- NoThresholds
  BuiltInThresholds <- NoThresholds
  MaxReviewRounds = 3
  DefaultReviewModels <- OneReviewer
  AgentMerge = FALSE
  Agents = {a1}
  Attempts = {x1, x2}
  None = None
  Batches <- OneTask
  ReviewLists <- NoLists
  Submissions = {{"commit"}}
  Moves <- Rejections
  MovedKinds = {"implement"}
  Doings = {"land", "lock_expires", "checkout"}
  MaxTasks = 3
  MaxRound = 2
  MaxWork = 1
  MaxCommit = 2
  MaxTip = 1
SYMMETRY Symmetry
INVARIANTS
  PublishedIsPinned
CHECK_DEADLOCK FALSE
