SPECIFICATION SceneSpec
CONSTANTS
  Models = {"opus"}
  Ladder <- NoLadder
  EscalationThresholds <- NoThresholds
  BuiltInThresholds <- NoThresholds
  MaxReviewRounds = 3
  DefaultReviewModels <- OneReviewer
  AgentMerge = FALSE
  Agents = {a1}
  Attempts = {x1, x2, x3}
  None = None
  Batches <- OneTask
  ReviewLists <- NoLists
  Submissions = {{"commit"}}
  Moves <- Rejections
  MovedKinds = {"implement"}
  Doings = {"land"}
  MaxTasks = 3
  MaxRound = 2
  MaxWork = 1
  MaxCommit = 2
  MaxTip = 1
SYMMETRY Symmetry
INVARIANTS
  DoneIsLanded
  PublishedIsPinned
PROPERTIES
  CleanupKeepsCommits
  PromiseIsKept
CHECK_DEADLOCK FALSE
