SPECIFICATION FairSpec
CONSTANTS
  Models = {"cheap", "costly"}
  Ladder <- TwoTiers
  EscalationThresholds <- NoThresholds
  BuiltInThresholds <- KnownModels
  MaxReviewRounds = 1
  DefaultReviewModels <- OneReviewer
  AgentMerge = FALSE
  Agents = {a1}
  Attempts = {x1}
  None = None
  Batches <- OneTask
  ReviewLists <- NoLists
  Submissions = {{"commit"}, {"no_op"}}
  Moves <- NoMoves
  MovedKinds = {}
  Doings = {"expire", "escalate", "land"}
  MaxTasks = 6
  MaxRound = 2
  MaxWork = 1
PROPERTIES
  ReworkTerminates
CHECK_DEADLOCK FALSE
