SPECIFICATION Spec
CONSTANTS
  Models = {"cheap", "costly"}
  Ladder <- NoLadder
  EscalationThresholds <- NoThresholds
  BuiltInThresholds <- NoThresholds
  MaxReviewRounds = 3
  DefaultReviewModels <- OneReviewer
  AgentMerge = FALSE
  Agents = {a1}
  Attempts = {}
  None = None
  Batches <- OneTask
  ReviewLists <- NoLists
  Submissions = {{"pr"}}
  Moves <- Bounces
  MovedKinds = {"implement"}
  Doings = {}
  MaxTasks = 4
  MaxRound = 2
  MaxWork = 1
PROPERTIES
  TerminalIsFinal
CHECK_DEADLOCK FALSE
