SPECIFICATION Spec
CONSTANTS
  Models = {"cheap", "costly"}
  Ladder <- NoLadder
  EscalationThresholds <- NoThresholds
  BuiltInThresholds <- NoThresholds
  MaxReviewRounds = 1
  DefaultReviewModels <- OneReviewer
  AgentMerge = FALSE
  Agents = {}
  Attempts = {}
  None = None
  Batches <- Cycle
  ReviewLists <- NoLists
  Submissions = {}
  Moves <- NoMoves
  MovedKinds = {}
  Doings = {}
  MaxTasks = 3
  MaxRound = 0
  MaxWork = 3
INVARIANTS
  DepsAcyclic
CHECK_DEADLOCK FALSE
