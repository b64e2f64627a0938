SPECIFICATION SceneSpec
CONSTANTS
  Models = {"cheap", "costly"}
  Ladder <- TwoTiers
  EscalationThresholds <- NoThresholds
  BuiltInThresholds <- NoThresholds
  MaxReviewRounds = 1
  DefaultReviewModels <- OneReviewer
  AgentMerge = FALSE
  Agents = {a1, a2}
  Solo = {a1}
  Attempts = {x1, x2}
  None = None
  Batches <- OneTask
  ReviewLists <- NoLists
  Submissions = {{"pr"}, {"commit"}}
  Moves <- NoMoves
  MovedKinds = {"implement"}
  Doings = {"converge"}
  MaxTasks = 6
  MaxRound = 2
  MaxWork = 2
INVARIANTS
  ApprovedIsUnanimous
  ReservationPinsApproval
  DepsAcyclic
  RoundsStayInOrder
PROPERTIES
  TerminalReopenedOnlyByLateReview
  WorkDoneOnlyReviewed
  LiveLeaseIsKept
CHECK_DEADLOCK FALSE
