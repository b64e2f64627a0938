------------------------------ MODULE MCScenes ------------------------------
(* Several environments of Board in one run of the model checker.              *)
EXTENDS MCBoard

CONSTANT Solo   \* the agents of the scenes that need only one

(* Scenes: what the environment of one behaviour does.  A behaviour stays in   *)
(* the scene it starts in; the operations are the same in all of them.         *)

VARIABLE scene
sceneVars == <<vars, scene>>

\* Operators move a task out of review and out of approved, and approves reserve it.
Late == INSTANCE Board WITH
  Ladder <- NoLadder, MaxReviewRounds <- 3, Agents <- Solo, MaxWork <- 1,
  AgentMerge <- FALSE, Submissions <- {{"commit"}, {"no_op"}},
  Moves <- LateVotes, MovedKinds <- {"implement"}, Doings <- {"supersede", "land"}
\* Pull requests with merge rows, lost leases and merges outside the board.
Merge == INSTANCE Board WITH
  Ladder <- NoLadder, MaxReviewRounds <- 3, Agents <- Solo, MaxWork <- 1,
  AgentMerge <- TRUE, Submissions <- {{"pr"}, {"pr", "no_op"}}, Attempts <- {},
  Moves <- MergeMoves, MovedKinds <- {"implement", "merge"}, Doings <- {"converge", "expire"}
\* Nobody works; dependencies are edited and superseded.
Deps == INSTANCE Board WITH
  Ladder <- NoLadder, MaxReviewRounds <- 3,
  Models <- {"cheap"}, Agents <- {}, Attempts <- {}, Batches <- Batched, MaxWork <- 2,
  Moves <- BeforeWork, MovedKinds <- {"implement"}, Doings <- {"patch", "supersede"}

(* No vote comes late in these two.                                            *)

\* Two reviewers of one task, whose round is reshaped, held and released.
Panel == INSTANCE Board WITH
  BuiltInThresholds <- KnownModels, DefaultReviewModels <- TwoReviewers,
  Agents <- Solo, Attempts <- {}, Batches <- OneTask, ReviewLists <- TwoLists,
  Submissions <- {{"commit"}, {"no_op"}}, Moves <- NoMoves,
  Doings <- {"reshape", "hold", "expire"}, MaxWork <- 1
\* Two tasks, one after the other, with leases that lapse, merges outside the board, landings
\* and operators who only take back what nobody reviews.
Work == INSTANCE Board WITH
  Attempts <- {CHOOSE x \in Attempts : TRUE},
  Batches <- ForwardReference, ReviewLists <- NoLists, Submissions <- {{"pr"}, {"commit"}},
  Moves <- Orderly, Doings <- {"expire", "converge", "land"}

SceneInit == Init /\ scene \in {"late", "merge", "deps", "panel", "work"}
SceneNext ==
  /\ \/ scene = "late" /\ Late!Next /\ used' <= 4
     \/ scene = "merge" /\ Merge!Next /\ used' <= 5
     \/ scene = "deps" /\ Deps!Next /\ used' <= 4
     \/ scene = "panel" /\ Panel!Next
     \/ scene = "work" /\ Work!Next /\ used' <= 5
  /\ UNCHANGED scene
SceneSpec == SceneInit /\ [][SceneNext]_sceneVars

\* A decided round is never left undecided; and where no vote comes late, no review
\* is open that is not of the current round of a task in review, and nobody works on a
\* task while something it depends on is not done.
RoundsStayInOrder ==
  /\ NoForgottenRound
  /\ scene # "late" => OpenReviewsAreCurrent /\ StartedAfterDeps
=============================================================================
