------------------------------ MODULE MCBoard -------------------------------
(* Values of the constants of Board for the model checker. *)
EXTENDS Board, TLC

NoThresholds == <<>>
KnownModels == [m \in {"costly"} |-> 1]
NoLadder == <<>>
TwoTiers == <<"cheap", "costly">>
OneReviewer == <<"cheap">>
TwoReviewers == <<"cheap", "cheap">>

OneTask == {<<{}>>}
TwoTasks == {<<{}, {1}>>}
ForwardReference == {<<{2}, {}>>}
Cycle == {<<{2}, {1}>>}

Batched == {<<{2}, {}>>, <<{}>>}

NoLists == {}
TwoLists == {<<"costly">>, <<"cheap", "cheap">>}

NoMoves == {}
OutOfReview == {"review"} \X {"blocked", "superseded", "failed"}
OutOfApproved == {"approved"} \X {"ready", "done", "blocked", "abandoned", "superseded"}
Unblock == {<<"blocked", "ready">>}
Bounces == {<<"review", "blocked">>, <<"approved", "done">>} \cup Unblock
LateVotes == OutOfReview \cup OutOfApproved \cup Unblock
Orderly == {"in_progress"} \X {"blocked"} \cup {"approved"} \X {"ready", "done"} \cup Unblock
BeforeWork == {<<"backlog", "superseded">>}
MergeMoves == {<<"approved", "ready">>, <<"approved", "done">>, <<"in_progress", "done">>,
               <<"in_progress", "blocked">>, <<"blocked", "ready">>, <<"blocked", "failed">>}
=============================================================================
