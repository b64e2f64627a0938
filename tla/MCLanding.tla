----------------------------- MODULE MCLanding ------------------------------
(* Values of the constants of Landing for the model checker. *)
EXTENDS Landing, TLC

NoThresholds == <<>>
NoLadder == <<>>
OneReviewer == <<"opus">>
OneTask == {<<{}>>}
NoLists == {}
Rejections == {"approved"} \X {"ready", "done", "failed"}

\* Runs are interchangeable.
Symmetry == Permutations(Attempts)
=============================================================================
