--------------------------- MODULE LandingPromise ---------------------------
(***************************************************************************)
(* What `odonian approve' promises of the work of a review round that      *)
(* submitted a commit: from the moment the commit is on the task's branch  *)
(* the task can only become done, and it becomes done no other way.        *)
(* Before that the reservation may be dropped, and a task nobody has       *)
(* reserved may be reworked or retired.                                    *)
(***************************************************************************)

CONSTANT Tasks

VARIABLE phase

Init == phase = [t \in Tasks |-> "open"]

Move(t, from, to) == phase[t] = from /\ phase' = [phase EXCEPT ![t] = to]

Reserve(t) == Move(t, "open", "reserved")
Drop(t)    == Move(t, "reserved", "open")
Publish(t) == Move(t, "reserved", "published")
Finish(t)  == Move(t, "published", "done")

Next == \E t \in Tasks : Reserve(t) \/ Drop(t) \/ Publish(t) \/ Finish(t)

Spec == Init /\ [][Next]_phase
=============================================================================
