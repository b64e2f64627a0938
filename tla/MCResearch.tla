----------------------------- MODULE MCResearch -----------------------------
(* Values of the constants of ResearchRounds for the model checker. *)
EXTENDS ResearchRounds

Raised == [f \in Findings |-> IF f = "f1" THEN "r1" ELSE "r2"]

\* texts: whether findings are in changed text.  Severe findings, an adjudicator or none, tiers with their thresholds, and the budget.
Env(severe, adjudicator, thresholds, budget, n, may, texts) ==
  [severe |-> severe, adjudicator |-> adjudicator, thresholds |-> thresholds,
   tiers |-> Len(thresholds), maxRounds |-> 5, budget |-> budget, acts |-> n, may |-> may, texts |-> texts]

\* Two severe findings go through disputes and two tiers, with a hold or a failed adjudication.
Disputing == Env({"f1", "f2"}, TRUE, <<1, 1>>, 3, 1, {"hold", "fail"}, BOOLEAN)
\* Without an adjudicator; approved work comes back.
Escalating == Env({"f1", "f2"}, FALSE, <<1, 1>>, 3, 1, {"bounce"}, BOOLEAN)
\* A minor finding; tasks are superseded over open reviews or held.
Replacing == Env({"f1"}, TRUE, <<2>>, 2, 1, {"supersede", "hold"}, {FALSE})
\* Tasks are blocked over open reviews and adjudications.
Stopping == Env({"f1"}, TRUE, <<2>>, 2, 2, {"block"}, BOOLEAN)
AllEnvironments == {Disputing, Escalating, Replacing, Stopping}
=============================================================================
