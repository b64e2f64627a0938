----------------------------- MODULE MCPermits ------------------------------
(* Values of the constants of Permits for the model checker. *)
EXTENDS Permits, TLC

\* One account, two models of which one may be without a pool.
Models == {"opus", "haiku"}
TaskModels == [t \in Tasks |-> "opus"]
Policy(m, r, b, l, k, mapped) ==
  [mode |-> m, pools |-> {"acct"}, rate |-> [a \in {"acct"} |-> r],
   burst |-> [a \in {"acct"} |-> b], limit |-> [a \in {"acct"} |-> l],
   reserved |-> [a \in {"acct"} |-> k],
   allowed |-> mapped,
   account |-> [x \in Models |-> IF x \in mapped THEN "acct" ELSE None]]

Roomy == Policy("enforce", 1, 2, 2, 1, Models)
Tight == Policy("enforce", 2, 1, 1, 0, Models)
Observed == Policy("observe", 1, 1, 1, 0, {"opus"})
Unmapped == Policy("enforce", 1, 1, 1, 0, {"haiku"})
Disabled == Policy("disabled", 1, 1, 1, 0, Models)
Enforced == [policies |-> <<Roomy, Tight>>, does |-> {"take_away"}]
TurnedBack == [policies |-> <<Tight, Roomy>>, does |-> {"set_back"}]
Switched == [policies |-> <<Observed, Tight>>, does |-> {}]
Relaxed == [policies |-> <<Unmapped, Observed, Disabled>>, does |-> {}]
Direct == [policies |-> <<Roomy>>, does |-> {"interface"}]
Symmetry == Permutations(Agents) \cup Permutations(Requests)
AllEnvironments == {Enforced, TurnedBack, Switched, Relaxed, Direct}
=============================================================================
