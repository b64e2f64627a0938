-------------------------- MODULE MCLandingScenes ---------------------------
(* Three environments of Landing in one run of the model checker: a behaviour  *)
(* stays in the scene it starts in; the operations are the same in all.        *)
EXTENDS MCLanding

VARIABLE scene
sceneVars == <<allVars, scene>>

\* Rework and a lock that expires.
Expiry == INSTANCE Landing WITH Doings <- {"land", "lock_expires"}
\* Rework and a checkout of the branch; the lock does not expire.
Checkout == INSTANCE Landing WITH Doings <- {"land", "checkout"}
\* One round, one commit, and a lock that expires.
OneRound == INSTANCE Landing WITH
  Doings <- {"land", "lock_expires"}, MaxRound <- 1, MaxCommit <- 1, MaxTip <- 0

Runs(n) == Cardinality({x \in Attempts : pc[x] # "idle"}) <= n

SceneInit == LandInit /\ scene \in {"expiry", "checkout", "one round"}
SceneNext ==
  /\ \/ scene = "expiry" /\ Expiry!LandNext /\ Runs(2)'
     \/ scene = "checkout" /\ Checkout!LandNext /\ Runs(2)'
     \/ scene = "one round" /\ OneRound!LandNext
  /\ UNCHANGED scene
SceneSpec == SceneInit /\ [][SceneNext]_sceneVars
=============================================================================
