------------------------------ MODULE MCPRWatch ------------------------------
(* Values of the constants of PRWatch for the model checker. *)
EXTENDS PRWatch

OneOwner == [p \in PRs |-> "o1"]
OneEach == [p \in PRs |-> IF p = "p2" THEN "t2" ELSE "t1"]
Opened == [t \in Tasks |-> IF t = "t1" THEN "p1" ELSE "p2"]
AllForOne == [p \in PRs |-> "t1"]

\* One task that people merge, with as many submissions and acts, among those it may do.
Env(until, submissions, acts, may) ==
  [tasks |-> {"t1"}, agentMerge |-> {}, taskOf |-> OneEach,
   opened |-> Opened, mergers |-> {"m1"}, until |-> until,
   submissions |-> submissions, acts |-> acts, may |-> may]
Agents(e) == [e EXCEPT !.agentMerge = {"t1"}]

\* The merge agent, with conflicts, deaths and stalls.
Merging ==
  [Agents(Env(0, 1, 2, {"conflict", "bounce", "crash", "stall"})) EXCEPT !.mergers = Mergers]
\* People merge, close or review while rows are written and calls fail.
Watching ==
  Env(2, 1, 3, {"merge", "close", "review", "patch", "restart", "forge_error"})
\* Two tasks of one owner, and its quota.
Limited == [Env(2, 0, 2, {"limit", "restart"}) EXCEPT !.tasks = {"t1", "t2"}]
\* A limit that a bounce runs into.
Refusing == Env(1, 0, 2, {"review", "limit"})
\* Tasks that are over, with pull requests that are gone or not closed at once.
Retired == Env(0, 0, 3, {"supersede", "block", "close_inline", "vanish", "forge_error", "limit", "close"})
\* A pull request is closed or gone, and another one takes its place; answers are lost.
Replaced == [Agents(Env(0, 1, 2, {"close", "merge", "bounce", "vanish", "lose"})) EXCEPT !.taskOf = AllForOne]
AllEnvironments == {Merging, Watching, Limited, Refusing, Retired, Replaced}

\* Changes are requested on an approved task that an operator wrote in the meantime.
Written == Env(2, 0, 2, {"review", "patch"})
WrittenOnly == {Written}
=============================================================================
