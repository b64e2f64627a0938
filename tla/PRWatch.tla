------------------------------- MODULE PRWatch -------------------------------
(***************************************************************************)
(* The server's watcher of pull requests (internal/prwatch) on the tasks    *)
(* and pull requests of PullRequests, next to the merge agent.              *)
(*                                                                         *)
(* A pass lists the tasks of one state after the other and takes the tasks  *)
(* of a list in turn: it reads the task, then the forge, one call after the  *)
(* other, and acts on what it read.  Only the back-off outlives a pass, and  *)
(* nothing outlives the server.                                             *)
(***************************************************************************)
EXTENDS PullRequests

CONSTANTS
  Owners, OwnerOf,   \* repository owners, whose tokens have the quota
  BackoffInterval

ASSUME WatchConstants == OwnerOf \in [PRs -> Owners] /\ BackoffInterval \in Nat \ {0}

VARIABLES
  watch,             \* the pass: where it is, and what it read
  notBefore,         \* the back-off of each owner, 0 without one
  told,              \* history: what each owner's limit was said to be, and when, to this server
  bounces,           \* history: bounces by the watcher
  reviews            \* history: reviews that came in while changes were requested, or with that

watchVars == <<watch, notBefore, told>>
history == <<bounces, reviews>>
vars == <<vars1, watchVars, history>>

States == <<"approved", "ready", "in_progress", "review", "blocked", "superseded", "abandoned">>
Resting == [pc |-> "rest", phase |-> 0, list |-> {}, since |-> 0, checked |-> {}, listed |-> <<>>,
            pr |-> Idle.pr, seen |-> "none", action |-> "noop"]

Init ==
  /\ PRInit
  /\ watch = Resting
  /\ notBefore = [o \in Owners |-> 0] /\ told = [o \in Owners |-> {}]
  /\ bounces = [t \in Tasks |-> 0] /\ reviews = [t \in Tasks |-> 0]

InPhase(states) == watch.phase > 0 /\ States[watch.phase] \in states
Approved == InPhase({"approved"})
Terminal == InPhase({"superseded", "abandoned"})
It == watch.listed.task
Owner == OwnerOf[watch.pr]

\* The watcher goes on to the next task of the list.
Next1(w) == [w EXCEPT !.pc = "list", !.listed = <<>>, !.pr = Idle.pr, !.seen = "none", !.action = "noop"]
Skip == watch' = Next1(watch)

-----------------------------------------------------------------------------
(* A pass *)

\* A list holds the rows as they were when it was read; the lists that are empty on the way
\* to the next are read in the same step.  The time of a pass is taken once.
Listed(i) == {t \in Tasks : task[t].state = States[i]}
ListAfter(w) ==
  LET phases == {i \in (w.phase + 1)..Len(States) : Listed(i) # {}}
  IN IF phases = {} THEN Resting
     ELSE [w EXCEPT !.pc = "list", !.phase = Min(phases),
                    !.list = {[task |-> t, updated |-> task[t].updated] : t \in Listed(Min(phases))}]
Reconcile ==
  /\ watch.pc = "rest"
  /\ watch' = ListAfter([Resting EXCEPT !.since = now])
  /\ UNCHANGED <<vars1, notBefore, told>>
ListTasks ==
  /\ watch.pc = "list" /\ watch.list = {}
  /\ watch' = ListAfter(watch)
  /\ UNCHANGED <<vars1, notBefore, told>>

\* The link a task is followed by; in a mutant only while it is approved or over.
FollowedApproved(t) ==
  IF AgentMerge(t) /\ ~Terminal THEN {} ELSE {l \in FirstLink(t) : ~l.tombstoned}
Followed(t) ==
  CASE InPhase({"approved"}) -> IF AgentMerge(t) THEN {} ELSE {l \in FirstLink(t) : ~l.tombstoned}
    [] Terminal -> {l \in FirstLink(t) : ~l.tombstoned}
    [] OTHER -> FirstActiveLink(t)

\* rateLimitBackoff.check; an entry that has expired is dropped.
BackedOff(o) == notBefore[o] # 0 /\ watch.since < notBefore[o]
\* enterBackoff: until the reset the forge named, if that is still to come.
NotBeforeReset(reset) == reset   \* a mutant
NotBefore(reset) == IF reset > watch.since THEN reset ELSE watch.since + BackoffInterval
EnterBackoff(o) ==
  /\ Spend("limit") /\ watch.since + BackoffInterval <= env.until
  /\ \E reset \in 0..env.until :
       /\ notBefore' = [notBefore EXCEPT ![o] = NotBefore(reset)]
       /\ told' = [told EXCEPT ![o] = @ \cup {[at |-> watch.since, reset |-> reset]}]
  /\ Skip

\* The quota of an owner is looked up once in a pass, before the first call that uses it.
TakeTask ==
  /\ watch.pc = "list"
  /\ \E e \in watch.list :
       LET w == [watch EXCEPT !.list = @ \ {e}]
           l == CHOOSE l \in Followed(e.task) : TRUE
           o == OwnerOf[l.pr]
       IN IF Followed(e.task) = {} \/ BackedOff(o)
          THEN watch' = Next1(w) /\ UNCHANGED notBefore
          ELSE /\ notBefore' = [notBefore EXCEPT ![o] = 0]
               /\ watch' = [w EXCEPT !.pc = IF o \in w.checked THEN "state" ELSE "quota",
                                     !.checked = @ \cup {o}, !.listed = e, !.pr = l.pr]
  /\ UNCHANGED <<vars1, told>>

\* A quota at its floor is a limit; a lookup that fails is not.
QuotaFloor ==
  /\ watch.pc = "quota"
  /\ \/ watch' = [watch EXCEPT !.pc = "state"] /\ UNCHANGED <<left, notBefore, told>>
     \/ EnterBackoff(Owner)
  /\ UNCHANGED <<env, boardVars, pr, merger, now>>

\* A mutant: the pull request of a task that is over has been closed already.
ReadsStateClosed(p) ==
  CASE ~pr[p].found \/ Terminal -> [watch EXCEPT !.pc = "tombstone"]
    [] Approved -> [watch EXCEPT !.pc = "decision", !.seen = pr[p].state]
    [] pr[p].state = "merged" -> [watch EXCEPT !.pc = "act", !.action = "converge"]
    [] OTHER -> Next1(watch)
ReadsState(p) ==
  CASE ~pr[p].found -> [watch EXCEPT !.pc = "tombstone"]
    [] Approved -> [watch EXCEPT !.pc = "decision", !.seen = pr[p].state]
    [] Terminal -> [watch EXCEPT !.pc = IF pr[p].state = "open" THEN "close" ELSE "tombstone"]
    [] pr[p].state = "merged" -> [watch EXCEPT !.pc = "act", !.action = "converge"]
    [] OTHER -> Next1(watch)
GetPRState ==
  /\ watch.pc = "state"
  /\ \/ watch' = ReadsState(watch.pr) /\ UNCHANGED <<left, notBefore, told>>
     \/ EnterBackoff(Owner)
     \/ Spend("forge_error") /\ Skip /\ UNCHANGED <<notBefore, told>>
  /\ UNCHANGED <<env, boardVars, pr, merger, now>>

\* decideAction: a review counts if it is later than the last write of the listed row.
Always(t1, t2) == TRUE   \* a mutant
After(t1, t2) == t1 > t2
Decide(state, decision, reviewed, updated) ==
  CASE state = "merged" -> "done"
    [] state = "closed" -> "abandon"
    [] decision = "changes_requested" /\ After(reviewed, updated) -> "bounce"
    [] OTHER -> "noop"
\* The answer for a pull request that is gone reads like one without a review.
Decision(p) == IF pr[p].found THEN pr[p].decision ELSE "pending"
GetReviewDecision ==
  /\ watch.pc = "decision"
  /\ \/ LET action == Decide(watch.seen, Decision(watch.pr), pr[watch.pr].reviewed, watch.listed.updated)
        IN /\ watch' = IF action = "noop" THEN Next1(watch)
                       ELSE [watch EXCEPT !.pc = "act", !.action = action]
           /\ UNCHANGED <<left, notBefore, told>>
     \/ EnterBackoff(Owner)
     \/ Spend("forge_error") /\ Skip /\ UNCHANGED <<notBefore, told>>
  /\ UNCHANGED <<env, boardVars, pr, merger, now>>

\* A write to the forge fails.  If a limit is the reason, nobody takes notice of that.
Refused == Spend("forge_error") \/ Spend("limit")

\* applyMerged, applyAbandoned, applyBounce and applyMergedExternally write the row in whatever
\* state it is by then, if that state allows it.  No bounce without its comment.
Target == CASE watch.action = "abandon" -> "abandoned" [] watch.action = "bounce" -> "ready"
            [] OTHER -> "done"
Allowed ==
  IF watch.action = "converge" THEN task[It].state \in {"ready", "in_progress", "review", "blocked", "approved"}
  ELSE MayMove(task[It].state, Target)
Act ==
  /\ watch.pc = "act" /\ Skip
  /\ \/ /\ task' = IF Allowed THEN Moved(It, Target) ELSE task
        /\ bounces' = IF Allowed /\ watch.action = "bounce" THEN [bounces EXCEPT ![It] = @ + 1] ELSE bounces
        /\ UNCHANGED left
     \/ watch.action = "bounce" /\ Refused /\ UNCHANGED <<task, bounces>>
  /\ UNCHANGED <<env, links, row, pr, merger, now, notBefore, told, reviews>>

\* The pull request of a task that is over gets a comment, is closed, and its branch is
\* deleted; only the close matters, and what cannot be closed now is found again.
ClosePR ==
  /\ watch.pc = "close"
  /\ \/ /\ watch' = [watch EXCEPT !.pc = "tombstone"] /\ UNCHANGED left
        /\ pr' = IF pr[watch.pr].state = "open" THEN [pr EXCEPT ![watch.pr].state = "closed"] ELSE pr
     \/ Refused /\ Skip /\ UNCHANGED pr
  /\ UNCHANGED <<env, boardVars, merger, now, notBefore, told>>

Tombstone ==
  /\ watch.pc = "tombstone" /\ TombstoneLink(It, watch.pr) /\ Skip
  /\ UNCHANGED <<env, left, task, row, pr, merger, now, notBefore, told>>

Restart ==
  /\ Spend("restart") /\ watch' = Resting /\ notBefore' = [o \in Owners |-> 0]
  /\ told' = [o \in Owners |-> {}]
  /\ UNCHANGED <<env, boardVars, pr, merger, now>>

Watcher ==
  \/ Act
  \/ /\ Reconcile \/ ListTasks \/ TakeTask \/ QuotaFloor \/ GetPRState \/ GetReviewDecision
        \/ ClosePR \/ Tombstone
     /\ UNCHANGED history

PeopleStep(p) ==
  /\ \/ People(p) /\ UNCHANGED reviews
     \/ /\ Review(p)
        /\ reviews' = IF pr'[p].decision = "changes_requested"
                      THEN [reviews EXCEPT ![TaskOf(p)] = @ + 1] ELSE reviews
  /\ UNCHANGED <<watchVars, bounces>>

Next ==
  \/ (Board \/ MergeAgent \/ Tick) /\ UNCHANGED <<watchVars, history>>
  \/ \E p \in PRs : PeopleStep(p)
  \/ Watcher
  \/ Restart /\ UNCHANGED history

\* The server's reconcile loop never ends, merge agents go on with what they began and look
\* for rows, a lease nobody uses runs out, and time passes.
Fairness ==
  /\ WF_vars(Watcher)
  /\ \A m \in Mergers : WF_vars(MergeRun(m) /\ UNCHANGED <<watchVars, history>>)
  /\ WF_vars((\E m \in Mergers, i \in RowIds : MergeClaim(m, i)) /\ UNCHANGED <<watchVars, history>>)
  /\ WF_vars((\E i \in RowIds : LeaseLapses(i) /\ ~Working(i)) /\ UNCHANGED <<watchVars, history>>)
  /\ WF_vars(Tick /\ UNCHANGED <<watchVars, history>>)
Spec == Init /\ [][Next]_vars /\ Fairness
-----------------------------------------------------------------------------
(* Properties *)

\* Whoever finishes a task, and however stale what it read was: work is done only when one
\* of the task's pull requests was merged.
DoneMeansMerged ==
  \A t \in Tasks : task[t].state = "done" => \E p \in LinkedPRs(t) : pr[p].state = "merged"

\* Until the server restarts, an owner that a read or a quota lookup found limited is not
\* called again in that pass, nor by any pass before the reset it named, whatever it was
\* told before or after.  (A limit that a write ran into is not noticed.)
Calling ==
  \/ watch.pc \in {"state", "decision", "close"}
  \/ watch.pc = "act" /\ watch.action = "bounce"
QuietWhenLimited ==
  Calling => \A limit \in told[Owner] : watch.since > limit.at /\ watch.since >= limit.reset

\* Every bounce has a review of its own, one that came in while changes were requested: the
\* watcher never sends a task back twice for one review, however stale its list and however
\* often the task is approved anew.
BouncesAnswerReviews == \A t \in Tasks : bounces[t] <= reviews[t]

Follows(t, p) == \E l \in FirstLink(t) : l.pr = p /\ ~l.tombstoned

Over == {"done", "failed", "superseded", "abandoned"}

\* People act a bounded number of times, so the system settles; the next three say how.
\* A merged pull request finishes its task, whoever merged it and whatever died in between,
\* as long as the task is followed by it.
MergedIsDone ==
  <>[](\A p \in PRs :
         pr[p].state = "merged" /\ pr[p].found /\ Follows(TaskOf(p), p) /\ task[TaskOf(p)].state # "backlog"
           => task[TaskOf(p)].state \in Over)

\* A merge row is done or retired in the end, unless its parent or its pull request is in
\* a state that needs a person.
Stuck(t) ==
  \/ task[t].state \in {"blocked", "failed", "superseded", "abandoned"}
  \/ \E l \in FirstLink(t) : pr[l.pr].state = "closed" \/ ~pr[l.pr].found
MergeRowsEnd ==
  <>[](\A i \in RowIds : row[i].state \in {"ready", "in_progress"} => Stuck(row[i].target))

\* The pull request of a task that is over does not stay open, although the attempt to close
\* it at once may fail.
StalePRsClose ==
  <>[](\A t \in Tasks : task[t].state \in {"superseded", "abandoned"} =>
         \A l \in FirstLink(t) : pr[l.pr].found => pr[l.pr].state # "open")

\* Changes requested on the pull request of an approved task, after the approval, send the
\* task back.
Asked(t, p) ==
  /\ task[t].state = "approved" /\ ~AgentMerge(t) /\ Follows(t, p)
  /\ pr[p].state = "open" /\ pr[p].found
  /\ pr[p].decision = "changes_requested" /\ pr[p].reviewed > task[t].approved
RequestedChangesBounce == \A p \in PRs : Asked(TaskOf(p), p) ~> ~Asked(TaskOf(p), p)
=============================================================================
