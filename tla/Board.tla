------------------------------- MODULE Board --------------------------------
(***************************************************************************)
(* The task board of the control plane: the task, task_dep and task_link   *)
(* tables of internal/store and the operations the REST API, the agents'   *)
(* command line, the operator's tools and the PR watcher perform on them.  *)
(*                                                                         *)
(* The store has one writer connection, so an operation is one             *)
(* transaction and here one action: a refusal (an early return, a          *)
(* conflict, a rolled back transaction) is the action being disabled.      *)
(* A column of the task table is a variable, a function on row numbers;    *)
(* rows are numbered in order of insertion and `used' is the last number   *)
(* handed out.  The build and design tracks are modelled; the research     *)
(* track changes how a round is decided and is not part of this module.    *)
(***************************************************************************)
EXTENDS Naturals, Sequences, FiniteSets

CONSTANTS
  Models,               \* the model names tasks are addressed to
  Ladder,               \* ODONIAN_ESCALATION_LADDER: models from cheap to costly
  EscalationThresholds, \* rounds a model may fail before the breaker trips: the operator's
  BuiltInThresholds,    \* ... and those the code has for the models it knows
  MaxReviewRounds,      \* the threshold of every other model
  DefaultReviewModels,  \* the reviewers of a task that names none
  AgentMerge,           \* whether the operator created the work with agent_merge
  Agents,               \* agent loops (workers, reviewers, mergers)
  Attempts,             \* lock tokens of `odonian approve' invocations
  None,                 \* SQL NULL in an assignee or landing_attempt column
  \* What the environment of a run does; a bound of the model.
  Batches,       \* shapes of POST /tasks: for each task, the batch positions it depends on
  ReviewLists,   \* review_models lists an operator may give
  Submissions,   \* sets of link kinds a worker may submit
  Moves,         \* pairs <<from, to>> an operator may ask of /transition
  MovedKinds,    \* kinds of task an operator transitions, holds and supersedes
  Doings,        \* the optional operations that happen
  \* Bounds of the model: the code has no such limits.
  MaxTasks, MaxRound,
  MaxWork        \* work is created in the first rows only

States == {"backlog", "ready", "in_progress", "review", "approved", "done",
           "failed", "blocked", "superseded", "abandoned"}
Kinds == {"implement", "review", "merge"}
LinkKinds == {"commit", "pr", "no_op"}
TaskIds == 1..MaxTasks

ASSUME BoundsAssumption ==
  MaxTasks \in Nat /\ MaxRound \in Nat /\ MaxWork \in 0..MaxTasks
ASSUME LadderAssumption ==
  /\ Ladder \in Seq(Models)
  /\ MaxReviewRounds \in Nat
  /\ \A m \in DOMAIN EscalationThresholds : EscalationThresholds[m] \in Nat
  /\ \A m \in DOMAIN BuiltInThresholds : BuiltInThresholds[m] \in Nat
ASSUME ReviewersAssumption ==
  /\ DefaultReviewModels \in Seq(Models) /\ DefaultReviewModels # <<>>
  /\ ReviewLists \subseteq Seq(Models)
ASSUME NullAssumption == None \notin Agents /\ None \notin Attempts
ASSUME InputAssumption ==
  /\ AgentMerge \in BOOLEAN
  /\ Submissions \subseteq SUBSET LinkKinds
  /\ \A b \in Batches : /\ b \in Seq(SUBSET Nat)
                        /\ \A i \in DOMAIN b : b[i] \subseteq DOMAIN b \ {i}

VARIABLES
  used,         \* rows 1..used have been handed out
  state, kind, target, round, model, reviewModels, verdict,
  assignee,     \* the agent of the last claim, or None
  lease,        \* "none" (NULL), "live" or "expired" against the server's clock
  held, escalate,
  deps,         \* task_dep: the rows a row depends on
  links,        \* kinds of the links tagged with the row's current review round
  hasPR,        \* the row has an active pr link, of whatever round
  landingRound, \* the round a landing reservation is for, 0 for NULL
  landingBy,    \* landing_attempt: the approve that owns the reservation
  successor     \* superseded_by, 0 for NULL

shapeVars == <<used, kind, target, round, model, escalate, deps, successor>>
rowVars == <<shapeVars, reviewModels>>
claimVars == <<assignee, lease>>
linkVars == <<links, hasPR>>
landingVars == <<landingRound, landingBy>>
vars == <<used, state, kind, target, round, model, reviewModels, verdict, assignee,
          lease, held, escalate, deps, links, hasPR, landingRound, landingBy, successor>>

Rows == 1..used
Existing == {t \in Rows : state[t] # "absent"}

Init ==
  /\ used = 0
  /\ state = [t \in TaskIds |-> "absent"]
  /\ kind = [t \in TaskIds |-> "implement"]
  /\ target = [t \in TaskIds |-> 0]
  /\ round = [t \in TaskIds |-> 0]
  /\ model = [t \in TaskIds |-> DefaultReviewModels[1]]
  /\ reviewModels = [t \in TaskIds |-> <<>>]
  /\ verdict = [t \in TaskIds |-> "none"]
  /\ assignee = [t \in TaskIds |-> None]
  /\ lease = [t \in TaskIds |-> "none"]
  /\ held = [t \in TaskIds |-> FALSE]
  /\ escalate = [t \in TaskIds |-> TRUE]
  /\ deps = [t \in TaskIds |-> {}]
  /\ links = [t \in TaskIds |-> {}]
  /\ hasPR = [t \in TaskIds |-> FALSE]
  /\ landingRound = [t \in TaskIds |-> 0]
  /\ landingBy = [t \in TaskIds |-> None]
  /\ successor = [t \in TaskIds |-> 0]

-----------------------------------------------------------------------------
(* Creating, promoting, claiming *)

\* POST /tasks creates a whole batch or nothing.  A task may name earlier and
\* later tasks of its batch and tasks that exist; only itself is refused.
CreateTasks(b, m, rm, older) ==
  LET row(i) == used + i
      new == {row(i) : i \in DOMAIN b}
  IN /\ b # <<>> /\ used + Len(b) <= MaxWork
     /\ older \subseteq Existing
     /\ used' = used + Len(b)
     /\ state' = [t \in TaskIds |-> IF t \in new THEN "backlog" ELSE state[t]]
     /\ model' = [t \in TaskIds |-> IF t \in new THEN m ELSE model[t]]
     /\ reviewModels' = [t \in TaskIds |-> IF t \in new THEN rm ELSE reviewModels[t]]
     /\ deps' = [t \in TaskIds |-> IF t \in new
                                   THEN {row(j) : j \in b[t - used]} \cup older
                                   ELSE deps[t]]
     /\ UNCHANGED <<kind, target, round, escalate, successor, verdict, held,
                    claimVars, linkVars, landingVars>>

PromoteTask(t) ==
  /\ state[t] = "backlog"
  /\ state' = [state EXCEPT ![t] = "ready"]
  /\ UNCHANGED <<rowVars, verdict, held, claimVars, linkVars, landingVars>>

ClaimableIgnoringExpiry(t) ==
  /\ state[t] = "ready" \/ (state[t] = "in_progress" /\ lease[t] # "none")
  /\ ~held[t]
  /\ \A d \in deps[t] : state[d] = "done"
Claimable(t) ==
  /\ state[t] = "ready" \/ (state[t] = "in_progress" /\ lease[t] = "expired")
  /\ ~held[t]
  /\ \A d \in deps[t] : state[d] = "done"

\* The claim names the task's model; an agent that names another is refused.
ClaimTask(t, a) ==
  /\ Claimable(t)
  /\ state' = [state EXCEPT ![t] = "in_progress"]
  /\ assignee' = [assignee EXCEPT ![t] = a]
  /\ lease' = [lease EXCEPT ![t] = "live"]
  /\ UNCHANGED <<rowVars, verdict, held, linkVars, landingVars>>

Owns(t, a) == state[t] = "in_progress" /\ assignee[t] = a

\* A heartbeat may revive a lease that lapsed, if nobody reclaimed the task.
HeartbeatTask(t, a) ==
  /\ Owns(t, a)
  /\ lease' = [lease EXCEPT ![t] = "live"]
  /\ UNCHANGED <<rowVars, state, verdict, held, assignee, linkVars, landingVars>>

\* The server's clock passes lease_expires_at; nothing is written.
LeaseExpires(t) ==
  /\ "expire" \in Doings
  /\ lease[t] = "live"
  /\ lease' = [lease EXCEPT ![t] = "expired"]
  /\ UNCHANGED <<rowVars, state, verdict, held, assignee, linkVars, landingVars>>

\* Work that was submitted, or has a pull request, is not handed back; the round
\* of a review row labels the round it reviews.
UnclaimTask(t, a) ==
  /\ Owns(t, a)
  /\ ~hasPR[t]
  /\ round[t] = 0 \/ kind[t] = "review"
  /\ state' = [state EXCEPT ![t] = "ready"]
  /\ assignee' = [assignee EXCEPT ![t] = None]
  /\ lease' = [lease EXCEPT ![t] = "none"]
  /\ UNCHANGED <<rowVars, verdict, held, linkVars, landingVars>>

-----------------------------------------------------------------------------
(* Deciding a review round *)

\* A model that is the last of the ladder, or not on it, has no next tier; a model
\* named twice counts where it comes first.
HasNextTier(m) ==
  Ladder # <<>> /\ Ladder[Len(Ladder)] # m /\ \E i \in DOMAIN Ladder : Ladder[i] = m
NextTier(m) ==
  LET i == CHOOSE j \in DOMAIN Ladder :
             Ladder[j] = m /\ \A k \in 1..(j - 1) : Ladder[k] # m
  IN  Ladder[i + 1]
ThresholdFor(m) ==
  CASE m \in DOMAIN EscalationThresholds -> EscalationThresholds[m]
    [] m \notin DOMAIN EscalationThresholds /\ m \in DOMAIN BuiltInThresholds -> BuiltInThresholds[m]
    [] OTHER -> MaxReviewRounds

\* The operators below take the columns st (state), vd (verdict), hd (held) and
\* rms (review_models) as the transaction has written them when it decides.
RoundTasks(p, st) ==
  {c \in TaskIds : target[c] = p /\ round[c] = round[p] /\ st[c] # "abandoned"}

\* The tally's SUM over no rows is NULL, which the code cannot scan: with no
\* review task left in the round the transaction fails, so it is never full.
SomeVoted(p, st) ==
  \E c \in RoundTasks(p, st) : st[c] = "done"
RoundFull(p, st) ==
  /\ RoundTasks(p, st) # {}
  /\ \A c \in RoundTasks(p, st) : st[c] = "done"
ApprovedOnce(p, st, vd) ==
  \E c \in TaskIds : target[c] = p /\ kind[c] = "review" /\ vd[c] = "approve"
RoundApproved(p, st, vd) == \A c \in RoundTasks(p, st) : vd[c] = "approve"

ResurrectedIfFailed == {"blocked", "abandoned"}
NotResurrected == {"failed", "blocked", "abandoned"}
Decided(p, st, hd) == ~hd[p] /\ st[p] \notin NotResurrected /\ RoundFull(p, st)
UndecidedBeforeVote(p, st, hd) == hd[p] \/ ~RoundFull(p, state)
Undecided(p, st, hd) ==
  \/ hd[p]
  \/ RoundTasks(p, st) # {} /\ (st[p] \in NotResurrected \/ ~RoundFull(p, st))

\* A landing reservation pins the row: the outcome is computed and dropped.
Settle(p, st, new) ==
  IF landingRound[p] = 0 THEN [st EXCEPT ![p] = new] ELSE st

\* supersedeTaskTx: a replacement with a clean slate takes over the dependents.
\* It copies neither the target nor the hold of the row it replaces.
Supersede(p, st, m, rms, rm, first) ==
  LET n == used + 1
      own(t) == IF t = n THEN deps[p] ELSE deps[t]
  IN /\ st[p] \notin {"absent", "done", "failed", "abandoned", "superseded"}
     /\ st[p] = "approved" => landingRound[p] = 0
     /\ n <= MaxTasks
     /\ used' = n
     /\ state' = [st EXCEPT ![n] = first, ![p] = "superseded"]
     /\ kind' = [kind EXCEPT ![n] = kind[p]]
     /\ model' = [model EXCEPT ![n] = m]
     /\ reviewModels' = [rms EXCEPT ![n] = rm]
     /\ escalate' = [escalate EXCEPT ![n] = escalate[p]]
     /\ deps' = [t \in TaskIds |-> IF p \in own(t) THEN (own(t) \ {p}) \cup {n} ELSE own(t)]
     /\ successor' = [successor EXCEPT ![p] = n]
     /\ UNCHANGED <<target, round>>

\* handleApprovedRound: a verified no-op is done, an agent_merge parent with a
\* pull request gets a merge task, any other waits for a human.
IsNoOp(p) == "no_op" \in links[p] /\ ~hasPR[p]
SpawnMerge(p, st, rms) ==
  LET n == used + 1
  IN /\ n <= MaxTasks
     /\ used' = n
     /\ state' = [Settle(p, st, "approved") EXCEPT ![n] = "ready"]
     /\ kind' = [kind EXCEPT ![n] = "merge"]
     /\ target' = [target EXCEPT ![n] = p]
     /\ model' = [model EXCEPT ![n] = model[p]]
     /\ reviewModels' = rms
     /\ UNCHANGED <<round, escalate, deps, successor>>
ApproveRound(p, st, rms) ==
  \/ /\ IsNoOp(p)
     /\ state' = Settle(p, st, "done")
     /\ reviewModels' = rms /\ UNCHANGED shapeVars
  \/ /\ ~IsNoOp(p) /\ AgentMerge /\ hasPR[p]
     /\ SpawnMerge(p, st, rms)
  \/ /\ ~IsNoOp(p) /\ ~(AgentMerge /\ hasPR[p])
     /\ state' = Settle(p, st, "approved")
     /\ reviewModels' = rms /\ UNCHANGED shapeVars

\* applyRoundCircuitBreaker: rework, then a costlier model, then a human.
Tripped(p) == round[p] > ThresholdFor(model[p])
CanEscalate(p) == escalate[p] /\ HasNextTier(model[p])
RejectRound(p, st, rms) ==
  \/ /\ ~Tripped(p)
     /\ state' = Settle(p, st, "ready")
     /\ reviewModels' = rms /\ UNCHANGED shapeVars
  \/ /\ Tripped(p) /\ ~CanEscalate(p)
     /\ state' = Settle(p, st, "blocked")
     /\ reviewModels' = rms /\ UNCHANGED shapeVars
  \/ /\ Tripped(p) /\ CanEscalate(p)
     /\ Supersede(p, st, NextTier(model[p]), rms, rms[p], "ready")

\* aggregateReviewRound
Aggregate(p, st, vd, hd, rms) ==
  \/ /\ Undecided(p, st, hd)
     /\ state' = st
     /\ reviewModels' = rms /\ UNCHANGED shapeVars
  \/ /\ Decided(p, st, hd) /\ RoundApproved(p, st, vd)
     /\ ApproveRound(p, st, rms)
  \/ /\ Decided(p, st, hd) /\ ~RoundApproved(p, st, vd)
     /\ RejectRound(p, st, rms)

-----------------------------------------------------------------------------
(* Submitting *)

Reviewers(t) == IF reviewModels[t] = <<>> THEN DefaultReviewModels ELSE reviewModels[t]

\* An implement row enters review: its round advances, its links are tagged with
\* the new round and one ready review row appears for each reviewer.
SubmitWork(t, a, ls) ==
  LET rv == Reviewers(t)
      new == (used + 1)..(used + Len(rv))
  IN /\ Owns(t, a) /\ kind[t] = "implement"
     /\ round[t] < MaxRound /\ used + Len(rv) <= MaxTasks
     /\ used' = used + Len(rv)
     /\ state' = [x \in TaskIds |-> IF x \in new THEN "ready"
                                    ELSE IF x = t THEN "review" ELSE state[x]]
     /\ kind' = [x \in TaskIds |-> IF x \in new THEN "review" ELSE kind[x]]
     /\ target' = [x \in TaskIds |-> IF x \in new THEN t ELSE target[x]]
     /\ model' = [x \in TaskIds |-> IF x \in new THEN rv[x - used] ELSE model[x]]
     /\ round' = [x \in TaskIds |-> IF x \in new \cup {t} THEN round[t] + 1 ELSE round[x]]
     /\ links' = [links EXCEPT ![t] = ls]
     /\ hasPR' = [hasPR EXCEPT ![t] = @ \/ "pr" \in ls]
     /\ lease' = [lease EXCEPT ![t] = "none"]
     /\ UNCHANGED <<reviewModels, escalate, deps, successor, verdict, held, assignee, landingVars>>

\* A review row is done with a verdict, whatever has become of its parent, and
\* its parent's current round is decided if that was the last open review.
SubmitReview(t, a, v) ==
  LET st == [state EXCEPT ![t] = "done"]
      vd == [verdict EXCEPT ![t] = v]
  IN /\ Owns(t, a) /\ kind[t] = "review"
     /\ verdict' = vd
     /\ lease' = [lease EXCEPT ![t] = "none"]
     /\ \/ target[t] # 0 /\ Aggregate(target[t], st, vd, held, reviewModels)
        \/ target[t] = 0 /\ state' = st /\ UNCHANGED rowVars
     /\ UNCHANGED <<held, assignee, linkVars, landingVars>>

\* The code treats a submitted merge row like work that enters review, except
\* that nobody is asked to review it.
SubmitMerge(t, a) ==
  /\ Owns(t, a) /\ kind[t] = "merge"
  /\ state' = [state EXCEPT ![t] = "review"]
  /\ lease' = [lease EXCEPT ![t] = "none"]
  /\ UNCHANGED <<rowVars, verdict, held, assignee, linkVars, landingVars>>

-----------------------------------------------------------------------------
(* The operator, the PR watcher and the approve command *)

Active == {"backlog", "ready", "in_progress", "review", "approved"}
MayFinish(from, to, k) ==
  \/ to = "done" /\ from \in {"review", "approved", "in_progress"}
  \/ to = "ready" /\ from \in {"approved", "blocked"}
  \/ to \in {"blocked", "failed"} /\ from \in Active
MayMove(from, to, k) ==
  \/ to = "done" /\ (from = "approved" \/ (from = "in_progress" /\ k = "merge"))
  \/ to = "ready" /\ from \in {"approved", "blocked"}
  \/ to \in {"blocked", "superseded"} /\ from \in Active
  \/ to = "failed" /\ from \in Active \cup {"blocked"}
  \/ to = "abandoned" /\ from = "approved"

NothingToLandEver(t) == TRUE
NothingToLand(t) == "commit" \notin links[t]

\* What every transition writes: any landing reservation ends, and a row that
\* leaves `blocked' forgets its claim.
MoveTo(t, to) ==
  /\ state' = [state EXCEPT ![t] = to]
  /\ landingRound' = [landingRound EXCEPT ![t] = 0]
  /\ landingBy' = [landingBy EXCEPT ![t] = None]
  /\ assignee' = [assignee EXCEPT ![t] = IF state[t] = "blocked" THEN None ELSE @]
  /\ lease' = [lease EXCEPT ![t] = IF state[t] = "blocked" THEN "none" ELSE @]
  /\ UNCHANGED <<rowVars, verdict, held, linkVars>>

\* Approved work that is landing is left alone, and work that must land first
\* is not marked done by hand.
TransitionTask(t, to) ==
  /\ MayMove(state[t], to, kind[t])
  /\ state[t] = "approved" =>
       landingRound[t] = 0 /\ (to = "done" => NothingToLand(t))
  /\ MoveTo(t, to)

\* Reserving again for the same round and commit takes the reservation over.
\* The commit is the one the current round submitted, so the round stands for it.
ReservableAnyState(t, r) == "commit" \in links[t] /\ round[t] = r
Reservable(t, r) ==
  /\ state[t] = "approved" /\ round[t] = r
  /\ IF landingRound[t] # 0 THEN landingRound[t] = r ELSE "commit" \in links[t]
Reserve(t, r, x) ==
  /\ landingRound' = [landingRound EXCEPT ![t] = r]
  /\ landingBy' = [landingBy EXCEPT ![t] = x]
  /\ UNCHANGED <<rowVars, state, verdict, held, claimVars, linkVars>>
BeginLanding(t, r, x) == "land" \in Doings /\ Reservable(t, r) /\ Reserve(t, r, x)

OwnsLanding(t, x) == landingRound[t] # 0 /\ landingBy[t] = x
CancelLanding(t, x) ==
  /\ OwnsLanding(t, x)
  /\ landingRound' = [landingRound EXCEPT ![t] = 0]
  /\ landingBy' = [landingBy EXCEPT ![t] = None]
  /\ UNCHANGED <<rowVars, state, verdict, held, claimVars, linkVars>>

CompleteLanding(t, x) == state[t] = "approved" /\ OwnsLanding(t, x) /\ MoveTo(t, "done")

\* The PR watcher found the pull request merged outside the board.
UnvotedReviews(t) ==
  {c \in TaskIds : /\ target[c] = t /\ round[c] = round[t] /\ kind[c] = "review"
                   /\ verdict[c] = "none" /\ state[c] \notin {"done", "abandoned"}}
Converge(t) ==
  LET retired == UnvotedReviews(t)
  IN /\ "converge" \in Doings
     /\ hasPR[t]
     /\ state[t] \in {"ready", "in_progress", "review", "blocked", "approved"}
     /\ state' = [x \in TaskIds |-> IF x \in retired THEN "abandoned"
                                    ELSE IF x = t THEN "done" ELSE state[x]]
     /\ assignee' = [x \in TaskIds |-> IF x \in retired \cup {t} THEN None ELSE assignee[x]]
     /\ lease' = [x \in TaskIds |-> IF x \in retired \cup {t} THEN "none" ELSE lease[x]]
     /\ landingRound' = [landingRound EXCEPT ![t] = 0]
     /\ landingBy' = [landingBy EXCEPT ![t] = None]
     /\ UNCHANGED <<rowVars, verdict, held, linkVars>>

\* POST /tasks/{id}/supersede, optionally with another model and reviewers.
SupersedeTask(t, m, rm) ==
  /\ "supersede" \in Doings
  /\ Supersede(t, state, m, reviewModels, rm, "backlog")
  /\ UNCHANGED <<verdict, held, claimVars, linkVars, landingVars>>

HoldTask(t) ==
  /\ "hold" \in Doings
  /\ state[t] # "absent"
  /\ held' = [held EXCEPT ![t] = TRUE]
  /\ UNCHANGED <<rowVars, state, verdict, claimVars, linkVars, landingVars>>

\* Releasing a row whose reviews all came in while it was held decides the round;
\* the tally fails for a row in review that has no review tasks, a merge.
ReleaseTask(t) ==
  LET hd == [held EXCEPT ![t] = FALSE]
  IN /\ state[t] # "absent"
     /\ held' = hd
     /\ \/ /\ state[t] = "review" /\ RoundFull(t, state)
           /\ Aggregate(t, state, verdict, hd, reviewModels)
        \/ /\ state[t] = "review" => RoundTasks(t, state) # {} /\ ~RoundFull(t, state)
           /\ UNCHANGED <<rowVars, state>>
     /\ UNCHANGED <<verdict, claimVars, linkVars, landingVars>>

UpdateTaskEscalate(t, e) ==
  /\ "escalate" \in Doings
  /\ state[t] \notin {"absent", "done", "failed", "abandoned", "superseded"}
  /\ escalate' = [escalate EXCEPT ![t] = e]
  /\ UNCHANGED <<used, kind, target, round, model, reviewModels, deps, successor,
                 state, verdict, held, claimVars, linkVars, landingVars>>

\* The rows reachable from S along dependency edges.
Upstream(S) ==
  LET R[n \in 0..MaxTasks] ==
        IF n = 0 THEN S ELSE R[n - 1] \cup UNION {deps[t] : t \in R[n - 1]}
  IN  R[MaxTasks]

DirectCycle(t, ds) == t \in ds
WouldCreateCycle(t, ds) == t \in Upstream(ds)

\* PATCH depends_on: refused only when the new edges would close a cycle.
UpdateTaskDependsOn(t, ds) ==
  /\ "patch" \in Doings
  /\ t \in Existing /\ ds \subseteq Existing
  /\ ~WouldCreateCycle(t, ds)
  /\ deps' = [deps EXCEPT ![t] = ds]
  /\ UNCHANGED <<used, kind, target, round, model, reviewModels, escalate, successor,
                 state, verdict, held, claimVars, linkVars, landingVars>>

-----------------------------------------------------------------------------
(* PATCH review_models *)

\* The review rows of p's current round that still count, and how many of those
\* of model m are done or can still be.
Children(p) == {c \in RoundTasks(p, state) : kind[c] = "review"}
DoneChildren(p, m) == {c \in Children(p) : model[c] = m /\ state[c] = "done"}
LiveChildren(p, m) ==
  {c \in Children(p) : /\ model[c] = m
                       /\ state[c] \in {"backlog", "ready", "in_progress", "blocked"}}
Wanted(ms, m) == Cardinality({i \in DOMAIN ms : ms[i] = m})

\* An entry of the new list is met by a finished child of its model, else by
\* the oldest live one; what is left of the live ones, and every child that can
\* no longer finish, is retired.
Matched(p, ms) ==
  {c \in Children(p) :
     \/ state[c] = "done"
     \/ /\ c \in LiveChildren(p, model[c])
        /\ Cardinality({x \in LiveChildren(p, model[c]) : x < c})
             + Cardinality(DoneChildren(p, model[c])) < Wanted(ms, model[c])}
RetiredBy(p, ms) == Children(p) \ Matched(p, ms)
Missing(p, ms) ==
  {i \in DOMAIN ms :
     Cardinality({j \in 1..i : ms[j] = ms[i]}) >
       Cardinality(DoneChildren(p, ms[i]) \cup LiveChildren(p, ms[i]))}

\* reshapeOpenReviewRound.  The row of list entry i is used + i, so a row
\* number goes to waste for every entry that needs no new row.
ReshapeRound(p, ms, rms) ==
  LET new == {used + i : i \in Missing(p, ms)}
      gone == RetiredBy(p, ms)
      st == [x \in TaskIds |-> IF x \in gone THEN "abandoned"
                               ELSE IF x \in new THEN "ready" ELSE state[x]]
      nothingOpen == \A c \in RoundTasks(p, st) \cup new : st[c] = "done"
  IN /\ used + Len(ms) <= MaxTasks
     /\ assignee' = [x \in TaskIds |-> IF x \in gone THEN None ELSE assignee[x]]
     /\ lease' = [x \in TaskIds |-> IF x \in gone THEN "none" ELSE lease[x]]
     /\ \/ /\ nothingOpen
           /\ Aggregate(p, st, verdict, held, rms)
        \/ /\ ~nothingOpen
           /\ state' = st
           /\ used' = used + Len(ms)
           /\ kind' = [x \in TaskIds |-> IF x \in new THEN "review" ELSE kind[x]]
           /\ target' = [x \in TaskIds |-> IF x \in new THEN p ELSE target[x]]
           /\ round' = [x \in TaskIds |-> IF x \in new THEN round[p] ELSE round[x]]
           /\ model' = [x \in TaskIds |-> IF x \in new THEN ms[x - used] ELSE model[x]]
           /\ reviewModels' = rms
           /\ UNCHANGED <<escalate, deps, successor>>

\* Before and after review the list is only stored.
UpdateTaskReviewModels(p, ms) ==
  LET rms == [reviewModels EXCEPT ![p] = ms]
  IN /\ "reshape" \in Doings
     /\ kind[p] = "implement" /\ ms # <<>>
     /\ \/ /\ state[p] \in {"backlog", "ready", "in_progress", "blocked"}
           /\ reviewModels' = rms
           /\ UNCHANGED <<shapeVars, state, claimVars>>
        \/ /\ state[p] = "review"
           /\ ReshapeRound(p, ms, rms)
     /\ UNCHANGED <<verdict, held, linkVars, landingVars>>

-----------------------------------------------------------------------------
(* The board and those who use it *)

Create ==
  \E b \in Batches, m \in Models, rm \in ReviewLists \cup {<<>>}, older \in SUBSET Existing :
    CreateTasks(b, m, rm, older)

\* What an agent does with a task.
Agent(a, t) ==
  \/ ClaimTask(t, a) \/ HeartbeatTask(t, a) \/ UnclaimTask(t, a)
  \/ \E ls \in Submissions : SubmitWork(t, a, ls)
  \/ \E v \in {"approve", "reject"} : SubmitReview(t, a, v)
  \/ SubmitMerge(t, a)

\* What an operator, or a tool acting for one, does with a task.
Operator(t) ==
  \/ PromoteTask(t)
  \/ /\ kind[t] \in MovedKinds
     /\ \/ \E to \in States : <<state[t], to>> \in Moves /\ TransitionTask(t, to)
        \/ /\ <<state[t], "superseded">> \in Moves
           /\ \E m \in Models, rm \in {reviewModels[t]} \cup (ReviewLists \ {<<>>}) :
                SupersedeTask(t, m, rm)
        \/ HoldTask(t) \/ ReleaseTask(t)
  \/ \E e \in BOOLEAN : UpdateTaskEscalate(t, e)
  \/ \E ds \in SUBSET Existing : UpdateTaskDependsOn(t, ds)
  \/ \E ms \in ReviewLists : UpdateTaskReviewModels(t, ms)

Approve(t, x) ==
  \/ \E r \in 1..MaxRound : BeginLanding(t, r, x)
  \/ CancelLanding(t, x) \/ CompleteLanding(t, x)

\* Everybody but the approve command.
Users ==
  \/ Create
  \/ \E t \in Rows :
       \/ \E a \in Agents : Agent(a, t)
       \/ Operator(t)
       \/ Converge(t)
       \/ LeaseExpires(t)

Next == Users \/ \E t \in Rows, x \in Attempts : Approve(t, x)

Spec == Init /\ [][Next]_vars

\* What agents owe the board: a task somebody may claim is claimed, and whoever
\* keeps getting a task gets through it before the lease runs out for good.
Fairness ==
  \A t \in TaskIds :
    /\ WF_vars(\E a \in Agents : ClaimTask(t, a))
    /\ SF_vars(\E a \in Agents, ls \in Submissions : SubmitWork(t, a, ls))
    /\ SF_vars(\E a \in Agents, v \in {"approve", "reject"} : SubmitReview(t, a, v))
FairSpec == Spec /\ Fairness

-----------------------------------------------------------------------------
(* Properties *)

\* Every column keeps its type, and the columns of a landing reservation are NULL
\* together: no writer forgets one of them.
TypeOK ==
  /\ used \in 0..MaxTasks
  /\ state \in [TaskIds -> States \cup {"absent"}]
  /\ kind \in [TaskIds -> Kinds]
  /\ target \in [TaskIds -> 0..MaxTasks]
  /\ round \in [TaskIds -> 0..MaxRound]
  /\ model \in [TaskIds -> Models]
  /\ reviewModels \in [TaskIds -> Seq(Models)]
  /\ verdict \in [TaskIds -> {"none", "approve", "reject"}]
  /\ assignee \in [TaskIds -> Agents \cup {None}]
  /\ lease \in [TaskIds -> {"none", "live", "expired"}]
  /\ held \in [TaskIds -> BOOLEAN]
  /\ escalate \in [TaskIds -> BOOLEAN]
  /\ deps \in [TaskIds -> SUBSET TaskIds]
  /\ links \in [TaskIds -> SUBSET LinkKinds]
  /\ hasPR \in [TaskIds -> BOOLEAN]
  /\ landingRound \in [TaskIds -> 0..MaxRound]
  /\ landingBy \in [TaskIds -> Attempts \cup {None}]
  /\ successor \in [TaskIds -> 0..MaxTasks]
  /\ \A t \in TaskIds : landingRound[t] = 0 <=> landingBy[t] = None

Unanimous(p) ==
  /\ RoundTasks(p, state) # {}
  /\ \A c \in RoundTasks(p, state) : state[c] = "done" /\ verdict[c] = "approve"

\* A task waits for approval, or for its landing, only when every review of its
\* current round is in and every one of them approved it (aggregateReviewRound):
\* late votes, reshaped rounds, holds and escalations do not let other work through.
ApprovedIsUnanimous ==
  \A p \in TaskIds : state[p] = "approved" => Unanimous(p)

\* A task in review that nobody holds has an unfinished review to wait for: no
\* order of votes, holds, releases and reshapes leaves a decided round undecided.
NoForgottenRound ==
  \A p \in TaskIds :
    kind[p] = "implement" /\ state[p] = "review" /\ ~held[p] =>
      \E c \in RoundTasks(p, state) : state[c] # "done"

\* While an approve has the landing reservation, the task stays approved at the
\* very round it reserved, with a commit to land, and the owner is known: what
\* is published is what the reviewers approved.
ReservationPinsApproval ==
  \A t \in TaskIds :
    landingRound[t] # 0 =>
      /\ state[t] = "approved" /\ landingRound[t] = round[t]
      /\ "commit" \in links[t] /\ landingBy[t] # None

\* A task in progress has an owner and a lease that can run out, so that a
\* crashed agent's task can always be claimed again (claimableSQL skips NULLs).
ClaimedIsReclaimable ==
  \A t \in TaskIds :
    state[t] = "in_progress" => assignee[t] # None /\ lease[t] # "none"

\* Work is done only after a unanimous round, or because its pull request was
\* merged outside the board: no path of transitions, landings or votes around it.
WorkDoneOnlyReviewed ==
  [][\A t \in TaskIds :
       kind[t] = "implement" /\ state[t] # "done" /\ state'[t] = "done" =>
         Unanimous(t)' \/ Converge(t)]_vars

\* A terminal task comes back only when it was done or superseded and a review
\* of it that was still open is submitted; nothing brings back a failed or an
\* abandoned one.  A review that failed or was replaced is still withdrawn when
\* its round is reshaped or its work was merged outside the board.
TerminalReopenedOnlyByLateReview ==
  [][\A t \in TaskIds :
       state[t] \in {"done", "failed", "superseded", "abandoned"} /\ state'[t] # state[t] =>
         \/ /\ state[t] \in {"done", "superseded"}
            /\ \E c \in TaskIds : target[c] = t /\ state[c] = "in_progress" /\ state'[c] = "done"
         \/ /\ state[t] \in {"failed", "superseded"} /\ kind[t] = "review"
            /\ state'[t] = "abandoned"]_vars

\* An agent that renewed its lease keeps its task: a step gives it to another
\* agent only when the lease has run out.
LiveLeaseIsKept ==
  [][\A t \in TaskIds :
       state[t] = "in_progress" /\ state'[t] = "in_progress" /\ assignee'[t] # assignee[t] =>
         lease[t] = "expired"]_vars

\* Finished and replaced work stays that way, whatever comes in late.
TerminalIsFinal ==
  [][\A t \in TaskIds : state[t] \in {"done", "superseded"} => state'[t] = state[t]]_vars

\* Nobody works on a task before everything it depends on is done, at any time
\* of the claim and not only when it is made.
StartedAfterDeps ==
  \A t \in TaskIds : state[t] = "in_progress" => \A d \in deps[t] : state[d] = "done"

\* A review somebody can still vote on is of a task in review, at its current
\* round: votes never arrive late.
OpenReviewsAreCurrent ==
  \A c \in TaskIds :
    kind[c] = "review" /\ target[c] # 0 /\ state[c] \in {"ready", "in_progress"} =>
      state[target[c]] = "review" /\ round[c] = round[target[c]]

\* The dependencies of the board have no cycle, so no set of tasks waits for itself.
DepsAcyclic == \A t \in Rows : t \notin Upstream(deps[t])

\* A task that is ready for work ends up approved, done, with a human or
\* replaced: rejections, lost leases and hand-backs do not go round for ever.
ReworkTerminates ==
  \A t \in TaskIds :
    kind[t] = "implement" /\ state[t] = "ready" ~>
      state[t] \in {"approved", "done", "blocked", "superseded"}

-----------------------------------------------------------------------------
(* Why approvals, reservations and claims hold: an inductive invariant *)

\* Rows are blank until they are inserted.
BlankRows ==
  \A t \in TaskIds :
    /\ t > used => state[t] = "absent"
    /\ state[t] = "absent" => target[t] = 0 /\ round[t] = 0 /\ links[t] = {}

\* A review or merge row belongs to work that has been submitted, and to no
\* other review or merge.
TargetsAreWork ==
  \A c \in TaskIds :
    target[c] # 0 =>
      /\ kind[c] # "implement" /\ kind[target[c]] = "implement"
      /\ round[target[c]] > 0 /\ state[target[c]] # "absent"

SubmittedIsWork ==
  \A t \in TaskIds :
    /\ links[t] # {} => kind[t] = "implement"
    /\ kind[t] = "implement" /\ state[t] = "review" => round[t] > 0

\* Everything the approvals, the reservations and the claims of the board rest on:
\* rows of a round, once voted on or withdrawn, belong to it for good.
BoardInv ==
  /\ BlankRows /\ TargetsAreWork /\ SubmittedIsWork
  /\ ApprovedIsUnanimous /\ ReservationPinsApproval /\ ClaimedIsReclaimable
=============================================================================
