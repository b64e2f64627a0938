--------------------------- MODULE ResearchRounds ---------------------------
(***************************************************************************)
(* Review rounds of research work (the research track of internal/store):   *)
(* findings instead of votes decide a round, workers dispute findings,      *)
(* an adjudicator rules on what is disputed and maintained, rejected rounds  *)
(* are counted over a whole chain of supersessions, and what does not block  *)
(* becomes a follow-up.                                                     *)
(*                                                                         *)
(* Board models claims, leases and reviewers of a round; here a review is    *)
(* claimed and submitted in one step and the reviewers of a task are fixed.  *)
(* The reports of one finding over the rounds, which the code links by       *)
(* prior_id, are the rows of one element of Findings.                       *)
(***************************************************************************)
EXTENDS Integers, Sequences, FiniteSets

CONSTANTS
  Reviewers,
  Findings, RaisedBy,   \* what there is to find, and who raises it
  Environments,         \* severities, configuration, and what operators do how often
  MaxTasks, MaxRound    \* bounds: tasks of a supersession chain, rounds of a task

ASSUME ResearchConstants ==
  /\ RaisedBy \in [Findings -> Reviewers]
  /\ MaxTasks \in Nat \ {0} /\ MaxRound \in Nat \ {0}
  /\ \A e \in Environments :
       /\ e.severe \subseteq Findings /\ e.acts \in Nat
       /\ e.budget \in Nat \ {0} /\ e.maxRounds \in Int   \* parseResearchRoundBudget, ODONIAN_MAX_REVIEW_ROUNDS
       /\ \A tier \in DOMAIN e.thresholds : e.thresholds[tier] \in Nat

VARIABLES
  env, acts,            \* the environment, and how often operators may still act
  task,                 \* the chain of tasks, each superseded by the next
  votes,                \* the reviewers whose review of a round is in
  report,               \* what the reviews of a round say of each finding
  disputed,             \* the findings the worker of a task disputed
  ruling,               \* the adjudications of a task
  rejections,           \* the research_round_rejected events, over the chain
  followUps             \* the findings of a task that have a follow-up

vars == <<env, acts, task, votes, report, disputed, ruling, rejections, followUps>>

TaskIds == 1..MaxTasks
Rounds == 1..MaxRound
States == {"absent", "backlog", "ready", "in_progress", "review", "approved", "blocked", "superseded"}
Active == {"backlog", "ready", "in_progress", "review", "approved"}
Statuses == {"none", "new", "still_open", "resolved"}
Rulings == {"none", "open", "failed", "upheld", "overturned"}
Severe == env.severe    \* the findings of severity P1 or P2

Absent == [state |-> "absent", round |-> 0, held |-> FALSE, tier |-> 1]
Silent == [status |-> "none", changed |-> FALSE]
Resolved == [status |-> "resolved", changed |-> FALSE]

Init ==
  /\ env \in Environments /\ acts = env.acts
  /\ task = [g \in TaskIds |-> IF g = 1 THEN [Absent EXCEPT !.state = "ready"] ELSE Absent]
  /\ votes = [g \in TaskIds |-> [n \in Rounds |-> {}]]
  /\ report = [g \in TaskIds |-> [n \in Rounds |-> [f \in Findings |-> Silent]]]
  /\ disputed = [g \in TaskIds |-> {}]
  /\ ruling = [g \in TaskIds |-> [f \in Findings |-> "none"]]
  /\ rejections = <<>>
  /\ followUps = [g \in TaskIds |-> {}]

Spend(act) == act \in env.may /\ acts > 0 /\ acts' = acts - 1

-----------------------------------------------------------------------------
(* What findings do to a round.  rep holds the reports of one task, rul its adjudications. *)

\* isBlockingResearchFinding: the report r of f in round n.
IsBlockingInChange(r, f, n) ==   \* a mutant: the status is not looked at
  r.status # "resolved" /\ r.status # "none" /\ f \in Severe /\ (r.changed \/ n = 1)
IsBlocking(r, f, n) ==
  /\ r.status \in {"new", "still_open"} /\ f \in Severe
  /\ r.changed \/ n = 1 \/ r.status = "still_open"
Blocking(rep, n) == {f \in Findings : IsBlocking(rep[n][f], f, n)}

\* A report is outstanding unless it, or a later one of the same finding, says resolved.
Outstanding(rep, f, m, n) ==
  rep[m][f].status # "none" /\ \A k \in m..n : rep[k][f].status # "resolved"
NonBlockingMinor(r, f, m) == f \notin Severe   \* a mutant
NonBlocking(r, f, m) == f \notin Severe \/ (~r.changed /\ m > 1)
FollowUpsDue(rep, n) ==
  {f \in Findings : \E m \in 1..n : Outstanding(rep, f, m, n) /\ NonBlocking(rep[m][f], f, m)}

\* Of the findings that block, those the worker disputed go to the adjudicator, whose ruling
\* counts for every later round; without an adjudicator they block like any other.
Spawned(g, rep, rul, n) ==
  {f \in Blocking(rep, n) \cap disputed[g] : env.adjudicator /\ rul[f] = "none"}
PendingNew(g, rep, rul, n) == Spawned(g, rep, rul, n)   \* a mutant
PendingUpheld(g, rep, rul, n) ==                        \* a mutant
  Spawned(g, rep, rul, n)
    \cup {f \in Blocking(rep, n) \cap disputed[g] : rul[f] \in {"open", "failed", "upheld"}}
Pending(g, rep, rul, n) ==
  Spawned(g, rep, rul, n)
    \cup {f \in Blocking(rep, n) \cap disputed[g] : rul[f] \in {"open", "failed"}}
Standing(g, rep, rul, n) == Blocking(rep, n) \ {f \in disputed[g] : rul[f] = "overturned"}

\* countChainWideRejectedRounds: the events of the task and of those it superseded.
RejectedOfTask(rs, g) == Cardinality({i \in DOMAIN rs : rs[i].task = g})   \* a mutant
RejectedInChain(rs, g) == Cardinality({i \in DOMAIN rs : rs[i].task <= g})

\* researchThresholdFor, and the tier a task escalates to.
Threshold(tier) == IF tier \in DOMAIN env.thresholds THEN env.thresholds[tier] ELSE env.maxRounds
HasNextTier(tier) == tier < env.tiers

\* supersedeTaskTx: the reviews and adjudications of the task it retires stay.  A task that
\* such a review brought back is not superseded a second time here.
Supersede(tk, g, state, tier) ==
  /\ g < MaxTasks /\ tk[g + 1] = Absent /\ tk[g].state \in Active \cup {"blocked"}
  /\ task' = [tk EXCEPT ![g].state = "superseded",
                        ![g + 1] = [Absent EXCEPT !.state = state, !.tier = tier]]

\* A round that passes; its follow-ups are created with it.
Pass(tk, g, rep) ==
  /\ task' = [tk EXCEPT ![g].state = "approved"]
  /\ followUps' = [followUps EXCEPT ![g] = @ \cup FollowUpsDue(rep, tk[g].round)]
  /\ UNCHANGED rejections

\* A round that fails is counted first; the budget goes before the circuit breaker.
Fail(tk, g) ==
  LET rs == Append(rejections, [task |-> g, round |-> tk[g].round])
      spent == RejectedInChain(rs, g) >= env.budget
      tripped == tk[g].round > Threshold(tk[g].tier)
      escalates == ~spent /\ tripped /\ HasNextTier(tk[g].tier)
  IN /\ rejections' = rs /\ UNCHANGED followUps
     /\ \/ escalates /\ Supersede(tk, g, "ready", tk[g].tier + 1)
        \/ ~escalates /\ task' = [tk EXCEPT ![g].state = IF spent \/ tripped THEN "blocked" ELSE "ready"]

\* aggregateReviewRound, with the tasks, reviews, reports and rulings of the step that calls it.
RoundFull(tk, g, vs) == tk[g].round > 0 /\ vs[tk[g].round] = Reviewers
Decidable(tk, g, vs) == ~tk[g].held /\ tk[g].state # "blocked" /\ RoundFull(tk, g, vs)
Aggregate(tk, g, vs, rep, rul) ==
  LET n == tk[g].round
      spawned == IF Decidable(tk, g, vs) THEN Spawned(g, rep, rul, n) ELSE {}
      decided == Decidable(tk, g, vs) /\ Pending(g, rep, rul, n) = {}
  IN /\ ruling' = [ruling EXCEPT ![g] = [f \in Findings |-> IF f \in spawned THEN "open" ELSE rul[f]]]
     /\ \/ decided /\ Standing(g, rep, rul, n) = {} /\ Pass(tk, g, rep)
        \/ decided /\ Standing(g, rep, rul, n) # {} /\ Fail(tk, g)
        \/ ~decided /\ task' = tk /\ UNCHANGED <<rejections, followUps>>

-----------------------------------------------------------------------------
(* The worker, the reviewers, the adjudicator *)

ClaimTask(g) ==
  /\ task[g].state = "ready" /\ ~task[g].held
  /\ task' = [task EXCEPT ![g].state = "in_progress"]
  /\ UNCHANGED <<env, acts, votes, report, disputed, ruling, rejections, followUps>>

\* A rework may dispute what the round before reported, each finding once.
Disputable(g) ==
  IF task[g].round = 0 THEN {}
  ELSE {f \in Findings \ disputed[g] : report[g][task[g].round][f].status # "none"}
SubmitWork(g, ds) ==
  /\ task[g].state = "in_progress" /\ task[g].round < MaxRound
  /\ ds \subseteq Disputable(g)
  /\ task' = [task EXCEPT ![g].state = "review", ![g].round = @ + 1]
  /\ disputed' = [disputed EXCEPT ![g] = @ \cup ds]
  /\ UNCHANGED <<env, acts, votes, report, ruling, rejections, followUps>>

\* A reviewer reports each of its earlier findings again, as still open or resolved, and may
\* add new ones.  Whether what is resolved was in changed text is not read anywhere.
MayReport(g, n, f) ==
  IF \E m \in 1..(n - 1) : report[g][m][f].status # "none"
  THEN [status : {"still_open"}, changed : env.texts] \cup {Resolved}
  ELSE [status : {"new"}, changed : env.texts] \cup {Silent}
OwnFindings(rv) == {f \in Findings : RaisedBy[f] = rv}
Says(g, n, rv) ==
  {said \in [OwnFindings(rv) -> UNION {MayReport(g, n, f) : f \in Findings}] :
     \A f \in OwnFindings(rv) : said[f] \in MayReport(g, n, f)}
SubmitReview(g, n, rv, said) ==
  LET old == report[g][n]
      vs == [votes[g] EXCEPT ![n] = @ \cup {rv}]
      rep == [report[g] EXCEPT ![n] = [f \in Findings |-> IF RaisedBy[f] = rv THEN said[f] ELSE old[f]]]
  IN /\ n <= task[g].round /\ rv \notin votes[g][n]
     /\ votes' = [votes EXCEPT ![g] = vs] /\ report' = [report EXCEPT ![g] = rep]
     /\ Aggregate(task, g, vs, rep, ruling[g])
     /\ UNCHANGED <<env, acts, disputed>>

SubmitRuling(g, f, r) ==
  /\ ruling[g][f] = "open"
  /\ Aggregate(task, g, votes[g], report[g], [ruling[g] EXCEPT ![f] = r])
  /\ UNCHANGED <<env, acts, votes, report, disputed>>

-----------------------------------------------------------------------------
(* Operators *)

HoldTask(g) ==
  /\ Spend("hold") /\ task[g].state \in Active /\ ~task[g].held
  /\ task' = [task EXCEPT ![g].held = TRUE]
  /\ UNCHANGED <<env, votes, report, disputed, ruling, rejections, followUps>>

\* A release decides a task in review whose round is complete.
DecidesAnywhere(g) == RoundFull(task, g, votes[g])   \* a mutant
DecidesOnRelease(g) == task[g].state = "review" /\ RoundFull(task, g, votes[g])
ReleaseTask(g) ==
  LET released == [task EXCEPT ![g].held = FALSE]
  IN /\ task[g].held
     /\ \/ DecidesOnRelease(g) /\ Aggregate(released, g, votes[g], report[g], ruling[g])
        \/ ~DecidesOnRelease(g) /\ task' = released /\ UNCHANGED <<ruling, rejections, followUps>>
     /\ UNCHANGED <<env, acts, votes, report, disputed>>

\* An operator blocks a task, or sends a blocked or an approved one back to work.
Transition(g, to) ==
  /\ \/ to = "blocked" /\ task[g].state \in Active /\ Spend("block")
     \/ to = "ready" /\ task[g].state = "blocked" /\ Spend("block")
     \/ to = "ready" /\ task[g].state = "approved" /\ Spend("bounce")
  /\ task' = [task EXCEPT ![g].state = to]
  /\ UNCHANGED <<env, votes, report, disputed, ruling, rejections, followUps>>

SupersedeTask(g) ==
  /\ Spend("supersede") /\ Supersede(task, g, "backlog", task[g].tier)
  /\ UNCHANGED <<env, votes, report, disputed, ruling, rejections, followUps>>

PromoteTask(g) ==
  /\ task[g].state = "backlog"
  /\ task' = [task EXCEPT ![g].state = "ready"]
  /\ UNCHANGED <<env, acts, votes, report, disputed, ruling, rejections, followUps>>

\* An operator fails an adjudication: its round waits for it for ever.
FailAdjudication(g, f) ==
  /\ Spend("fail") /\ ruling[g][f] = "open"
  /\ ruling' = [ruling EXCEPT ![g][f] = "failed"]
  /\ UNCHANGED <<env, task, votes, report, disputed, rejections, followUps>>

Operate(g) ==
  \/ HoldTask(g) \/ ReleaseTask(g)
  \/ \E to \in {"blocked", "ready"} : Transition(g, to)
  \/ SupersedeTask(g) \/ PromoteTask(g)
  \/ \E f \in Findings : FailAdjudication(g, f)

Work(g) == ClaimTask(g) \/ \E ds \in SUBSET Disputable(g) : SubmitWork(g, ds)
Review(g, rv) == \E n \in Rounds : \E said \in Says(g, n, rv) : SubmitReview(g, n, rv, said)
Adjudicate(g) == \E f \in Findings, r \in {"upheld", "overturned"} : SubmitRuling(g, f, r)

Next ==
  \E g \in TaskIds :
    Work(g) \/ Adjudicate(g) \/ Operate(g) \/ \E rv \in Reviewers : Review(g, rv)

\* Some worker, reviewer or adjudicator claims what is ready, and operators promote the task
\* that replaces another; nothing else is promised.
Fairness ==
  WF_vars(\E g \in TaskIds :
            Work(g) \/ Adjudicate(g) \/ PromoteTask(g) \/ \E rv \in Reviewers : Review(g, rv))

Spec == Init /\ [][Next]_vars /\ Fairness

-----------------------------------------------------------------------------
(* Properties *)

Approved(g) == task[g].state = "approved"
Never(acted) == acted \cap env.may = {}

\* An approved task has the word of every reviewer on its last round, and nothing that was
\* found to matter stands: a severe finding of that round is resolved, was overturned, or
\* is new in text the rework did not touch.  Late reviews, late rulings and releases of a
\* hold decide rounds too (aggregateReviewRound).
ApprovedIsClean ==
  \A g \in TaskIds : Approved(g) =>
    /\ votes[g][task[g].round] = Reviewers
    /\ \A f \in Severe :
         LET r == report[g][task[g].round][f]
         IN \/ r.status \in {"none", "resolved"} \/ ruling[g][f] = "overturned"
            \/ r.status = "new" /\ ~r.changed /\ task[g].round > 1

\* The budget bounds the rounds that are rejected in a chain of supersessions, however it
\* escalates: once it is spent the chain stops, and each act of an operator buys at most one
\* more round.  (A task superseded by hand can still be decided by its late reviews.)
BudgetHolds ==
  Never({"supersede"}) =>
    /\ Len(rejections) <= env.budget + (env.acts - acts)
    /\ acts = env.acts /\ Len(rejections) = env.budget =>
         \A g \in TaskIds : task[g].state \in {"absent", "blocked", "superseded"}

\* A round is rejected for a severe finding that blocks it, and a disputed one is rejected
\* for only after the adjudicator, if there is one, has upheld it.
RejectedForCause ==
  [][Len(rejections') > Len(rejections) =>
       LET last == rejections'[Len(rejections')]
           said == report'[last.task][last.round]
           ruled == ruling'[last.task]
       IN /\ \E f \in Severe : said[f].status \in {"new", "still_open"} /\ ruled[f] # "overturned"
          /\ \A f \in Severe \cap disputed[last.task] :
               said[f].status = "still_open" /\ env.adjudicator => ruled[f] \in {"upheld", "overturned"}]_vars

\* A round is rejected, and counted, at most once (appendResearchRoundRejectedEvent), as long
\* as no operator blocks a task over an open review or adjudication.
RoundsCountOnce ==
  Never({"block"}) =>
    \A i, j \in DOMAIN rejections : rejections[i] = rejections[j] => i = j

\* Nothing a reviewer found gets lost in an approved task: what it did not see resolved was
\* overturned or has its follow-up.  (A round left open by a block can still be reported on.)
NothingLost ==
  Never({"block"}) =>
    \A g \in TaskIds, f \in Findings : Approved(g) /\ ruling[g][f] # "overturned" =>
      \/ f \in followUps[g]
      \/ \A n \in Rounds : report[g][n][f].status # "none" =>
           \E m \in n..MaxRound : report[g][m][f].status = "resolved"

\* Disputes, adjudications and escalations end: a chain comes to rest approved or blocked,
\* unless an operator holds it or fails an adjudication it waits for.
AtRest(g) ==
  \/ task[g].state \in {"absent", "approved", "blocked", "superseded"} \/ task[g].held
  \/ \E f \in Findings : ruling[g][f] = "failed"
ResearchEnds == Never({"block"}) => <>[](\A g \in TaskIds : AtRest(g))
=============================================================================
