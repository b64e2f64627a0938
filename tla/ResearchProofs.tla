---------------------------- MODULE ResearchProofs ----------------------------
(***************************************************************************)
(* What is proved of ResearchRounds for every environment: approved work   *)
(* is clean, a round is rejected only for cause and counted once, nothing  *)
(* that was found is lost, and the budget bounds the chain.                *)
(***************************************************************************)
EXTENDS ResearchRounds, FiniteSetTheorems, TLAPS

TaskFields == {"state", "round", "held", "tier"}
TaskRows(tk) ==
  /\ DOMAIN tk = TaskIds
  /\ \A g \in TaskIds : DOMAIN tk[g] = TaskFields /\ tk[g].round \in 0..MaxRound
Reports(rep) == \A n \in Rounds, f \in Findings : rep[n][f].status \in Statuses

\* Only a disputed finding is ever ruled on.
RoundTypes ==
  /\ env \in Environments /\ TaskRows(task)
  /\ DOMAIN votes = TaskIds /\ \A g \in TaskIds : DOMAIN votes[g] = Rounds
  /\ DOMAIN report = TaskIds /\ \A g \in TaskIds : DOMAIN report[g] = Rounds /\ Reports(report[g])
  /\ disputed \in [TaskIds -> SUBSET Findings]
  /\ ruling \in [TaskIds -> [Findings -> Rulings]]
  /\ \A g \in TaskIds, f \in Findings : ruling[g][f] # "none" => f \in disputed[g]
  /\ rejections \in Seq([task : TaskIds, round : Rounds])

\* What the last round of an approved task looks like.
CleanRound(n, vs, rep, rul) ==
  /\ vs[n] = Reviewers
  /\ \A f \in Severe :
       \/ rep[n][f].status \in {"none", "resolved"} \/ rul[f] = "overturned"
       \/ rep[n][f].status = "new" /\ ~rep[n][f].changed /\ n > 1
CleanInv == \A g \in TaskIds : Approved(g) => task[g].round \in Rounds /\ CleanRound(task[g].round, votes[g], report[g], ruling[g])

-----------------------------------------------------------------------------
(* A round is decided *)

\* The ways a step may end that aggregates a round of g.
Undecided(tk) == task' = tk /\ rejections' = rejections
Passed(tk, g, vs, rep, rul) ==
  /\ task' = [tk EXCEPT ![g].state = "approved"] /\ rejections' = rejections
  /\ tk[g].round \in Rounds /\ vs[tk[g].round] = Reviewers /\ Standing(g, rep, rul, tk[g].round) = {}
Failed(tk, g, rep, rul) ==
  /\ TaskRows(task')
  /\ task'[g].state # "approved"
  /\ \A k \in TaskIds \ {g} : task'[k] = tk[k] \/ task'[k].state # "approved"
  /\ rejections' = Append(rejections, [task |-> g, round |-> tk[g].round])
  /\ tk[g].round \in Rounds
  /\ Pending(g, rep, rul, tk[g].round) = {} /\ Standing(g, rep, rul, tk[g].round) # {}
\* What an aggregation does to the rulings: it opens some of what is disputed.
Opened(g, rul) ==
  /\ ruling' \in [TaskIds -> [Findings -> Rulings]]
  /\ \A k \in TaskIds \ {g} : ruling'[k] = ruling[k]
  /\ \A f \in Findings : ruling'[g][f] = rul[f] \/ (rul[f] = "none" /\ f \in disputed[g] /\ ruling'[g][f] = "open")
LEMMA Aggregated ==
  ASSUME RoundTypes, NEW g \in TaskIds, NEW tk, TaskRows(tk), NEW vs, NEW rep,
         NEW rul \in [Findings -> Rulings], Aggregate(tk, g, vs, rep, rul)
  PROVE  /\ Opened(g, rul)
         /\ Undecided(tk) \/ Passed(tk, g, vs, rep, rul) \/ (Failed(tk, g, rep, rul) /\ ruling'[g] = rul)
<1> DEFINE n == tk[g].round
           spawned == IF Decidable(tk, g, vs) THEN Spawned(g, rep, rul, n) ELSE {}
           decided == Decidable(tk, g, vs) /\ Pending(g, rep, rul, n) = {}
<1>1. /\ ruling' = [ruling EXCEPT ![g] = [f \in Findings |-> IF f \in spawned THEN "open" ELSE rul[f]]]
      /\ \/ decided /\ Standing(g, rep, rul, n) = {} /\ Pass(tk, g, rep)
         \/ decided /\ Standing(g, rep, rul, n) # {} /\ Fail(tk, g)
         \/ ~decided /\ task' = tk /\ UNCHANGED <<rejections, followUps>>
  BY DEF Aggregate
<1>2. \A f \in spawned : f \in disputed[g] /\ rul[f] = "none"
  BY DEF Spawned
<1>3. ruling \in [TaskIds -> [Findings -> Rulings]]
  BY DEF RoundTypes
<1>4. n \in 0..MaxRound /\ (decided => n \in Rounds /\ vs[n] = Reviewers)
  BY ResearchConstants DEF Decidable, RoundFull, Rounds, TaskRows
<1>5. Opened(g, rul)
  <2> HIDE DEF spawned
  <2>1. [f \in Findings |-> IF f \in spawned THEN "open" ELSE rul[f]] \in [Findings -> Rulings]
    BY DEF Rulings
  <2> QED BY <1>1, <1>2, <1>3, <2>1 DEF Opened
<1>6. decided => spawned = {}
  BY DEF Pending
<1>7. CASE decided /\ Standing(g, rep, rul, n) = {} /\ Pass(tk, g, rep)
  BY <1>4, <1>5, <1>7 DEF Pass, Passed
<1>8. CASE decided /\ Standing(g, rep, rul, n) # {} /\ Fail(tk, g)
  <2>1. rejections' = Append(rejections, [task |-> g, round |-> n])
    BY <1>8 DEF Fail
  <2>2. \/ Supersede(tk, g, "ready", tk[g].tier + 1)
        \/ \E s \in {"blocked", "ready"} : task' = [tk EXCEPT ![g].state = s]
    BY <1>8 DEF Fail
  <2>3. /\ TaskRows(task') /\ task'[g].state # "approved"
        /\ \A k \in TaskIds \ {g} : task'[k] = tk[k] \/ task'[k].state # "approved"
    <3>1. CASE Supersede(tk, g, "ready", tk[g].tier + 1)
      <4> DEFINE fresh == [Absent EXCEPT !.state = "ready", !.tier = tk[g].tier + 1]
      <4>1. DOMAIN fresh = TaskFields /\ fresh.round \in 0..MaxRound /\ fresh.state = "ready"
        BY ResearchConstants DEF Absent, TaskFields
      <4>2. task' = [tk EXCEPT ![g].state = "superseded", ![g + 1] = fresh] /\ g + 1 \in TaskIds /\ g + 1 # g
        BY <3>1, ResearchConstants DEF Supersede, TaskIds
      <4> HIDE DEF fresh
      <4> QED BY <4>1, <4>2 DEF TaskRows, TaskFields
    <3>2. CASE \E s \in {"blocked", "ready"} : task' = [tk EXCEPT ![g].state = s]
      BY <3>2 DEF TaskRows, TaskFields
    <3> QED BY <2>2, <3>1, <3>2
  <2>4. ruling'[g] = rul
    <3>1. spawned = {}
      BY <1>6, <1>8
    <3>2. ruling'[g] = [f \in Findings |-> IF f \in spawned THEN "open" ELSE rul[f]]
      BY <1>1, <1>3
    <3> QED BY <3>1, <3>2
  <2> QED BY <1>4, <1>5, <1>8, <2>1, <2>3, <2>4 DEF Failed
<1>9. CASE ~decided /\ task' = tk /\ UNCHANGED <<rejections, followUps>>
  BY <1>5, <1>9 DEF Undecided
<1> QED BY <1>1, <1>7, <1>8, <1>9

-----------------------------------------------------------------------------
(* Types *)

\* The rows and the rulings after an aggregation.
LEMMA AggregateTypes ==
  ASSUME RoundTypes, NEW g \in TaskIds, NEW tk, TaskRows(tk), NEW vs, NEW rep,
         NEW rul \in [Findings -> Rulings], \A f \in Findings : rul[f] # "none" => f \in disputed[g],
         Aggregate(tk, g, vs, rep, rul), disputed' = disputed
  PROVE  /\ TaskRows(task')
         /\ ruling' \in [TaskIds -> [Findings -> Rulings]]
         /\ \A k \in TaskIds, f \in Findings : ruling'[k][f] # "none" => f \in disputed'[k]
         /\ rejections' \in Seq([task : TaskIds, round : Rounds])
<1>1. /\ Opened(g, rul)
      /\ Undecided(tk) \/ Passed(tk, g, vs, rep, rul) \/ (Failed(tk, g, rep, rul) /\ ruling'[g] = rul)
  BY Aggregated
<1>2. TaskRows(task')
  <2>1. CASE Undecided(tk) BY <2>1 DEF Undecided
  <2>2. CASE Passed(tk, g, vs, rep, rul) BY <2>2 DEF Passed, TaskRows, TaskFields
  <2>3. CASE Failed(tk, g, rep, rul) BY <2>3 DEF Failed
  <2> QED BY <1>1, <2>1, <2>2, <2>3
<1>3. /\ ruling' \in [TaskIds -> [Findings -> Rulings]]
      /\ \A k \in TaskIds, f \in Findings : ruling'[k][f] # "none" => f \in disputed'[k]
  BY <1>1 DEF Opened, RoundTypes
<1>4. rejections' \in Seq([task : TaskIds, round : Rounds])
  <2>1. CASE rejections' = rejections BY <2>1 DEF RoundTypes
  <2>2. CASE Failed(tk, g, rep, rul)
    <3>1. [task |-> g, round |-> tk[g].round] \in [task : TaskIds, round : Rounds]
      BY <2>2 DEF Failed
    <3> QED BY <2>2, <3>1 DEF Failed, RoundTypes
  <2> QED BY <1>1, <2>1, <2>2 DEF Undecided, Passed
<1> QED BY <1>2, <1>3, <1>4

\* What a reviewer may say has a status.
LEMMA SaidHasStatus ==
  ASSUME NEW g \in TaskIds, NEW n \in Rounds, NEW rv \in Reviewers, NEW said \in Says(g, n, rv)
  PROVE  \A f \in OwnFindings(rv) : said[f].status \in Statuses
BY DEF Says, MayReport, Silent, Resolved, Statuses

LEMMA InitHolds == Init => RoundTypes /\ CleanInv
<1> SUFFICES ASSUME Init PROVE RoundTypes /\ CleanInv
  OBVIOUS
<1>1. TaskRows(task)
  BY ResearchConstants DEF Init, Absent, TaskRows, TaskFields, TaskIds
<1>2. RoundTypes
  BY <1>1 DEF Init, RoundTypes, Reports, Silent, Statuses, Rulings
<1>3. CleanInv
  BY DEF Init, CleanInv, Approved, Absent
<1> QED BY <1>2, <1>3

\* A review, with the votes and reports of its task as it leaves them.
Reviewed(g, vs, rep) ==
  /\ votes' = [votes EXCEPT ![g] = vs] /\ report' = [report EXCEPT ![g] = rep]
  /\ UNCHANGED <<env, acts, disputed>>

\* The steps that decide rounds, and what they decide them from.
LEMMA ReviewDecides ==
  ASSUME RoundTypes, NEW g \in TaskIds, NEW n \in Rounds, NEW rv \in Reviewers,
         NEW said \in Says(g, n, rv), SubmitReview(g, n, rv, said)
  PROVE  \E vs, rep :
           /\ Reviewed(g, vs, rep) /\ Aggregate(task, g, vs, rep, ruling[g])
           /\ DOMAIN vs = Rounds /\ DOMAIN rep = Rounds /\ Reports(rep)
           /\ rv \notin votes[g][n] /\ \A m \in Rounds \ {n} : vs[m] = votes[g][m] /\ rep[m] = report[g][m]
<1> DEFINE old == report[g][n]
           vs == [votes[g] EXCEPT ![n] = @ \cup {rv}]
           row == [f \in Findings |-> IF RaisedBy[f] = rv THEN said[f] ELSE old[f]]
           rep == [report[g] EXCEPT ![n] = row]
<1>1. \A f \in Findings : row[f].status \in Statuses
  BY SaidHasStatus DEF OwnFindings, RoundTypes, Reports
<1>2. Reviewed(g, vs, rep) /\ Aggregate(task, g, vs, rep, ruling[g]) /\ rv \notin votes[g][n]
  BY DEF SubmitReview, Reviewed
<1>3. DOMAIN vs = Rounds /\ \A m \in Rounds \ {n} : vs[m] = votes[g][m]
  BY DEF RoundTypes
<1>4. DOMAIN report[g] = Rounds /\ Reports(report[g])
  BY DEF RoundTypes
<1> HIDE DEF vs, row
<1>5. DOMAIN rep = Rounds /\ Reports(rep) /\ \A m \in Rounds \ {n} : rep[m] = report[g][m]
  BY <1>1, <1>4 DEF Reports
<1> HIDE DEF rep
<1> QED BY <1>2, <1>3, <1>5

LEMMA TypesKept == RoundTypes /\ [Next]_vars => RoundTypes'
<1> SUFFICES ASSUME RoundTypes, [Next]_vars PROVE RoundTypes'
  OBVIOUS
<1> DEFINE Ruled == \A k \in TaskIds, f \in Findings : ruling[k][f] # "none" => f \in disputed[k]
<1>1. CASE UNCHANGED vars
  BY <1>1 DEF vars, RoundTypes, TaskRows, Reports
<1>2. ASSUME NEW g \in TaskIds, ClaimTask(g) PROVE RoundTypes'
  <2>1. TaskRows(task') BY <1>2 DEF ClaimTask, RoundTypes, TaskRows, TaskFields
  <2> QED BY <1>2, <2>1 DEF ClaimTask, RoundTypes, Reports, TaskRows
<1>3. ASSUME NEW g \in TaskIds, NEW ds \in SUBSET Disputable(g), SubmitWork(g, ds) PROVE RoundTypes'
  <2>1. TaskRows(task')
    BY <1>3, ResearchConstants DEF SubmitWork, RoundTypes, TaskRows, TaskFields
  <2>2. disputed' \in [TaskIds -> SUBSET Findings] /\ \A k \in TaskIds : disputed[k] \subseteq disputed'[k]
    BY <1>3 DEF SubmitWork, RoundTypes, Disputable
  <2> QED BY <1>3, <2>1, <2>2 DEF SubmitWork, RoundTypes, Reports, TaskRows
<1>4. ASSUME NEW g \in TaskIds, NEW n \in Rounds, NEW rv \in Reviewers, NEW said \in Says(g, n, rv),
             SubmitReview(g, n, rv, said)
      PROVE RoundTypes'
  <2>1. PICK vs, rep :
           /\ Reviewed(g, vs, rep) /\ Aggregate(task, g, vs, rep, ruling[g])
           /\ DOMAIN vs = Rounds /\ DOMAIN rep = Rounds /\ Reports(rep)
    BY <1>4, ReviewDecides
  <2>2. /\ TaskRows(task')
        /\ ruling' \in [TaskIds -> [Findings -> Rulings]] /\ Ruled'
        /\ rejections' \in Seq([task : TaskIds, round : Rounds])
    <3>1. ruling[g] \in [Findings -> Rulings] /\ \A f \in Findings : ruling[g][f] # "none" => f \in disputed[g]
      BY DEF RoundTypes
    <3>2. disputed' = disputed /\ TaskRows(task)
      BY <2>1 DEF Reviewed, RoundTypes
    <3> QED BY <2>1, <3>1, <3>2, AggregateTypes
  <2>3. DOMAIN votes' = TaskIds /\ \A k \in TaskIds : DOMAIN votes'[k] = Rounds
    BY <2>1 DEF Reviewed, RoundTypes
  <2>4. DOMAIN report' = TaskIds /\ \A k \in TaskIds : DOMAIN report'[k] = Rounds /\ Reports(report'[k])
    BY <2>1 DEF Reviewed, RoundTypes
  <2> QED BY <2>1, <2>2, <2>3, <2>4 DEF Reviewed, RoundTypes, TaskRows, Reports
<1>5. ASSUME NEW g \in TaskIds, NEW f \in Findings, NEW r \in {"upheld", "overturned"}, SubmitRuling(g, f, r)
      PROVE RoundTypes'
  <2> DEFINE rul == [ruling[g] EXCEPT ![f] = r]
  <2>1. rul \in [Findings -> Rulings] /\ \A h \in Findings : rul[h] # "none" => h \in disputed[g]
    BY <1>5 DEF SubmitRuling, RoundTypes, Rulings
  <2>2. Aggregate(task, g, votes[g], report[g], rul) /\ UNCHANGED <<env, acts, votes, report, disputed>>
    BY <1>5 DEF SubmitRuling
  <2> HIDE DEF rul
  <2>3. /\ TaskRows(task')
        /\ ruling' \in [TaskIds -> [Findings -> Rulings]] /\ Ruled'
        /\ rejections' \in Seq([task : TaskIds, round : Rounds])
    <3>1. disputed' = disputed /\ TaskRows(task)
      BY <2>2 DEF RoundTypes
    <3> QED BY <2>1, <2>2, <3>1, AggregateTypes
  <2> QED BY <2>2, <2>3 DEF RoundTypes, TaskRows, Reports
<1>6. ASSUME NEW g \in TaskIds, HoldTask(g) PROVE RoundTypes'
  <2>1. TaskRows(task') BY <1>6 DEF HoldTask, RoundTypes, TaskRows, TaskFields
  <2> QED BY <1>6, <2>1 DEF HoldTask, RoundTypes, Reports, TaskRows
<1>7. ASSUME NEW g \in TaskIds, ReleaseTask(g) PROVE RoundTypes'
  <2> DEFINE released == [task EXCEPT ![g].held = FALSE]
  <2>1. TaskRows(released) BY DEF RoundTypes, TaskRows, TaskFields
  <2>2. /\ \/ Aggregate(released, g, votes[g], report[g], ruling[g])
           \/ task' = released /\ UNCHANGED <<ruling, rejections>>
        /\ UNCHANGED <<env, acts, votes, report, disputed>>
    BY <1>7 DEF ReleaseTask
  <2> HIDE DEF released
  <2>3. /\ TaskRows(task')
        /\ ruling' \in [TaskIds -> [Findings -> Rulings]] /\ Ruled'
        /\ rejections' \in Seq([task : TaskIds, round : Rounds])
    <3>1. CASE task' = released /\ UNCHANGED <<ruling, rejections>>
      BY <2>1, <2>2, <3>1 DEF RoundTypes
    <3>2. CASE Aggregate(released, g, votes[g], report[g], ruling[g])
      <4>1. ruling[g] \in [Findings -> Rulings] /\ \A f \in Findings : ruling[g][f] # "none" => f \in disputed[g]
        BY DEF RoundTypes
      <4>2. disputed' = disputed
        BY <2>2
      <4> QED BY <2>1, <3>2, <4>1, <4>2, AggregateTypes
    <3> QED BY <2>2, <3>1, <3>2
  <2> QED BY <2>2, <2>3 DEF RoundTypes, TaskRows, Reports
<1>8. ASSUME NEW g \in TaskIds, NEW to \in {"blocked", "ready"}, Transition(g, to) PROVE RoundTypes'
  <2>1. TaskRows(task') BY <1>8 DEF Transition, RoundTypes, TaskRows, TaskFields
  <2> QED BY <1>8, <2>1 DEF Transition, RoundTypes, Reports, TaskRows
<1>9. ASSUME NEW g \in TaskIds, SupersedeTask(g) PROVE RoundTypes'
  <2>1. TaskRows(task')
    <3> DEFINE fresh == [Absent EXCEPT !.state = "backlog", !.tier = task[g].tier]
    <3>1. DOMAIN fresh = TaskFields /\ fresh.round \in 0..MaxRound
      BY ResearchConstants DEF Absent, TaskFields
    <3>2. task' = [task EXCEPT ![g].state = "superseded", ![g + 1] = fresh]
      BY <1>9 DEF SupersedeTask, Supersede
    <3> HIDE DEF fresh
    <3> QED BY <3>1, <3>2 DEF RoundTypes, TaskRows, TaskFields
  <2> QED BY <1>9, <2>1 DEF SupersedeTask, RoundTypes, Reports, TaskRows
<1>10. ASSUME NEW g \in TaskIds, PromoteTask(g) PROVE RoundTypes'
  <2>1. TaskRows(task') BY <1>10 DEF PromoteTask, RoundTypes, TaskRows, TaskFields
  <2> QED BY <1>10, <2>1 DEF PromoteTask, RoundTypes, Reports, TaskRows
<1>11. ASSUME NEW g \in TaskIds, NEW f \in Findings, FailAdjudication(g, f) PROVE RoundTypes'
  BY <1>11 DEF FailAdjudication, RoundTypes, Reports, TaskRows, Rulings
<1> QED
  BY <1>1, <1>2, <1>3, <1>4, <1>5, <1>6, <1>7, <1>8, <1>9, <1>10, <1>11
     DEF Next, Work, Adjudicate, Operate, Review

-----------------------------------------------------------------------------
(* Approved work is clean *)

\* An overturned finding stays overturned, so a clean round stays clean.
LEMMA StaysClean ==
  ASSUME NEW n, NEW vs, NEW rep, NEW rul, NEW ruled, CleanRound(n, vs, rep, rul), RoundTypes,
         \A f \in Findings : rul[f] = "overturned" => ruled[f] = "overturned"
  PROVE  CleanRound(n, vs, rep, ruled)
BY ResearchConstants DEF CleanRound, RoundTypes, Severe

\* A round that passes leaves nothing severe standing.
LEMMA PassedIsClean ==
  ASSUME RoundTypes, NEW g \in TaskIds, NEW tk, NEW vs, NEW rep, NEW rul \in [Findings -> Rulings],
         Reports(rep), Passed(tk, g, vs, rep, rul)
  PROVE  tk[g].round \in Rounds /\ CleanRound(tk[g].round, vs, rep, rul)
<1>1. tk[g].round \in Rounds /\ vs[tk[g].round] = Reviewers /\ Standing(g, rep, rul, tk[g].round) = {}
  BY DEF Passed
<1> PICK n \in Rounds : n = tk[g].round
  BY <1>1
<1>2. ASSUME NEW f \in Severe, rul[f] # "overturned"
      PROVE rep[n][f].status \in {"none", "resolved"} \/ (rep[n][f].status = "new" /\ ~rep[n][f].changed /\ n > 1)
  <2>1. f \in Findings
    BY ResearchConstants DEF RoundTypes, Severe
  <2>2. ~IsBlocking(rep[n][f], f, n)
    BY <1>1, <1>2, <2>1 DEF Standing, Blocking
  <2>3. rep[n][f].status \in Statuses
    BY <2>1 DEF Reports
  <2>4. CASE rep[n][f].status = "new"
    <3>1. ~rep[n][f].changed /\ n # 1
      BY <2>2, <2>4 DEF IsBlocking
    <3> QED BY <2>4, <3>1, ResearchConstants DEF Rounds
  <2>5. rep[n][f].status # "still_open"
    BY <2>2 DEF IsBlocking
  <2> QED BY <2>3, <2>4, <2>5 DEF Statuses
<1> QED BY <1>1, <1>2 DEF CleanRound

\* A step that aggregates a round of g keeps approved work clean.
LEMMA AggregateClean ==
  ASSUME RoundTypes, CleanInv, NEW g \in TaskIds, NEW tk, TaskRows(tk), NEW vs, NEW rep, Reports(rep),
         NEW rul \in [Findings -> Rulings], Aggregate(tk, g, vs, rep, rul), env' = env,
         \A k \in TaskIds : tk[k].state = task[k].state /\ tk[k].round = task[k].round,
         votes'[g] = vs, report'[g] = rep,
         \A k \in TaskIds \ {g} : votes'[k] = votes[k] /\ report'[k] = report[k],
         Approved(g) => CleanRound(task[g].round, vs, rep, rul)
  PROVE  CleanInv'
<1>1. /\ Opened(g, rul)
      /\ Undecided(tk) \/ Passed(tk, g, vs, rep, rul) \/ Failed(tk, g, rep, rul)
  BY Aggregated
<1>2. \A f \in Findings : rul[f] = "overturned" => ruling'[g][f] = "overturned"
  BY <1>1 DEF Opened
<1>3. ASSUME NEW k \in TaskIds, task'[k].state = "approved"
      PROVE  task'[k].round \in Rounds /\ CleanRound(task'[k].round, votes'[k], report'[k], ruling'[k])
  <2>1. CASE k # g
    <3>1. task'[k] = tk[k]
      BY <1>1, <1>3, <2>1 DEF Undecided, Passed, Failed, TaskRows
    <3>2. Approved(k) /\ task'[k].round = task[k].round
      BY <1>3, <3>1 DEF Approved
    <3>3. votes'[k] = votes[k] /\ report'[k] = report[k] /\ ruling'[k] = ruling[k]
      BY <1>1, <2>1 DEF Opened
    <3> QED BY <3>2, <3>3 DEF CleanInv
  <2>2. CASE k = g /\ Undecided(tk)
    <3>1. Approved(g) /\ task'[g].round = task[g].round
      BY <1>3, <2>2 DEF Undecided, Approved
    <3>2. task[g].round \in Rounds /\ CleanRound(task[g].round, vs, rep, rul)
      BY <3>1 DEF CleanInv
    <3>3. CleanRound(task[g].round, vs, rep, ruling'[g])
      BY <1>2, <3>2, StaysClean
    <3> QED BY <2>2, <3>1, <3>2, <3>3
  <2>3. CASE k = g /\ Passed(tk, g, vs, rep, rul)
    <3>1. tk[g].round \in Rounds /\ CleanRound(tk[g].round, vs, rep, rul)
      BY <2>3, PassedIsClean
    <3>2. CleanRound(tk[g].round, vs, rep, ruling'[g])
      BY <1>2, <3>1, StaysClean
    <3>3. task'[g].round = tk[g].round
      BY <2>3 DEF Passed, TaskRows, TaskFields
    <3> QED BY <2>3, <3>1, <3>2, <3>3
  <2>4. CASE k = g /\ Failed(tk, g, rep, rul)
    BY <1>3, <2>4 DEF Failed
  <2> QED BY <1>1, <2>1, <2>2, <2>3, <2>4
<1> QED BY <1>3 DEF CleanInv, Approved, CleanRound, Severe

\* A step that decides nothing and approves nothing.
LEMMA IdleIsClean ==
  ASSUME RoundTypes, CleanInv, UNCHANGED <<env, votes, report>>,
         \A k \in TaskIds : task'[k].state = "approved" =>
           task[k].state = "approved" /\ task'[k].round = task[k].round,
         \A k \in TaskIds, f \in Findings : ruling[k][f] = "overturned" => ruling'[k][f] = "overturned"
  PROVE  CleanInv'
<1>1. ASSUME NEW k \in TaskIds, task'[k].state = "approved"
      PROVE  task'[k].round \in Rounds /\ CleanRound(task'[k].round, votes'[k], report'[k], ruling'[k])
  <2>1. task[k].round \in Rounds /\ CleanRound(task[k].round, votes[k], report[k], ruling[k])
    BY <1>1 DEF CleanInv, Approved
  <2>2. CleanRound(task[k].round, votes[k], report[k], ruling'[k])
    BY <2>1, StaysClean
  <2> QED BY <1>1, <2>1, <2>2
<1> QED BY <1>1 DEF CleanInv, Approved, CleanRound, Severe

LEMMA CleanKept == RoundTypes /\ CleanInv /\ [Next]_vars => CleanInv'
<1> SUFFICES ASSUME RoundTypes, CleanInv, [Next]_vars PROVE CleanInv'
  OBVIOUS
<1> DEFINE Idle ==
      /\ UNCHANGED <<env, votes, report>>
      /\ \A k \in TaskIds : task'[k].state = "approved" =>
           task[k].state = "approved" /\ task'[k].round = task[k].round
      /\ \A k \in TaskIds, f \in Findings : ruling[k][f] = "overturned" => ruling'[k][f] = "overturned"
<1>0. Idle => CleanInv'
  BY IdleIsClean
<1>1. CASE UNCHANGED vars
  BY <1>0, <1>1 DEF vars
<1>2. ASSUME NEW g \in TaskIds, ClaimTask(g) PROVE Idle
  BY <1>2 DEF ClaimTask, RoundTypes, TaskRows, TaskFields
<1>3. ASSUME NEW g \in TaskIds, NEW ds \in SUBSET Disputable(g), SubmitWork(g, ds) PROVE Idle
  BY <1>3 DEF SubmitWork, RoundTypes, TaskRows, TaskFields
<1>4. ASSUME NEW g \in TaskIds, NEW n \in Rounds, NEW rv \in Reviewers, NEW said \in Says(g, n, rv),
             SubmitReview(g, n, rv, said)
      PROVE CleanInv'
  <2>1. PICK vs, rep :
           /\ Reviewed(g, vs, rep) /\ Aggregate(task, g, vs, rep, ruling[g])
           /\ DOMAIN vs = Rounds /\ DOMAIN rep = Rounds /\ Reports(rep)
           /\ rv \notin votes[g][n] /\ \A m \in Rounds \ {n} : vs[m] = votes[g][m] /\ rep[m] = report[g][m]
    BY <1>4, ReviewDecides
  <2>2. Approved(g) => CleanRound(task[g].round, vs, rep, ruling[g])
    <3> SUFFICES ASSUME Approved(g) PROVE CleanRound(task[g].round, vs, rep, ruling[g])
      OBVIOUS
    <3>1. task[g].round \in Rounds /\ CleanRound(task[g].round, votes[g], report[g], ruling[g])
      BY DEF CleanInv
    <3>2. task[g].round # n
      BY <2>1, <3>1 DEF CleanRound
    <3> QED BY <2>1, <3>1, <3>2 DEF CleanRound
  <2>3. /\ votes'[g] = vs /\ report'[g] = rep /\ env' = env
        /\ \A k \in TaskIds \ {g} : votes'[k] = votes[k] /\ report'[k] = report[k]
    BY <2>1 DEF Reviewed, RoundTypes
  <2>4. TaskRows(task) /\ ruling[g] \in [Findings -> Rulings]
    BY DEF RoundTypes
  <2> QED BY <2>1, <2>2, <2>3, <2>4, AggregateClean
<1>5. ASSUME NEW g \in TaskIds, NEW f \in Findings, NEW r \in {"upheld", "overturned"}, SubmitRuling(g, f, r)
      PROVE CleanInv'
  <2> DEFINE rul == [ruling[g] EXCEPT ![f] = r]
  <2>1. /\ rul \in [Findings -> Rulings]
        /\ \A h \in Findings : ruling[g][h] = "overturned" => rul[h] = "overturned"
    BY <1>5 DEF SubmitRuling, RoundTypes, Rulings
  <2>2. Aggregate(task, g, votes[g], report[g], rul) /\ UNCHANGED <<env, acts, votes, report, disputed>>
    BY <1>5 DEF SubmitRuling
  <2> HIDE DEF rul
  <2>3. Approved(g) => CleanRound(task[g].round, votes[g], report[g], rul)
    <3>1. Approved(g) => CleanRound(task[g].round, votes[g], report[g], ruling[g])
      BY DEF CleanInv
    <3> QED BY <2>1, <3>1, StaysClean
  <2>4. TaskRows(task) /\ Reports(report[g])
    BY DEF RoundTypes
  <2> QED BY <2>1, <2>2, <2>3, <2>4, AggregateClean
<1>6. ASSUME NEW g \in TaskIds, HoldTask(g) PROVE Idle
  BY <1>6 DEF HoldTask, RoundTypes, TaskRows, TaskFields
<1>7. ASSUME NEW g \in TaskIds, ReleaseTask(g) PROVE CleanInv'
  <2> DEFINE released == [task EXCEPT ![g].held = FALSE]
  <2>1. /\ TaskRows(released)
        /\ \A k \in TaskIds : released[k].state = task[k].state /\ released[k].round = task[k].round
    BY DEF RoundTypes, TaskRows, TaskFields
  <2>2. /\ \/ Aggregate(released, g, votes[g], report[g], ruling[g])
           \/ task' = released /\ UNCHANGED <<ruling, rejections>>
        /\ UNCHANGED <<env, acts, votes, report, disputed>>
    BY <1>7 DEF ReleaseTask
  <2> HIDE DEF released
  <2>3. CASE task' = released /\ UNCHANGED <<ruling, rejections>>
    BY <1>0, <2>1, <2>2, <2>3
  <2>4. CASE Aggregate(released, g, votes[g], report[g], ruling[g])
    <3>1. Approved(g) => CleanRound(task[g].round, votes[g], report[g], ruling[g])
      BY DEF CleanInv
    <3>2. ruling[g] \in [Findings -> Rulings] /\ Reports(report[g])
      BY DEF RoundTypes
    <3> QED BY <2>1, <2>2, <2>4, <3>1, <3>2, AggregateClean
  <2> QED BY <2>2, <2>3, <2>4
<1>8. ASSUME NEW g \in TaskIds, NEW to \in {"blocked", "ready"}, Transition(g, to) PROVE Idle
  BY <1>8 DEF Transition, RoundTypes, TaskRows, TaskFields
<1>9. ASSUME NEW g \in TaskIds, SupersedeTask(g) PROVE Idle
  <2> DEFINE fresh == [Absent EXCEPT !.state = "backlog", !.tier = task[g].tier]
  <2>1. fresh.state = "backlog"
    BY DEF Absent
  <2>2. task' = [task EXCEPT ![g].state = "superseded", ![g + 1] = fresh]
    BY <1>9 DEF SupersedeTask, Supersede
  <2> HIDE DEF fresh
  <2>3. \A k \in TaskIds : task'[k].state = "approved" => task'[k] = task[k]
    BY <2>1, <2>2 DEF RoundTypes, TaskRows, TaskFields
  <2> QED BY <1>9, <2>3 DEF SupersedeTask
<1>10. ASSUME NEW g \in TaskIds, PromoteTask(g) PROVE Idle
  BY <1>10 DEF PromoteTask, RoundTypes, TaskRows, TaskFields
<1>11. ASSUME NEW g \in TaskIds, NEW f \in Findings, FailAdjudication(g, f) PROVE Idle
  BY <1>11 DEF FailAdjudication, RoundTypes
<1> QED
  <2> HIDE DEF Idle
  <2> QED BY <1>0, <1>1, <1>2, <1>3, <1>4, <1>5, <1>6, <1>7, <1>8, <1>9, <1>10, <1>11
             DEF Next, Work, Adjudicate, Operate, Review

\* Approved work has every reviewer's word on its last round, and nothing severe stands in
\* it, whatever reviews, rulings and releases come late (aggregateReviewRound).
THEOREM ApprovedIsCleanAlways == Spec => []ApprovedIsClean
<1>1. Init => RoundTypes /\ CleanInv
  BY InitHolds
<1>2. RoundTypes /\ CleanInv /\ [Next]_vars => (RoundTypes /\ CleanInv)'
  BY TypesKept, CleanKept
<1>3. CleanInv => ApprovedIsClean
  BY DEF CleanInv, CleanRound, ApprovedIsClean
<1> QED BY <1>1, <1>2, <1>3, PTL DEF Spec

-----------------------------------------------------------------------------
(* Rounds are rejected for cause *)

\* What is known when an aggregation appends a rejection.
LEMMA CauseOfRejection ==
  ASSUME RoundTypes, NEW g \in TaskIds, NEW tk, TaskRows(tk), NEW vs, NEW rep, Reports(rep),
         NEW rul \in [Findings -> Rulings], \A f \in Findings : rul[f] # "none" => f \in disputed[g],
         Aggregate(tk, g, vs, rep, rul), report'[g] = rep, Len(rejections') > Len(rejections)
  PROVE  LET last == rejections'[Len(rejections')]
             said == report'[last.task][last.round]
             ruled == ruling'[last.task]
         IN /\ \E f \in Severe : said[f].status \in {"new", "still_open"} /\ ruled[f] # "overturned"
            /\ \A f \in Severe \cap disputed[last.task] :
                 said[f].status = "still_open" /\ env.adjudicator => ruled[f] \in {"upheld", "overturned"}
<1>1. rejections \in Seq([task : TaskIds, round : Rounds])
  BY DEF RoundTypes
<1>2. Failed(tk, g, rep, rul) /\ ruling'[g] = rul
  <2>1. Len(rejections) \in Nat
    BY <1>1
  <2>2. rejections' # rejections
    BY <2>1
  <2> QED BY <2>2, Aggregated DEF Undecided, Passed
<1> DEFINE last == [task |-> g, round |-> tk[g].round]
<1>3. rejections'[Len(rejections')] = last /\ last.round \in Rounds
  <2>1. last \in [task : TaskIds, round : Rounds] /\ rejections' = Append(rejections, last)
    BY <1>2 DEF Failed
  <2> HIDE DEF last
  <2> QED BY <1>1, <2>1
<1> DEFINE n == tk[g].round
<1>4. PICK f \in Standing(g, rep, rul, n) : TRUE
  BY <1>2 DEF Failed
<1>5. f \in Severe /\ rep[n][f].status \in {"new", "still_open"} /\ rul[f] # "overturned"
  BY <1>4 DEF Standing, Blocking, IsBlocking
<1>6. ASSUME NEW h \in Severe \cap disputed[g], rep[n][h].status = "still_open", env.adjudicator
      PROVE  rul[h] \in {"upheld", "overturned"}
  <2>1. h \in Findings
    BY ResearchConstants DEF RoundTypes, Severe
  <2>2. h \in Blocking(rep, n)
    BY <1>6, <2>1 DEF Blocking, IsBlocking
  <2>3. rul[h] \notin {"none", "open", "failed"}
    BY <1>2, <1>6, <2>1, <2>2 DEF Failed, Pending, Spawned
  <2> QED BY <2>1, <2>3 DEF Rulings
<1> QED BY <1>2, <1>3, <1>5, <1>6

\* A round is rejected, and counted against the budget, only for a severe finding that stands,
\* and for a disputed one only after the adjudicator's ruling (aggregateReviewRound).
THEOREM RejectedForCauseAlways == Spec => RejectedForCause
<1> DEFINE Caused ==
      Len(rejections') > Len(rejections) =>
        LET last == rejections'[Len(rejections')]
            said == report'[last.task][last.round]
            ruled == ruling'[last.task]
        IN /\ \E f \in Severe : said[f].status \in {"new", "still_open"} /\ ruled[f] # "overturned"
           /\ \A f \in Severe \cap disputed[last.task] :
                said[f].status = "still_open" /\ env.adjudicator => ruled[f] \in {"upheld", "overturned"}
<1>1. RoundTypes /\ [Next]_vars => [Caused]_vars
  <2> SUFFICES ASSUME RoundTypes, Next, Len(rejections') > Len(rejections) PROVE Caused
    BY DEF vars
  <2>0. rejections' # rejections
    BY DEF RoundTypes
  <2>1. \A g \in TaskIds : ruling[g] \in [Findings -> Rulings] /\ Reports(report[g]) /\ TaskRows(task)
    BY DEF RoundTypes
  <2>2. \A g \in TaskIds, f \in Findings : ruling[g][f] # "none" => f \in disputed[g]
    BY DEF RoundTypes
  <2>3. ASSUME NEW g \in TaskIds, NEW n \in Rounds, NEW rv \in Reviewers, NEW said \in Says(g, n, rv),
               SubmitReview(g, n, rv, said)
        PROVE Caused
    <3>1. PICK vs, rep :
             Reviewed(g, vs, rep) /\ Aggregate(task, g, vs, rep, ruling[g]) /\ Reports(rep)
      BY <2>3, ReviewDecides
    <3>2. report'[g] = rep
      BY <3>1 DEF Reviewed, RoundTypes
    <3> QED BY <2>1, <2>2, <3>1, <3>2, CauseOfRejection
  <2>4. ASSUME NEW g \in TaskIds, NEW f \in Findings, NEW r \in {"upheld", "overturned"}, SubmitRuling(g, f, r)
        PROVE Caused
    <3> DEFINE rul == [ruling[g] EXCEPT ![f] = r]
    <3>1. rul \in [Findings -> Rulings] /\ \A h \in Findings : rul[h] # "none" => h \in disputed[g]
      BY <2>4 DEF SubmitRuling, RoundTypes, Rulings
    <3>2. Aggregate(task, g, votes[g], report[g], rul) /\ report' = report
      BY <2>4 DEF SubmitRuling
    <3> HIDE DEF rul
    <3> QED BY <2>1, <3>1, <3>2, CauseOfRejection
  <2>5. ASSUME NEW g \in TaskIds, ReleaseTask(g) PROVE Caused
    <3> DEFINE released == [task EXCEPT ![g].held = FALSE]
    <3>1. TaskRows(released)
      BY DEF RoundTypes, TaskRows, TaskFields
    <3>2. Aggregate(released, g, votes[g], report[g], ruling[g]) /\ report' = report
      BY <2>0, <2>5 DEF ReleaseTask
    <3> HIDE DEF released
    <3> QED BY <2>1, <2>2, <3>1, <3>2, CauseOfRejection
  <2>6. ASSUME NEW g \in TaskIds PROVE ~ClaimTask(g)
    BY <2>0 DEF ClaimTask
  <2>7. ASSUME NEW g \in TaskIds, NEW ds \in SUBSET Disputable(g) PROVE ~SubmitWork(g, ds)
    BY <2>0 DEF SubmitWork
  <2>8. ASSUME NEW g \in TaskIds, Operate(g) PROVE ReleaseTask(g)
    BY <2>0, <2>8 DEF Operate, HoldTask, Transition, SupersedeTask, PromoteTask, FailAdjudication
  <2> HIDE DEF Caused
  <2> QED BY <2>3, <2>4, <2>5, <2>6, <2>7, <2>8 DEF Next, Work, Adjudicate, Review
<1>2. Init => RoundTypes
  BY InitHolds
<1>3. RoundTypes /\ [Next]_vars => RoundTypes'
  BY TypesKept
<1> QED BY <1>1, <1>2, <1>3, PTL DEF Spec, RejectedForCause

-----------------------------------------------------------------------------
(* A round is counted once, and what was found in it does not get lost *)

\* The round of task row t is over: every review is in and no ruling is waited for.
Waited == {"open", "failed"}
Over(t, vs, rul) ==
  t.round = 0 \/ (vs[t.round] = Reviewers /\ \A f \in Findings : rul[f] \notin Waited)

\* Without blocks a task leaves its rounds complete behind: nothing is reported beyond
\* its last round, a ruling that is waited for is about a finding that blocks that
\* round, and only a task in review, or retired there, has a round that is not over.
RoundRow(t, vs, rep, rul) ==
  /\ \A m \in Rounds : m < t.round => vs[m] = Reviewers
  /\ \A m \in Rounds : m > t.round => vs[m] = {} /\ \A f \in Findings : rep[m][f].status = "none"
  /\ \A f \in Findings : rul[f] \in Waited =>
       t.round \in Rounds /\ vs[t.round] = Reviewers /\ f \in Blocking(rep, t.round)
  /\ t.state \notin {"review", "superseded"} => Over(t, vs, rul)
\* A reviewer comes back to every finding it reported before.
Followed(vs, rep) ==
  \A n \in Rounds, f \in Findings :
    RaisedBy[f] \in vs[n] /\ (\E m \in Rounds : m < n /\ rep[m][f].status # "none") =>
      rep[n][f].status \in {"still_open", "resolved"}
\* A rejected round is over for good.
Counted(r) ==
  LET t == task[r.task]
  IN /\ r.round <= t.round
     /\ r.round = t.round => t.state # "review" /\ Over(t, votes[r.task], ruling[r.task])
\* Nothing found in an approved task is lost.
Remembered(t, rep, rul, fs) ==
  t.state = "approved" =>
    \A f \in Findings : rul[f] # "overturned" =>
      \/ f \in fs
      \/ \A n \in Rounds : rep[n][f].status # "none" => \E m \in n..MaxRound : rep[m][f].status = "resolved"

CountInv ==
  /\ \A g \in TaskIds :
       /\ RoundRow(task[g], votes[g], report[g], ruling[g]) /\ Followed(votes[g], report[g])
       /\ Remembered(task[g], report[g], ruling[g], followUps[g])
  /\ \A i \in DOMAIN rejections : Counted(rejections[i])
  /\ \A i, j \in DOMAIN rejections : rejections[i] = rejections[j] => i = j
  /\ DOMAIN followUps = TaskIds

\* A round that passes has its follow-ups for all that is not resolved or overturned.
LEMMA PassRemembers ==
  ASSUME RoundTypes, NEW g \in TaskIds, NEW vs, NEW rep, Reports(rep), NEW rul, NEW n \in Rounds,
         vs[n] = Reviewers, Standing(g, rep, rul, n) = {}, Followed(vs, rep),
         \A m \in Rounds : m > n => \A f \in Findings : rep[m][f].status = "none",
         NEW f \in Findings, rul[f] # "overturned", f \notin FollowUpsDue(rep, n),
         NEW m \in Rounds, rep[m][f].status # "none"
  PROVE  \E k \in m..MaxRound : rep[k][f].status = "resolved"
<1> SUFFICES ASSUME \A k \in m..MaxRound : rep[k][f].status # "resolved" PROVE FALSE
  OBVIOUS
<1>0. MaxRound \in Nat /\ m \in 1..n /\ n \in m..MaxRound
  BY ResearchConstants DEF Rounds
<1>1. Outstanding(rep, f, m, n)
  BY <1>0 DEF Outstanding
<1>2. f \in Severe /\ (rep[m][f].changed \/ m = 1)
  BY <1>0, <1>1 DEF FollowUpsDue, NonBlocking
<1>3. rep[n][f].status \in {"new", "still_open"} /\ (m < n => rep[n][f].status = "still_open")
  <2>1. rep[n][f].status # "resolved" /\ rep[n][f].status \in Statuses
    BY <1>0 DEF Reports
  <2>2. m < n => rep[n][f].status \in {"still_open", "resolved"}
    BY ResearchConstants DEF Followed
  <2>3. m = n \/ m < n
    BY <1>0
  <2> QED BY <2>1, <2>2, <2>3 DEF Statuses
<1>4. f \in Blocking(rep, n)
  BY <1>0, <1>2, <1>3 DEF Blocking, IsBlocking
<1> QED BY <1>4 DEF Standing

\* The outcome of an aggregation, with the rows, votes, reports and rulings it reads.
RoundIsIn(tk, g, vs, rep, rul) ==
  /\ tk[g].round \in Rounds /\ vs[tk[g].round] = Reviewers /\ Pending(g, rep, rul, tk[g].round) = {}
  /\ tk[g].state # "blocked" /\ ruling'[g] = rul
Rests(tk) == task' = tk /\ UNCHANGED <<rejections, followUps>>
Passes(tk, g, rep, rul) ==
  /\ task' = [tk EXCEPT ![g].state = "approved"] /\ Standing(g, rep, rul, tk[g].round) = {}
  /\ followUps' = [followUps EXCEPT ![g] = @ \cup FollowUpsDue(rep, tk[g].round)] /\ rejections' = rejections
Rejects(tk, g, rep, rul) == Standing(g, rep, rul, tk[g].round) # {} /\ Fail(tk, g)
Spawns(tk, g, vs, rep, rul) ==
  /\ ruling' \in [TaskIds -> [Findings -> Rulings]]
  /\ \A k \in TaskIds \ {g} : ruling'[k] = ruling[k]
  /\ \A f \in Findings :
       \/ ruling'[g][f] = rul[f]
       \/ /\ ruling'[g][f] = "open" /\ tk[g].round \in Rounds /\ vs[tk[g].round] = Reviewers
          /\ f \in Spawned(g, rep, rul, tk[g].round) /\ f \in Blocking(rep, tk[g].round)
LEMMA AggregateOutcome ==
  ASSUME RoundTypes, NEW g \in TaskIds, NEW tk, TaskRows(tk), NEW vs, NEW rep,
         NEW rul \in [Findings -> Rulings], Aggregate(tk, g, vs, rep, rul)
  PROVE  /\ Spawns(tk, g, vs, rep, rul)
         /\ \/ Rests(tk)
            \/ /\ RoundIsIn(tk, g, vs, rep, rul)
               /\ Passes(tk, g, rep, rul) \/ Rejects(tk, g, rep, rul)
<1> DEFINE n == tk[g].round
           spawned == IF Decidable(tk, g, vs) THEN Spawned(g, rep, rul, n) ELSE {}
           decided == Decidable(tk, g, vs) /\ Pending(g, rep, rul, n) = {}
<1>1. /\ ruling' = [ruling EXCEPT ![g] = [f \in Findings |-> IF f \in spawned THEN "open" ELSE rul[f]]]
      /\ \/ decided /\ Standing(g, rep, rul, n) = {} /\ Pass(tk, g, rep)
         \/ decided /\ Standing(g, rep, rul, n) # {} /\ Fail(tk, g)
         \/ ~decided /\ task' = tk /\ UNCHANGED <<rejections, followUps>>
  BY DEF Aggregate
<1>2. ruling \in [TaskIds -> [Findings -> Rulings]]
  BY DEF RoundTypes
<1>3. n \in 0..MaxRound /\ (Decidable(tk, g, vs) => n \in Rounds /\ vs[n] = Reviewers /\ tk[g].state # "blocked")
  BY ResearchConstants DEF Decidable, RoundFull, Rounds, TaskRows
<1>4. /\ \A f \in spawned : f \in Spawned(g, rep, rul, n) /\ f \in Blocking(rep, n) /\ Decidable(tk, g, vs)
      /\ decided => spawned = {}
  BY DEF Spawned, Pending
<1>5. Spawns(tk, g, vs, rep, rul)
  <2> HIDE DEF spawned
  <2>1. [f \in Findings |-> IF f \in spawned THEN "open" ELSE rul[f]] \in [Findings -> Rulings]
    BY DEF Rulings
  <2> QED BY <1>1, <1>2, <1>3, <1>4, <2>1 DEF Spawns
<1>6. decided => RoundIsIn(tk, g, vs, rep, rul)
  <2> SUFFICES ASSUME decided PROVE RoundIsIn(tk, g, vs, rep, rul)
    OBVIOUS
  <2>1. ruling'[g] = [f \in Findings |-> IF f \in spawned THEN "open" ELSE rul[f]]
    BY <1>1, <1>2
  <2>2. ruling'[g] = rul
    BY <1>4, <2>1
  <2> QED BY <1>3, <2>2 DEF RoundIsIn
<1> HIDE DEF decided, spawned
<1> QED BY <1>1, <1>5, <1>6 DEF Rests, Passes, Rejects, Pass

\* What a rejection leaves of the rows.
FailedRows(tk, g) ==
  /\ TaskRows(task') /\ task'[g].round = tk[g].round /\ task'[g].state \in {"superseded", "blocked", "ready"}
  /\ \A k \in TaskIds \ {g} :
       task'[k] = tk[k] \/ (tk[k] = Absent /\ task'[k].round = 0 /\ task'[k].state = "ready")
LEMMA FailRows ==
  ASSUME NEW g \in TaskIds, NEW tk, TaskRows(tk), Fail(tk, g)
  PROVE  FailedRows(tk, g)
<1>1. \/ Supersede(tk, g, "ready", tk[g].tier + 1)
      \/ \E s \in {"blocked", "ready"} : task' = [tk EXCEPT ![g].state = s]
  BY DEF Fail
<1>2. CASE Supersede(tk, g, "ready", tk[g].tier + 1)
  <2> DEFINE fresh == [Absent EXCEPT !.state = "ready", !.tier = tk[g].tier + 1]
  <2>1. DOMAIN fresh = TaskFields /\ fresh.round = 0 /\ fresh.state = "ready" /\ 0 \in 0..MaxRound
    BY ResearchConstants DEF Absent, TaskFields
  <2>2. /\ task' = [tk EXCEPT ![g].state = "superseded", ![g + 1] = fresh] /\ tk[g + 1] = Absent
        /\ g + 1 \in TaskIds /\ g + 1 # g
    BY <1>2, ResearchConstants DEF Supersede, TaskIds
  <2> HIDE DEF fresh
  <2> QED BY <2>1, <2>2 DEF TaskRows, TaskFields, FailedRows
<1>3. ASSUME NEW s \in {"blocked", "ready"}, task' = [tk EXCEPT ![g].state = s] PROVE FailedRows(tk, g)
  BY <1>3 DEF TaskRows, TaskFields, FailedRows
<1> QED BY <1>1, <1>2, <1>3

\* Only a round that is not over, and was not counted yet, is decided.
LEMMA AggregateCounts ==
  ASSUME RoundTypes, CountInv, NEW g \in TaskIds, NEW tk, TaskRows(tk),
         \A k \in TaskIds : tk[k].state = task[k].state /\ tk[k].round = task[k].round,
         \A k \in TaskIds \ {g} : tk[k] = task[k],
         NEW vs, NEW rep, Reports(rep), NEW rul \in [Findings -> Rulings],
         \A f \in Findings : rul[f] # "none" => f \in disputed[g],
         tk[g].round \in Rounds, tk[g].state \in {"review", "superseded"},
         RoundRow(tk[g], vs, rep, rul), Followed(vs, rep),
         \A i \in DOMAIN rejections : rejections[i] # [task |-> g, round |-> tk[g].round],
         Aggregate(tk, g, vs, rep, rul), votes'[g] = vs, report'[g] = rep,
         \A k \in TaskIds \ {g} : votes'[k] = votes[k] /\ report'[k] = report[k],
         UNCHANGED env
  PROVE  CountInv'
<1> DEFINE n == tk[g].round
           RowHolds(k) == /\ RoundRow(task'[k], votes'[k], report'[k], ruling'[k])
                          /\ Followed(votes'[k], report'[k])
                          /\ Remembered(task'[k], report'[k], ruling'[k], followUps'[k])
           CountHolds(r) == LET t == task'[r.task]
                            IN /\ r.round <= t.round
                               /\ r.round = t.round =>
                                    t.state # "review" /\ Over(t, votes'[r.task], ruling'[r.task])
           e == [task |-> g, round |-> n]
           Entries == [task : TaskIds, round : Rounds]
<1>0. /\ Spawns(tk, g, vs, rep, rul) /\ rejections \in Seq(Entries) /\ DOMAIN followUps = TaskIds
      /\ \A k \in TaskIds : RoundRow(task[k], votes[k], report[k], ruling[k]) /\ Followed(votes[k], report[k])
      /\ \A k \in TaskIds : Remembered(task[k], report[k], ruling[k], followUps[k])
      /\ \A i \in DOMAIN rejections : Counted(rejections[i]) /\ rejections[i] \in Entries
  <2>1. Spawns(tk, g, vs, rep, rul)
    BY AggregateOutcome
  <2>2. rejections \in Seq(Entries)
    BY DEF RoundTypes
  <2>3. \A i \in DOMAIN rejections : rejections[i] \in Entries
    <3> HIDE DEF Entries
    <3> QED BY <2>2
  <2> QED BY <2>1, <2>2, <2>3 DEF CountInv
<1>1. ASSUME \A k \in TaskIds : RowHolds(k), \A i \in DOMAIN rejections' : CountHolds(rejections'[i]),
             \A i, j \in DOMAIN rejections' : rejections'[i] = rejections'[j] => i = j,
             DOMAIN followUps' = TaskIds
      PROVE  CountInv'
  <2>1. \A k \in TaskIds : /\ RoundRow(task[k], votes[k], report[k], ruling[k])'
                           /\ Followed(votes[k], report[k])'
                           /\ Remembered(task[k], report[k], ruling[k], followUps[k])'
    BY <1>1 DEF RoundRow, Followed, Remembered, Over, Blocking, IsBlocking, Severe
  <2>2. \A i \in DOMAIN rejections' : Counted(rejections[i])'
    BY <1>1 DEF Counted, Over
  <2> QED BY <1>1, <2>1, <2>2 DEF CountInv
<1>2. ASSUME RoundIsIn(tk, g, vs, rep, rul), NEW t, t.round = n, t.state # "review" PROVE Over(t, vs, rul)
  <2>1. \A f \in Findings : rul[f] \in Waited => f \in Pending(g, rep, rul, n)
    BY DEF RoundRow, Waited, Pending
  <2> QED BY <1>2, <2>1 DEF RoundIsIn, Over
<1>3. CASE Rests(tk)
  <2>1. RowHolds(g)
    BY <1>0, <1>3 DEF Rests, Spawns, RoundRow, Remembered, Over, Waited
  <2>2. ASSUME NEW k \in TaskIds \ {g} PROVE RowHolds(k)
    BY <1>0, <1>3, <2>2 DEF Rests, Spawns
  <2>3. ASSUME NEW i \in DOMAIN rejections' PROVE CountHolds(rejections'[i])
    <3>1. rejections'[i] = rejections[i] /\ i \in DOMAIN rejections /\ task' = tk
      BY <1>3 DEF Rests
    <3>2. PICK r : r = rejections[i] /\ r \in Entries /\ Counted(r)
      BY <1>0, <3>1
    <3>3. CASE r.task = g
      <4>1. r.round # n
        BY <3>1, <3>2, <3>3
      <4> QED BY <3>1, <3>2, <3>3, <4>1 DEF Counted
    <3>4. CASE r.task # g
      BY <1>0, <3>1, <3>2, <3>4 DEF Counted, Spawns
    <3> QED BY <3>1, <3>2, <3>3, <3>4
  <2>4. DOMAIN followUps' = TaskIds /\ rejections' = rejections
    BY <1>0, <1>3 DEF Rests
  <2> QED BY <1>1, <2>1, <2>2, <2>3, <2>4 DEF CountInv
<1>4. CASE RoundIsIn(tk, g, vs, rep, rul) /\ Passes(tk, g, rep, rul)
  <2>1. /\ task'[g].state = "approved" /\ task'[g].round = n /\ ruling'[g] = rul
        /\ followUps'[g] = followUps[g] \cup FollowUpsDue(rep, n)
        /\ \A k \in TaskIds \ {g} : task'[k] = tk[k] /\ followUps'[k] = followUps[k]
        /\ DOMAIN followUps' = TaskIds /\ rejections' = rejections
    BY <1>0, <1>4 DEF Passes, RoundIsIn, TaskRows, TaskFields
  <2>2. RowHolds(g)
    <3>1. Over(task'[g], vs, rul)
      BY <1>2, <1>4, <2>1
    <3>2. RoundRow(task'[g], vs, rep, rul)
      BY <2>1, <3>1 DEF RoundRow
    <3>3. Remembered(task'[g], rep, rul, followUps'[g])
      <4> SUFFICES ASSUME NEW f \in Findings, rul[f] # "overturned", f \notin FollowUpsDue(rep, n),
                          NEW m \in Rounds, rep[m][f].status # "none"
                   PROVE  \E k \in m..MaxRound : rep[k][f].status = "resolved"
        BY <2>1 DEF Remembered
      <4>1. n \in Rounds /\ vs[n] = Reviewers /\ Standing(g, rep, rul, n) = {}
        BY <1>4 DEF RoundIsIn, Passes
      <4>2. \A k \in Rounds : k > n => \A h \in Findings : rep[k][h].status = "none"
        BY DEF RoundRow
      <4> HIDE DEF n
      <4> QED BY <4>1, <4>2, PassRemembers
    <3> QED BY <2>1, <3>2, <3>3
  <2>3. ASSUME NEW k \in TaskIds \ {g} PROVE RowHolds(k)
    BY <1>0, <2>1, <2>3 DEF Spawns
  <2>4. ASSUME NEW i \in DOMAIN rejections' PROVE CountHolds(rejections'[i])
    <3>1. PICK r : r = rejections[i] /\ r = rejections'[i] /\ r \in Entries /\ Counted(r)
      BY <1>0, <2>1, <2>4
    <3>2. CASE r.task = g
      <4>1. r.round # n
        BY <2>1, <2>4, <3>1, <3>2
      <4> QED BY <2>1, <3>1, <3>2, <4>1 DEF Counted
    <3>3. CASE r.task # g
      BY <1>0, <2>1, <3>1, <3>3 DEF Counted, Spawns
    <3> QED BY <3>1, <3>2, <3>3
  <2> QED BY <1>1, <2>1, <2>2, <2>3, <2>4 DEF CountInv
<1>5. CASE RoundIsIn(tk, g, vs, rep, rul) /\ Rejects(tk, g, rep, rul)
  <2>1. FailedRows(tk, g) /\ rejections' = Append(rejections, e) /\ followUps' = followUps /\ ruling'[g] = rul
    BY <1>5, FailRows DEF Rejects, Fail, RoundIsIn
  <2>2. RowHolds(g)
    <3>1. Over(task'[g], vs, rul)
      BY <1>2, <1>5, <2>1 DEF FailedRows
    <3> QED BY <2>1, <3>1 DEF FailedRows, RoundRow, Remembered
  <2>3. ASSUME NEW k \in TaskIds \ {g} PROVE RowHolds(k)
    <3>1. CASE task'[k] = tk[k]
      BY <1>0, <2>1, <2>3, <3>1 DEF Spawns
    <3>2. CASE tk[k] = Absent /\ task'[k].round = 0 /\ task'[k].state = "ready"
      <4>1. task[k].round = 0 /\ task[k].state = "absent"
        BY <2>3, <3>2 DEF Absent
      <4>2. RoundRow(task[k], votes[k], report[k], ruling[k])
        BY <1>0
      <4>3. RoundRow(task'[k], votes[k], report[k], ruling[k])
        BY <3>2, <4>1, <4>2 DEF RoundRow, Over
      <4> QED BY <1>0, <2>1, <2>3, <3>2, <4>3 DEF Spawns, Remembered
    <3> QED BY <2>1, <2>3, <3>1, <3>2 DEF FailedRows
  <2>4. e \in Entries
    OBVIOUS
  <2>5. /\ DOMAIN rejections' = 1..(Len(rejections) + 1) /\ DOMAIN rejections = 1..Len(rejections)
        /\ Len(rejections) \in Nat /\ rejections'[Len(rejections) + 1] = e
        /\ \A i \in DOMAIN rejections : rejections'[i] = rejections[i]
    <3> HIDE DEF e, Entries
    <3> QED BY <1>0, <2>1, <2>4
  <2>6. ASSUME NEW i \in DOMAIN rejections' PROVE CountHolds(rejections'[i])
    <3>1. CASE i \in DOMAIN rejections
      <4>1. PICK r : r = rejections[i] /\ r = rejections'[i] /\ r \in Entries /\ Counted(r)
        BY <1>0, <2>5, <3>1
      <4>2. CASE r.task = g
        <5>1. r.round # n
          BY <2>6, <3>1, <4>1, <4>2
        <5> QED BY <2>1, <4>1, <4>2, <5>1 DEF Counted, FailedRows
      <4>3. CASE r.task # g
        <5>1. task[r.task].round # 0
          BY <4>1, ResearchConstants DEF Counted, Rounds
        <5>2. task'[r.task] = task[r.task]
          BY <2>1, <4>1, <4>3, <5>1 DEF FailedRows, Absent
        <5> QED BY <1>0, <4>1, <4>3, <5>2 DEF Counted, Spawns
      <4> QED BY <4>1, <4>2, <4>3
    <3>2. CASE i = Len(rejections) + 1
      <4>1. Over(task'[g], vs, rul)
        BY <1>2, <1>5, <2>1 DEF FailedRows
      <4>2. rejections'[i] = e /\ e.task = g /\ e.round = n
        BY <2>5, <3>2
      <4>3. task'[g].round = n /\ task'[g].state # "review" /\ n <= n
        BY <2>1, ResearchConstants DEF FailedRows, Rounds
      <4>4. ASSUME NEW r, r.task = g, r.round = n PROVE CountHolds(r)
        BY <2>1, <4>1, <4>3, <4>4
      <4> HIDE DEF e, CountHolds
      <4> QED BY <4>2, <4>4
    <3> QED BY <2>5, <2>6, <3>1, <3>2
  <2>7. \A i, j \in DOMAIN rejections' : rejections'[i] = rejections'[j] => i = j
    BY <2>5 DEF CountInv
  <2> QED BY <1>0, <1>1, <2>1, <2>2, <2>3, <2>6, <2>7
<1> HIDE DEF RowHolds, CountHolds
<1> QED BY <1>3, <1>4, <1>5, AggregateOutcome

\* A step that decides nothing: rows keep their round, none comes to review, none is approved.
Goes(t, u) ==
  /\ u.round = t.round /\ (u.state = "review" => t.state = "review") /\ (u.state = "approved" => t.state = "approved")
  /\ u.state \in {"review", "superseded"} \/ t.state \notin {"review", "superseded"}
SameRulings(k) ==
  \A f \in Findings :
    /\ (ruling'[k][f] \in Waited <=> ruling[k][f] \in Waited)
    /\ (ruling'[k][f] = "overturned" <=> ruling[k][f] = "overturned")
LEMMA IdleCounts ==
  ASSUME RoundTypes, CountInv, UNCHANGED <<env, votes, report, rejections, followUps>>,
         \A k \in TaskIds : Goes(task[k], task'[k]) /\ SameRulings(k)
  PROVE  CountInv'
<1>1. ASSUME NEW k \in TaskIds
      PROVE  /\ RoundRow(task[k], votes[k], report[k], ruling[k])'
             /\ Followed(votes[k], report[k])' /\ Remembered(task[k], report[k], ruling[k], followUps[k])'
  <2>1. /\ RoundRow(task[k], votes[k], report[k], ruling[k]) /\ Followed(votes[k], report[k])
        /\ Remembered(task[k], report[k], ruling[k], followUps[k])
    BY DEF CountInv
  <2>2. PICK u : u = task'[k] /\ Goes(task[k], u)
    OBVIOUS
  <2>3. PICK rul : rul = ruling'[k] /\ \A f \in Findings :
          /\ (rul[f] \in Waited <=> ruling[k][f] \in Waited)
          /\ (rul[f] = "overturned" <=> ruling[k][f] = "overturned")
    BY DEF SameRulings
  <2>4. RoundRow(u, votes[k], report[k], rul) /\ Remembered(u, report[k], rul, followUps[k])
    BY <2>1, <2>2, <2>3 DEF RoundRow, Over, Goes, Remembered
  <2> QED
    BY <2>1, <2>2, <2>3, <2>4 DEF RoundRow, Followed, Remembered, Over, Blocking, IsBlocking, Severe
<1>2. ASSUME NEW i \in DOMAIN rejections PROVE Counted(rejections[i])'
  <2> DEFINE Entries == [task : TaskIds, round : Rounds]
  <2>1. rejections \in Seq(Entries) BY DEF RoundTypes
  <2>2. PICK r : r = rejections[i] /\ Counted(r) /\ r \in Entries
    <3> HIDE DEF Entries
    <3> QED BY <2>1 DEF CountInv
  <2>3. r.task \in TaskIds /\ Goes(task[r.task], task'[r.task]) /\ SameRulings(r.task)
    BY <2>2
  <2> QED BY <2>2, <2>3 DEF Counted, Goes, Over, SameRulings
<1> QED BY <1>1, <1>2 DEF CountInv

\* Every review is for the last round, which is not over before it.
LEMMA ReviewCounts ==
  ASSUME RoundTypes, CountInv, NEW g \in TaskIds, NEW n \in Rounds, NEW rv \in Reviewers,
         NEW said \in Says(g, n, rv), SubmitReview(g, n, rv, said)
  PROVE  CountInv'
<1> DEFINE t == task[g]
           row == [f \in Findings |-> IF RaisedBy[f] = rv THEN said[f] ELSE report[g][n][f]]
           vs == [votes[g] EXCEPT ![n] = @ \cup {rv}]
           rep == [report[g] EXCEPT ![n] = row]
<1>1. /\ votes' = [votes EXCEPT ![g] = vs] /\ report' = [report EXCEPT ![g] = rep]
      /\ n <= t.round /\ rv \notin votes[g][n] /\ Aggregate(task, g, vs, rep, ruling[g])
      /\ UNCHANGED <<env, acts, disputed>>
  BY DEF SubmitReview
<1>2. /\ RoundRow(t, votes[g], report[g], ruling[g]) /\ Followed(votes[g], report[g])
      /\ t.round \in Nat /\ n \in Nat
  BY ResearchConstants DEF CountInv, RoundTypes, TaskRows, Rounds
<1>3. n = t.round /\ t.round \in Rounds /\ votes[g][t.round] # Reviewers
  BY <1>1, <1>2 DEF RoundRow
<1>4. ~Over(t, votes[g], ruling[g]) /\ t.state \in {"review", "superseded"}
  BY <1>2, <1>3, ResearchConstants DEF RoundRow, Over, Rounds
<1>5. DOMAIN votes[g] = Rounds /\ DOMAIN report[g] = Rounds /\ Reports(report[g])
  BY DEF RoundTypes
<1>6. /\ \A m \in Rounds \ {n} : vs[m] = votes[g][m] /\ rep[m] = report[g][m]
      /\ vs[n] = votes[g][n] \cup {rv} /\ rep[n] = row
  <2> HIDE DEF row
  <2> QED BY <1>5
<1>7. Reports(rep)
  <2>1. \A f \in Findings : row[f].status \in Statuses
    BY <1>5, SaidHasStatus DEF OwnFindings, Reports
  <2> HIDE DEF row, rep
  <2> QED BY <1>5, <1>6, <2>1 DEF Reports
<1>8. \A f \in Findings : RaisedBy[f] # rv => row[f] = report[g][n][f]
  OBVIOUS
<1>9. ASSUME NEW f \in Findings, RaisedBy[f] = rv, NEW m \in Rounds, m < n, report[g][m][f].status # "none"
      PROVE  row[f].status \in {"still_open", "resolved"}
  <2>1. row[f] \in MayReport(g, n, f)
    BY <1>9 DEF Says, OwnFindings
  <2>2. \E k \in 1..(n - 1) : report[g][k][f].status # "none"
    BY <1>9, ResearchConstants DEF Rounds
  <2> HIDE DEF row
  <2> QED BY <2>1, <2>2 DEF MayReport, Resolved
<1>10. /\ votes'[g] = vs /\ report'[g] = rep
       /\ \A k \in TaskIds \ {g} : votes'[k] = votes[k] /\ report'[k] = report[k]
  <2> HIDE DEF vs, rep
  <2> QED BY <1>1 DEF RoundTypes
<1> HIDE DEF row, vs, rep
<1>11. RoundRow(t, vs, rep, ruling[g])
  BY <1>2, <1>3, <1>4, <1>6, ResearchConstants DEF RoundRow, Rounds
<1>12. Followed(vs, rep)
  <2> SUFFICES ASSUME NEW j \in Rounds, NEW f \in Findings, RaisedBy[f] \in vs[j],
                      NEW m \in Rounds, m < j, rep[m][f].status # "none"
               PROVE  rep[j][f].status \in {"still_open", "resolved"}
    BY DEF Followed
  <2>1. CASE j # n
    <3>1. RaisedBy[f] \in votes[g][j] /\ rep[j] = report[g][j] /\ ~(j > t.round)
      BY <1>2, <1>6, <2>1 DEF RoundRow
    <3>2. m # n
      BY <1>2, <1>3, <2>1, <3>1, ResearchConstants DEF Rounds
    <3> QED BY <1>2, <1>6, <3>1, <3>2 DEF Followed
  <2>2. CASE j = n
    <3>1. report[g][m][f].status # "none" /\ m < n
      BY <1>6, <2>2, ResearchConstants DEF Rounds
    <3>2. CASE RaisedBy[f] = rv
      BY <1>6, <1>9, <2>2, <3>1, <3>2
    <3>3. CASE RaisedBy[f] # rv
      <4>1. RaisedBy[f] \in votes[g][n]
        BY <1>6, <2>2, <3>3
      <4> QED BY <1>2, <1>6, <1>8, <2>2, <3>1, <3>3, <4>1 DEF Followed
    <3> QED BY <3>2, <3>3
  <2> QED BY <2>1, <2>2
<1>13. ASSUME NEW i \in DOMAIN rejections PROVE rejections[i] # [task |-> g, round |-> t.round]
  <2>1. PICK r : r = rejections[i] /\ Counted(r)
    BY DEF CountInv
  <2> QED BY <1>4, <2>1 DEF Counted
<1>14. /\ TaskRows(task) /\ ruling[g] \in [Findings -> Rulings]
       /\ \A f \in Findings : ruling[g][f] # "none" => f \in disputed[g]
  BY DEF RoundTypes
<1> QED
  BY <1>1, <1>3, <1>4, <1>7, <1>10, <1>11, <1>12, <1>13, <1>14, AggregateCounts

\* A ruling is only waited for while its round is not over.
LEMMA RulingCounts ==
  ASSUME RoundTypes, CountInv, NEW g \in TaskIds, NEW f \in Findings, NEW r \in {"upheld", "overturned"},
         SubmitRuling(g, f, r)
  PROVE  CountInv'
<1> DEFINE rul == [ruling[g] EXCEPT ![f] = r]
<1>1. /\ rul \in [Findings -> Rulings] /\ \A h \in Findings : rul[h] # "none" => h \in disputed[g]
      /\ \A h \in Findings : rul[h] \in Waited => ruling[g][h] \in Waited
  BY DEF SubmitRuling, RoundTypes, Rulings, Waited
<1>2. ruling[g][f] = "open" /\ Aggregate(task, g, votes[g], report[g], rul) /\ UNCHANGED <<env, acts, votes, report, disputed>>
  BY DEF SubmitRuling
<1> HIDE DEF rul
<1>3. RoundRow(task[g], votes[g], report[g], ruling[g]) /\ Followed(votes[g], report[g])
  BY DEF CountInv
<1>4. /\ task[g].round \in Rounds /\ ~Over(task[g], votes[g], ruling[g])
      /\ task[g].state \in {"review", "superseded"}
  BY <1>2, <1>3, ResearchConstants DEF RoundRow, Over, Waited, Rounds
<1>5. RoundRow(task[g], votes[g], report[g], rul)
  BY <1>1, <1>3, <1>4 DEF RoundRow
<1>6. ASSUME NEW i \in DOMAIN rejections PROVE rejections[i] # [task |-> g, round |-> task[g].round]
  <2>1. PICK e : e = rejections[i] /\ Counted(e)
    BY DEF CountInv
  <2> QED BY <1>4, <2>1 DEF Counted
<1>7. TaskRows(task) /\ Reports(report[g])
  BY DEF RoundTypes
<1>8. /\ votes'[g] = votes[g] /\ report'[g] = report[g] /\ UNCHANGED env
      /\ \A k \in TaskIds \ {g} : votes'[k] = votes[k] /\ report'[k] = report[k]
  BY <1>2
<1> QED BY <1>1, <1>2, <1>3, <1>4, <1>5, <1>6, <1>7, <1>8, AggregateCounts

LEMMA ReleaseCounts ==
  ASSUME RoundTypes, CountInv, NEW g \in TaskIds, ReleaseTask(g)
  PROVE  CountInv'
<1> DEFINE released == [task EXCEPT ![g].held = FALSE]
<1>1. /\ TaskRows(released) /\ \A k \in TaskIds \ {g} : released[k] = task[k]
      /\ \A k \in TaskIds : released[k].state = task[k].state /\ released[k].round = task[k].round
  BY DEF RoundTypes, TaskRows, TaskFields
<1>2. /\ \/ DecidesOnRelease(g) /\ Aggregate(released, g, votes[g], report[g], ruling[g])
         \/ task' = released /\ UNCHANGED <<ruling, rejections, followUps>>
      /\ UNCHANGED <<env, acts, votes, report, disputed>>
  BY DEF ReleaseTask
<1> HIDE DEF released
<1>3. CASE task' = released /\ UNCHANGED <<ruling, rejections, followUps>>
  BY <1>1, <1>2, <1>3, IdleCounts DEF Goes, SameRulings
<1>4. CASE DecidesOnRelease(g) /\ Aggregate(released, g, votes[g], report[g], ruling[g])
  <2>1. released[g].state = "review" /\ released[g].round \in Rounds
    BY <1>1, <1>4, ResearchConstants DEF DecidesOnRelease, RoundFull, RoundTypes, TaskRows, Rounds
  <2>2. RoundRow(task[g], votes[g], report[g], ruling[g]) /\ Followed(votes[g], report[g])
    BY DEF CountInv
  <2>3. RoundRow(released[g], votes[g], report[g], ruling[g])
    <3>1. PICK u : u = released[g] /\ u.state = task[g].state /\ u.round = task[g].round
      BY <1>1
    <3>2. RoundRow(u, votes[g], report[g], ruling[g])
      BY <2>2, <3>1 DEF RoundRow, Over
    <3> QED BY <3>1, <3>2
  <2>4. ASSUME NEW i \in DOMAIN rejections PROVE rejections[i] # [task |-> g, round |-> released[g].round]
    <3>1. PICK e : e = rejections[i] /\ Counted(e)
      BY DEF CountInv
    <3> QED BY <1>1, <2>1, <3>1 DEF Counted
  <2>5. /\ Reports(report[g]) /\ ruling[g] \in [Findings -> Rulings]
        /\ \A f \in Findings : ruling[g][f] # "none" => f \in disputed[g]
    BY DEF RoundTypes
  <2>6. /\ votes'[g] = votes[g] /\ report'[g] = report[g] /\ UNCHANGED env
        /\ \A k \in TaskIds \ {g} : votes'[k] = votes[k] /\ report'[k] = report[k]
    BY <1>2
  <2> QED BY <1>1, <1>4, <2>1, <2>2, <2>3, <2>4, <2>5, <2>6, AggregateCounts
<1> QED BY <1>2, <1>3, <1>4

\* The next round starts when the one before is over.
LEMMA WorkCounts ==
  ASSUME RoundTypes, CountInv, NEW g \in TaskIds, NEW ds, SubmitWork(g, ds)
  PROVE  CountInv'
<1>1. PICK u : /\ task' = [task EXCEPT ![g] = u] /\ u.state = "review" /\ u.round = task[g].round + 1
               /\ task[g].state = "in_progress" /\ u.round \in Rounds /\ task[g].round \in Nat
  <2> DEFINE u == [task[g] EXCEPT !.state = "review", !.round = @ + 1]
  <2>1. task' = [task EXCEPT ![g] = u] /\ task[g].state = "in_progress" /\ task[g].round < MaxRound
    BY DEF SubmitWork
  <2>2. u.state = "review" /\ u.round = task[g].round + 1 /\ task[g].round \in 0..MaxRound
    BY DEF RoundTypes, TaskRows, TaskFields
  <2>3. u.round \in Rounds /\ task[g].round \in Nat
    BY <2>1, <2>2, ResearchConstants DEF Rounds
  <2> HIDE DEF u
  <2> QED BY <2>1, <2>2, <2>3
<1>2. UNCHANGED <<env, acts, votes, report, ruling, rejections, followUps>>
  BY DEF SubmitWork
<1>3. task'[g] = u /\ \A k \in TaskIds \ {g} : task'[k] = task[k]
  BY <1>1 DEF RoundTypes, TaskRows
<1>4. /\ RoundRow(task[g], votes[g], report[g], ruling[g])
      /\ Over(task[g], votes[g], ruling[g])
  BY <1>1 DEF CountInv, RoundRow
<1>5. \A f \in Findings : ruling[g][f] \notin Waited
  BY <1>4, ResearchConstants DEF RoundRow, Over, Rounds
<1>6. RoundRow(u, votes[g], report[g], ruling[g]) /\ Remembered(u, report[g], ruling[g], followUps[g])
  <2>1. ASSUME NEW m \in Rounds, m < u.round PROVE votes[g][m] = Reviewers
    <3>1. m < task[g].round \/ (m = task[g].round /\ m # 0)
      BY <1>1, <2>1, ResearchConstants DEF Rounds
    <3> QED BY <1>4, <3>1 DEF RoundRow, Over
  <2>2. ASSUME NEW m \in Rounds, m > u.round PROVE m > task[g].round
    BY <1>1, <2>2, ResearchConstants DEF Rounds
  <2>3. u.state = "review"
    BY <1>1
  <2>4. Remembered(u, report[g], ruling[g], followUps[g])
    BY <2>3 DEF Remembered
  <2> QED BY <1>4, <1>5, <2>1, <2>2, <2>3, <2>4 DEF RoundRow
<1>7. ASSUME NEW k \in TaskIds
      PROVE  /\ RoundRow(task[k], votes[k], report[k], ruling[k])'
             /\ Followed(votes[k], report[k])' /\ Remembered(task[k], report[k], ruling[k], followUps[k])'
  <2>1. PICK v : v = task'[k] /\ RoundRow(v, votes[k], report[k], ruling[k])
                 /\ Remembered(v, report[k], ruling[k], followUps[k])
    BY <1>3, <1>6 DEF CountInv
  <2>2. Followed(votes[k], report[k])
    BY DEF CountInv
  <2> QED BY <1>2, <2>1, <2>2 DEF RoundRow, Followed, Remembered, Over, Blocking, IsBlocking, Severe
<1>8. ASSUME NEW i \in DOMAIN rejections PROVE Counted(rejections[i])'
  <2> DEFINE Entries == [task : TaskIds, round : Rounds]
  <2>1. rejections \in Seq(Entries) BY DEF RoundTypes
  <2>2. PICK r : r = rejections[i] /\ Counted(r) /\ r \in Entries
    <3> HIDE DEF Entries
    <3> QED BY <2>1 DEF CountInv
  <2>3. r.task = g => r.round < u.round
    BY <1>1, <2>2, ResearchConstants DEF Counted, Rounds
  <2>4. CASE r.task = g
    <3>1. r.round <= u.round /\ r.round # u.round
      BY <1>1, <2>2, <2>3, <2>4, ResearchConstants DEF Rounds
    <3> QED BY <1>2, <1>3, <2>2, <2>4, <3>1 DEF Counted
  <2>5. CASE r.task # g
    <3>1. task'[r.task] = task[r.task]
      BY <1>3, <2>2, <2>5
    <3> HIDE DEF Entries
    <3> QED BY <1>2, <2>2, <3>1 DEF Counted, Over
  <2> QED BY <2>4, <2>5
<1> QED BY <1>2, <1>7, <1>8 DEF CountInv

LEMMA InitCounts == Init => CountInv
BY ResearchConstants
   DEF Init, CountInv, RoundRow, Followed, Remembered, Over, Waited, Absent, Silent, TaskIds, Rounds

LEMMA CountKept == Never({"block"}) /\ RoundTypes /\ CountInv /\ [Next]_vars => CountInv'
<1> SUFFICES ASSUME Never({"block"}), RoundTypes, CountInv, [Next]_vars PROVE CountInv'
  OBVIOUS
<1> DEFINE Idle == /\ UNCHANGED <<env, votes, report, rejections, followUps>>
                   /\ \A k \in TaskIds : Goes(task[k], task'[k]) /\ SameRulings(k)
<1>0. Idle => CountInv'
  BY IdleCounts
<1>1. CASE UNCHANGED vars
  BY <1>0, <1>1 DEF vars, Goes, SameRulings
<1>2. ASSUME NEW g \in TaskIds, ClaimTask(g) PROVE Idle
  BY <1>2 DEF ClaimTask, RoundTypes, TaskRows, TaskFields, Goes, SameRulings
<1>3. ASSUME NEW g \in TaskIds, HoldTask(g) PROVE Idle
  BY <1>3 DEF HoldTask, RoundTypes, TaskRows, TaskFields, Goes, SameRulings
<1>4. ASSUME NEW g \in TaskIds, NEW to \in {"blocked", "ready"}, Transition(g, to) PROVE Idle
  BY <1>4 DEF Transition, Spend, Never, RoundTypes, TaskRows, TaskFields, Goes, SameRulings
<1>5. ASSUME NEW g \in TaskIds, SupersedeTask(g) PROVE Idle
  <2> DEFINE fresh == [Absent EXCEPT !.state = "backlog", !.tier = task[g].tier]
  <2>1. fresh.state = "backlog" /\ fresh.round = 0 /\ Absent.round = 0 /\ Absent.state = "absent"
    BY DEF Absent
  <2>2. task' = [task EXCEPT ![g].state = "superseded", ![g + 1] = fresh] /\ task[g + 1] = Absent
    BY <1>5 DEF SupersedeTask, Supersede
  <2> HIDE DEF fresh
  <2>3. \A k \in TaskIds : Goes(task[k], task'[k])
    <3>1. task'[g].round = task[g].round /\ (g + 1 # g => task'[g].state = "superseded")
      BY <2>2 DEF RoundTypes, TaskRows, TaskFields
    <3>2. g + 1 # g
      BY ResearchConstants DEF TaskIds
    <3>3. \A k \in TaskIds \ {g} : task'[k] = task[k] \/ (task[k] = Absent /\ task'[k] = fresh)
      BY <2>2 DEF RoundTypes, TaskRows
    <3> QED BY <2>1, <3>1, <3>2, <3>3 DEF Goes
  <2> QED BY <1>5, <2>3 DEF SupersedeTask, SameRulings
<1>6. ASSUME NEW g \in TaskIds, PromoteTask(g) PROVE Idle
  BY <1>6 DEF PromoteTask, RoundTypes, TaskRows, TaskFields, Goes, SameRulings
<1>7. ASSUME NEW g \in TaskIds, NEW f \in Findings, FailAdjudication(g, f) PROVE Idle
  BY <1>7 DEF FailAdjudication, RoundTypes, Goes, SameRulings, Waited
<1> QED
  <2> HIDE DEF Idle
  <2> QED BY <1>0, <1>1, <1>2, <1>3, <1>4, <1>5, <1>6, <1>7, WorkCounts, ReviewCounts, RulingCounts, ReleaseCounts
             DEF Next, Work, Adjudicate, Operate, Review

LEMMA EnvIsFixed == [Next]_vars => env' = env
<1> SUFFICES ASSUME [Next]_vars PROVE env' = env
  OBVIOUS
<1>1. CASE UNCHANGED vars
  BY <1>1 DEF vars
<1>2. ASSUME NEW g \in TaskIds, Work(g) PROVE env' = env
  BY <1>2 DEF Work, ClaimTask, SubmitWork
<1>3. ASSUME NEW g \in TaskIds, Adjudicate(g) PROVE env' = env
  BY <1>3 DEF Adjudicate, SubmitRuling
<1>4. ASSUME NEW g \in TaskIds, NEW rv, Review(g, rv) PROVE env' = env
  BY <1>4 DEF Review, SubmitReview
<1>5. ASSUME NEW g \in TaskIds, Operate(g) PROVE env' = env
  BY <1>5 DEF Operate, HoldTask, ReleaseTask, Transition, SupersedeTask, PromoteTask, FailAdjudication
<1> QED BY <1>1, <1>2, <1>3, <1>4, <1>5 DEF Next

LEMMA CountsAlways == Spec => []RoundTypes /\ [](Never({"block"}) => CountInv)
<1>1. Init => RoundTypes /\ (Never({"block"}) => CountInv)
  BY InitHolds, InitCounts
<1>2. (Never({"block"}) => CountInv) /\ RoundTypes /\ [Next]_vars => (Never({"block"}) => CountInv)'
  BY EnvIsFixed, CountKept DEF Never
<1> QED BY <1>1, <1>2, TypesKept, PTL DEF Spec

\* A rejected round is in the chain's count once: no late review, late ruling or release of
\* a hold decides a round again, unless an operator blocks a task over an open review or
\* adjudication (appendResearchRoundRejectedEvent).
THEOREM RoundsCountOnceAlways == Spec => []RoundsCountOnce
<1>1. (Never({"block"}) => CountInv) => RoundsCountOnce
  BY DEF CountInv, RoundsCountOnce
<1> QED BY <1>1, CountsAlways, PTL

\* What a reviewer found and did not see resolved is overturned or has its follow-up in every
\* approved task (createResearchFollowUpTasks), with the same exception.
THEOREM NothingGetsLost == Spec => []NothingLost
<1>1. (Never({"block"}) => CountInv) => NothingLost
  BY DEF CountInv, Remembered, NothingLost, Approved
<1> QED BY <1>1, CountsAlways, PTL

-----------------------------------------------------------------------------
(* The budget of a chain *)

\* The last task of the chain, and what still moves.
IsLast(tk, g) == \A k \in TaskIds : k > g => tk[k].state = "absent"
Lively(t) == t.state \notin {"absent", "blocked", "superseded"}
RoundIn(t, vs) == t.round \in Rounds /\ vs[t.round] = Reviewers
\* What was left open when an operator stopped a round, so that a review or a ruling can
\* still come in when nobody expects one.
Loose(t, vs, rep, rul) ==
  \/ \E m \in Rounds : m < t.round /\ vs[m] # Reviewers
  \/ t.state # "review" /\ t.round \in Rounds /\ vs[t.round] # Reviewers
  \/ \E f \in Findings : rul[f] = "open" /\ ~(t.state = "review" /\ RoundIn(t, vs) /\ f \in Blocking(rep, t.round))
Refused(g, t, vs, rep, rul) ==
  RoundIn(t, vs) /\ Pending(g, rep, rul, t.round) = {} /\ Standing(g, rep, rul, t.round) # {}
\* Only the last task has a tier to climb to; the others were retired by the breaker, for a
\* round that is decided and would be refused again.
ChainRow(tk, g, vs, rep, rul) ==
  /\ tk[g].state = "absent" => tk[g].round = 0 /\ IsLast(tk, g)
  /\ tk[g].round = 0 => \A f \in Findings : rul[f] # "open"
  /\ ~IsLast(tk, g) => tk[g].round > Threshold(tk[g].tier) /\ HasNextTier(tk[g].tier)
  /\ tk[g].state = "superseded" => ~IsLast(tk, g) /\ Refused(g, tk[g], vs, rep, rul)
Live(tk) == {g \in TaskIds : Lively(tk[g])}
Late(tk, vts, rpt, rlg) ==
  {g \in TaskIds : Loose(tk[g], vts[g], rpt[g], rlg[g]) /\ (tk[g].state = "superseded" \/ IsLast(tk, g))}
\* A rejection uses the budget up, or the task it stops, or what was left loose; only an
\* operator brings one of these back.
Counting(rs) == IF Len(rs) < env.budget THEN env.budget - 1 ELSE Len(rs)
ChainInv ==
  /\ \A g \in TaskIds : ChainRow(task, g, votes[g], report[g], ruling[g])
  /\ \A i \in DOMAIN rejections : task[rejections[i].task].state # "absent"
  /\ acts \in Nat /\ acts <= env.acts
  /\ Counting(rejections) + Cardinality(Live(task)) + Cardinality(Late(task, votes, report, ruling))
       <= env.budget + (env.acts - acts)

\* How a set of tasks may change in size.
LEMMA Sizes ==
  ASSUME NEW A \in SUBSET TaskIds, NEW B \in SUBSET TaskIds, NEW x, NEW y
  PROVE  /\ Cardinality(A) \in Nat /\ Cardinality(B) \in Nat
         /\ B \subseteq A => Cardinality(B) <= Cardinality(A)
         /\ B \subseteq A \cup {x} => Cardinality(B) <= Cardinality(A) + 1
         /\ x \in A /\ B \subseteq A \ {x} => Cardinality(B) <= Cardinality(A) - 1
         /\ x \in A /\ B \subseteq (A \ {x}) \cup {y} => Cardinality(B) <= Cardinality(A)
<1>1. IsFiniteSet(TaskIds)
  BY FS_Interval, ResearchConstants DEF TaskIds
<1>2. IsFiniteSet(A) /\ IsFiniteSet(B)
  BY <1>1, FS_Subset
<1>3. Cardinality(A) \in Nat /\ Cardinality(B) \in Nat
  BY <1>2, FS_CardinalityType
<1>4. B \subseteq A => Cardinality(B) <= Cardinality(A)
  BY <1>2, FS_Subset
<1>5. IsFiniteSet(A \cup {x}) /\ Cardinality(A \cup {x}) <= Cardinality(A) + 1
  <2>1. IsFiniteSet(A \cup {x}) /\ Cardinality(A \cup {x}) = IF x \in A THEN Cardinality(A) ELSE Cardinality(A) + 1
    BY <1>2, FS_AddElement
  <2> QED BY <1>3, <2>1
<1>6. B \subseteq A \cup {x} => Cardinality(B) <= Cardinality(A \cup {x}) /\ Cardinality(A \cup {x}) \in Nat
  BY <1>5, FS_Subset, FS_CardinalityType
<1>7. IsFiniteSet(A \ {x}) /\ (x \in A => Cardinality(A \ {x}) = Cardinality(A) - 1)
  BY <1>2, FS_RemoveElement
<1>8. B \subseteq A \ {x} => Cardinality(B) <= Cardinality(A \ {x})
  BY <1>7, FS_Subset
<1> DEFINE C == A \ {x}
<1>9. IsFiniteSet(C) /\ Cardinality(C) \in Nat
  BY <1>7, FS_CardinalityType
<1>10. IsFiniteSet(C \cup {y}) /\ Cardinality(C \cup {y}) <= Cardinality(C) + 1
  <2> HIDE DEF C
  <2>1. IsFiniteSet(C \cup {y}) /\ Cardinality(C \cup {y}) = IF y \in C THEN Cardinality(C) ELSE Cardinality(C) + 1
    BY <1>9, FS_AddElement
  <2> QED BY <1>9, <2>1
<1>11. B \subseteq C \cup {y} => Cardinality(B) <= Cardinality(C \cup {y}) /\ Cardinality(C \cup {y}) \in Nat
  BY <1>10, FS_Subset, FS_CardinalityType
<1> QED BY <1>3, <1>4, <1>5, <1>6, <1>7, <1>8, <1>9, <1>10, <1>11

\* The count of a chain is the number of its events, when they are all of it.
LEMMA WholeChain ==
  ASSUME NEW S, NEW rs \in Seq(S), NEW g, \A i \in DOMAIN rs : rs[i].task <= g
  PROVE  RejectedInChain(rs, g) = Len(rs)
<1>1. {i \in DOMAIN rs : rs[i].task <= g} = 1..Len(rs) /\ Len(rs) \in Nat
  OBVIOUS
<1>2. Cardinality(1..Len(rs)) = Len(rs)
  <2> DEFINE n == Len(rs)
  <2>1. n \in Nat
    BY <1>1
  <2> HIDE DEF n
  <2>2. Cardinality(1..n) = IF 1 > n THEN 0 ELSE n - 1 + 1
    BY <2>1, FS_Interval
  <2>3. Cardinality(1..n) = n
    BY <2>1, <2>2
  <2> QED BY <2>3 DEF n
<1> QED BY <1>1, <1>2 DEF RejectedInChain

LEMMA InitChain == Init => ChainInv
<1> SUFFICES ASSUME Init PROVE ChainInv
  OBVIOUS
<1>1. /\ \A g \in TaskIds : task[g].round = 0 /\ task[g].state \in {"absent", "ready"}
      /\ \A g \in TaskIds : g # 1 => task[g].state = "absent"
      /\ \A g \in TaskIds, f \in Findings : ruling[g][f] = "none"
      /\ task[1].state = "ready" /\ 1 \in TaskIds
  BY ResearchConstants DEF Init, Absent, TaskIds
<1>2. \A g \in TaskIds : IsLast(task, g)
  BY <1>1, ResearchConstants DEF IsLast, TaskIds
<1>3. \A g \in TaskIds : ChainRow(task, g, votes[g], report[g], ruling[g])
  BY <1>1, <1>2 DEF ChainRow
<1>4. Cardinality(Live(task)) = 1
  <2>1. Live(task) = {1}
    BY <1>1 DEF Live, Lively
  <2> QED BY <2>1, FS_Singleton
<1>5. Cardinality(Late(task, votes, report, ruling)) = 0
  <2>1. \A g \in TaskIds : ~Loose(task[g], votes[g], report[g], ruling[g])
    BY <1>1, ResearchConstants DEF Loose, Rounds
  <2>2. Late(task, votes, report, ruling) = {}
    BY <2>1 DEF Late
  <2> QED BY <2>2, FS_EmptySet
<1>6. rejections = <<>> /\ acts = env.acts /\ env \in Environments
  BY DEF Init
<1> QED BY <1>3, <1>4, <1>5, <1>6, ResearchConstants DEF ChainInv, Counting

\* What the rows, the count and the sets of a step make of the invariant.
LEMMA ChainBuilt ==
  ASSUME RoundTypes, UNCHANGED env, acts' \in Nat, acts' <= env.acts,
         \A k \in TaskIds : ChainRow(task, k, votes[k], report[k], ruling[k])',
         \A i \in DOMAIN rejections' : task'[rejections'[i].task].state # "absent",
         Counting(rejections') + Cardinality(Live(task')) + Cardinality(Late(task', votes', report', ruling'))
           <= env.budget + (env.acts - acts')
  PROVE  ChainInv'
<1>1. Counting(rejections)' = Counting(rejections') /\ Live(task)' = Live(task')
  BY DEF Counting, Live, Lively
<1>2. Late(task, votes, report, ruling)' = Late(task', votes', report', ruling')
  BY DEF Late, Loose, Blocking, IsBlocking, Severe, IsLast, RoundIn
<1> QED BY <1>1, <1>2 DEF ChainInv

\* Nothing is left loose by a step of row t to row u.
NoLooser(t, u, vs, rep, rul) == Loose(u, vs, rep, rul) => Loose(t, vs, rep, rul)
\* A step that decides nothing, of a task that is neither absent nor retired: it leaves no
\* more to come than before, or an operator pays for it.
LEMMA IdleChain ==
  ASSUME RoundTypes, ChainInv, NEW g \in TaskIds, NEW u, task'[g] = u, \A k \in TaskIds \ {g} : task'[k] = task[k],
         UNCHANGED <<env, votes, report, rejections>>, ruling' = ruling,
         task[g].state \notin {"absent", "superseded"}, u.state \notin {"absent", "superseded"},
         u.tier = task[g].tier, u.round \in Nat, u.round >= task[g].round,
         \A k \in TaskIds \ {g} : disputed'[k] = disputed[k],
         \/ /\ acts' = acts /\ (Lively(u) => Lively(task[g]))
            /\ NoLooser(task[g], u, votes[g], report[g], ruling[g])
         \/ /\ acts' = acts - 1 /\ acts > 0
            /\ (Lively(task[g]) /\ ~Lively(u)) \/ NoLooser(task[g], u, votes[g], report[g], ruling[g])
  PROVE  ChainInv'
<1> DEFINE A == Live(task)
           B == Late(task, votes, report, ruling)
           A1 == Live(task')
           B1 == Late(task', votes', report', ruling')
           Entries == [task : TaskIds, round : Rounds]
           LooseKept == NoLooser(task[g], u, votes[g], report[g], ruling[g])
<1>0. /\ A \in SUBSET TaskIds /\ B \in SUBSET TaskIds /\ A1 \in SUBSET TaskIds /\ B1 \in SUBSET TaskIds
      /\ env.acts \in Nat /\ env.budget \in Nat /\ task[g].round \in Nat /\ Threshold(task[g].tier) \in Int
      /\ Counting(rejections) \in Int /\ rejections \in Seq(Entries)
  <2>1. Threshold(task[g].tier) \in Int
    BY ResearchConstants DEF Threshold, RoundTypes
  <2>2. task[g].round \in Nat /\ env.acts \in Nat /\ env.budget \in Nat
    BY ResearchConstants DEF RoundTypes, TaskRows
  <2>3. rejections \in Seq(Entries)
    BY DEF RoundTypes
  <2>4. Len(rejections) \in Nat
    BY <2>3
  <2> QED BY <2>1, <2>2, <2>3, <2>4 DEF Live, Late, Counting
<1>1. \A k \in TaskIds : IsLast(task', k) <=> IsLast(task, k)
  BY DEF IsLast
<1>2. ASSUME NEW k \in TaskIds PROVE ChainRow(task, k, votes[k], report[k], ruling[k])'
  <2>1. ChainRow(task, k, votes[k], report[k], ruling[k])
    BY DEF ChainInv
  <2>2. CASE k = g
    <3>1. u.round = 0 => task[g].round = 0
      BY <1>0
    <3>2. task[g].round > Threshold(task[g].tier) => u.round > Threshold(u.tier)
      BY <1>0
    <3>3. Threshold(u.tier) = Threshold(u.tier)' /\ (HasNextTier(u.tier) <=> HasNextTier(u.tier)') /\ (IsLast(task, g)' <=> IsLast(task', g))
      BY DEF Threshold, HasNextTier, IsLast
    <3> QED BY <1>1, <2>1, <2>2, <3>1, <3>2, <3>3 DEF ChainRow, Threshold, HasNextTier
  <2>3. CASE k # g
    <3>1. task'[k] = task[k] /\ disputed'[k] = disputed[k] /\ (IsLast(task, k)' <=> IsLast(task, k))
      BY <1>1, <2>3 DEF IsLast
    <3> QED
      BY <2>1, <3>1
         DEF ChainRow, Refused, RoundIn, Pending, Spawned, Standing, Blocking, IsBlocking, Severe, Threshold, HasNextTier
  <2> QED BY <2>2, <2>3
<1>3. ASSUME NEW i \in DOMAIN rejections' PROVE task'[rejections'[i].task].state # "absent"
  <2>1. PICK r : r = rejections[i] /\ r \in Entries /\ task[r.task].state # "absent"
    <3> HIDE DEF Entries
    <3> QED BY <1>0 DEF ChainInv
  <2> QED BY <2>1
<1>4. /\ \A k \in TaskIds \ {g} : (k \in A1 <=> k \in A) /\ (k \in B1 <=> k \in B)
      /\ (g \in A1 <=> Lively(u)) /\ (g \in A <=> Lively(task[g]))
      /\ g \in B1 => g \in B \/ ~LooseKept
  <2>1. \A k \in TaskIds \ {g} : (k \in A1 <=> k \in A)
    BY DEF Live
  <2>2. \A k \in TaskIds \ {g} : (k \in B1 <=> k \in B)
    BY <1>1 DEF Late
  <2>3. (g \in A1 <=> Lively(u)) /\ (g \in A <=> Lively(task[g]))
    BY DEF Live
  <2>4. g \in B1 /\ LooseKept => g \in B
    BY <1>1 DEF Late, NoLooser
  <2> QED BY <2>1, <2>2, <2>3, <2>4
<1> HIDE DEF A, B, A1, B1, LooseKept
<1>5. Counting(rejections') + Cardinality(A1) + Cardinality(B1) <= env.budget + (env.acts - acts')
  <2> DEFINE c == Counting(rejections)
             a == Cardinality(A)  b == Cardinality(B)
             a1 == Cardinality(A1)  b1 == Cardinality(B1)
             e == env.acts  m == env.budget
  <2>0. /\ c \in Int /\ a \in Nat /\ b \in Nat /\ a1 \in Nat /\ b1 \in Nat /\ e \in Nat /\ m \in Nat /\ acts \in Nat
        /\ Counting(rejections') = c /\ c + a + b <= m + (e - acts)
    BY <1>0, Sizes DEF ChainInv, A, B
  <2>1. CASE acts' = acts /\ (Lively(u) => Lively(task[g])) /\ LooseKept
    <3>1. A1 \subseteq A /\ B1 \subseteq B
      BY <1>0, <1>4, <2>1
    <3>2. a1 <= a /\ b1 <= b
      BY <1>0, <3>1, Sizes
    <3> HIDE DEF a, b, c, a1, b1, e, m
    <3>3. c + a1 + b1 <= m + (e - acts')
      BY <2>0, <2>1, <3>2
    <3> QED BY <2>0, <3>3 DEF a, b, c, a1, b1, e, m
  <2>2. CASE acts' = acts - 1 /\ acts > 0 /\ Lively(task[g]) /\ ~Lively(u)
    <3>1. g \in A /\ A1 \subseteq A \ {g} /\ B1 \subseteq B \cup {g}
      BY <1>0, <1>4, <2>2
    <3>2. a1 <= a - 1 /\ b1 <= b + 1
      BY <1>0, <3>1, Sizes
    <3> HIDE DEF a, b, c, a1, b1, e, m
    <3>3. c + a1 + b1 <= m + (e - acts')
      BY <2>0, <2>2, <3>2
    <3> QED BY <2>0, <3>3 DEF a, b, c, a1, b1, e, m
  <2>3. CASE acts' = acts - 1 /\ acts > 0 /\ LooseKept
    <3>1. A1 \subseteq A \cup {g} /\ B1 \subseteq B
      BY <1>0, <1>4, <2>3
    <3>2. a1 <= a + 1 /\ b1 <= b
      BY <1>0, <3>1, Sizes
    <3> HIDE DEF a, b, c, a1, b1, e, m
    <3>3. c + a1 + b1 <= m + (e - acts')
      BY <2>0, <2>3, <3>2
    <3> QED BY <2>0, <3>3 DEF a, b, c, a1, b1, e, m
  <2> QED BY <2>1, <2>2, <2>3 DEF LooseKept
<1>6. acts' \in Nat /\ acts' <= env.acts
  BY <1>0 DEF ChainInv, LooseKept
<1> QED BY <1>2, <1>3, <1>5, <1>6, ChainBuilt DEF A1, B1

\* What a task keeps loose when its round is decided was loose before.
LEMMA LooseAfter ==
  ASSUME NEW g \in TaskIds, NEW tk, NEW vs, NEW rep, NEW rul, RoundIsIn(tk, g, vs, rep, rul),
         \A f \in Findings : rul[f] # "none" => f \in disputed[g],
         NEW t, t.round = tk[g].round, Loose(t, vs, rep, rul)
  PROVE  Loose(tk[g], vs, rep, rul)
<1> DEFINE n == tk[g].round
<1>1. vs[n] = Reviewers /\ n \in Rounds
  BY DEF RoundIsIn
<1>2. CASE \E m \in Rounds : m < n /\ vs[m] # Reviewers
  BY <1>2 DEF Loose
<1>3. CASE \E f \in Findings : rul[f] = "open"
  <2>1. PICK f \in Findings : rul[f] = "open" /\ f \in disputed[g]
    BY <1>3
  <2>2. f \notin Blocking(rep, n)
    BY <2>1 DEF RoundIsIn, Pending
  <2> QED BY <2>1, <2>2 DEF Loose
<1> QED BY <1>1, <1>2, <1>3 DEF Loose

\* The premises under which a step decides a round of g, from the rows, votes, reports and
\* rulings it reads: its round is in review or something was left loose.
Reads(tk, g, vs, rep, rul) ==
  /\ TaskRows(tk)
  /\ \A k \in TaskIds : tk[k].state = task[k].state /\ tk[k].round = task[k].round /\ tk[k].tier = task[k].tier
  /\ \A k \in TaskIds \ {g} : tk[k] = task[k]
  /\ \A f \in Findings : rul[f] # "none" => f \in disputed[g]
  /\ ChainRow(tk, g, vs, rep, rul)
  /\ Loose(tk[g], vs, rep, rul) => Loose(task[g], votes[g], report[g], ruling[g])
  /\ task[g].state = "review" \/ Loose(task[g], votes[g], report[g], ruling[g])
Writes(g, vs, rep) ==
  /\ votes'[g] = vs /\ report'[g] = rep /\ UNCHANGED <<env, acts, disputed>>
  /\ \A k \in TaskIds \ {g} : votes'[k] = votes[k] /\ report'[k] = report[k] /\ ruling'[k] = ruling[k]

\* A step that changes no row but, possibly, the state of g.
LEMMA RowsAfter ==
  ASSUME RoundTypes, ChainInv, NEW g \in TaskIds, NEW tk, NEW vs, NEW rep, NEW rul \in [Findings -> Rulings],
         Reads(tk, g, vs, rep, rul), Writes(g, vs, rep), RoundIsIn(tk, g, vs, rep, rul),
         NEW s \in {"approved", "blocked", "ready"}, task' = [tk EXCEPT ![g].state = s]
  PROVE  /\ \A k \in TaskIds : ChainRow(task', k, votes'[k], report'[k], ruling'[k])
         /\ \A k \in TaskIds \ {g} : /\ k \in Live(task') <=> k \in Live(task)
                                     /\ k \in Late(task', votes', report', ruling') <=> k \in Late(task, votes, report, ruling)
         /\ g \in Live(task') <=> s # "blocked"
         /\ g \in Late(task', votes', report', ruling') =>
              g \in Late(task, votes, report, ruling) /\ IsLast(task, g)
         /\ \A k \in TaskIds : task[k].state # "absent" => task'[k].state # "absent"
         /\ task[g].state # "absent"
<1>1. tk[g].round \in Rounds /\ ruling'[g] = rul /\ tk[g].round # 0
  BY ResearchConstants DEF RoundIsIn, Rounds
<1>2. tk[g].state # "absent" /\ task[g].state # "absent"
  BY <1>1 DEF Reads, ChainRow
<1>3. /\ task'[g].state = s /\ task'[g].round = tk[g].round /\ task'[g].tier = tk[g].tier
      /\ \A k \in TaskIds \ {g} : task'[k] = tk[k] /\ task'[k] = task[k]
  BY DEF Reads, TaskRows, TaskFields
<1>4. \A k \in TaskIds : (IsLast(task', k) <=> IsLast(task, k)) /\ (IsLast(tk, k) <=> IsLast(task, k))
  <2>1. \A k \in TaskIds : (task'[k].state = "absent" <=> task[k].state = "absent") /\ tk[k].state = task[k].state
    BY <1>2, <1>3 DEF Reads
  <2> QED BY <2>1 DEF IsLast
<1>5. ASSUME NEW k \in TaskIds PROVE ChainRow(task', k, votes'[k], report'[k], ruling'[k])
  <2>1. CASE k = g
    BY <1>1, <1>3, <1>4, <2>1 DEF Reads, ChainRow
  <2>2. CASE k # g
    <3>1. ChainRow(task, k, votes[k], report[k], ruling[k])
      BY DEF ChainInv
    <3> QED BY <1>3, <1>4, <2>2, <3>1 DEF Writes, ChainRow
  <2> QED BY <2>1, <2>2
<1>6. ASSUME NEW k \in TaskIds \ {g}
      PROVE  /\ k \in Live(task') <=> k \in Live(task)
             /\ k \in Late(task', votes', report', ruling') <=> k \in Late(task, votes, report, ruling)
  BY <1>3, <1>4 DEF Live, Late, Writes
<1>7. g \in Live(task') <=> s # "blocked"
  BY <1>3 DEF Live, Lively
<1>8. ASSUME g \in Late(task', votes', report', ruling')
      PROVE  g \in Late(task, votes, report, ruling) /\ IsLast(task, g)
  <2>1. IsLast(task', g) /\ Loose(task'[g], vs, rep, rul)
    BY <1>1, <1>3, <1>8 DEF Late, Writes
  <2>2. Loose(tk[g], vs, rep, rul)
    BY <1>3, <2>1, LooseAfter DEF Reads
  <2> QED BY <1>4, <2>1, <2>2 DEF Late, Reads
<1> QED BY <1>2, <1>3, <1>5, <1>6, <1>7, <1>8

\* A task that is retired by the breaker, and the one that replaces it.
LEMMA RowsClimb ==
  ASSUME RoundTypes, ChainInv, NEW g \in TaskIds, NEW tk, NEW vs, NEW rep, NEW rul \in [Findings -> Rulings],
         Reads(tk, g, vs, rep, rul), Writes(g, vs, rep), RoundIsIn(tk, g, vs, rep, rul),
         Standing(g, rep, rul, tk[g].round) # {}, tk[g].round > Threshold(tk[g].tier), HasNextTier(tk[g].tier),
         Supersede(tk, g, "ready", tk[g].tier + 1)
  PROVE  /\ IsLast(task, g) /\ g \in Live(task)
         /\ \A k \in TaskIds : ChainRow(task', k, votes'[k], report'[k], ruling'[k])
         /\ Live(task') \subseteq (Live(task) \ {g}) \cup {g + 1}
         /\ Late(task', votes', report', ruling') \subseteq Late(task, votes, report, ruling)
         /\ \A k \in TaskIds : task[k].state # "absent" => task'[k].state # "absent"
<1> DEFINE fresh == [Absent EXCEPT !.state = "ready", !.tier = tk[g].tier + 1]
           h == g + 1
<1>1. /\ task' = [tk EXCEPT ![g].state = "superseded", ![h] = fresh] /\ tk[h] = Absent
      /\ h \in TaskIds /\ h # g /\ tk[g].state \in Active \cup {"blocked"}
  BY ResearchConstants DEF Supersede, TaskIds
<1>2. fresh.state = "ready" /\ fresh.round = 0 /\ Absent.state = "absent" /\ Absent.round = 0
  BY DEF Absent
<1> HIDE DEF fresh
<1>3. tk[g].round \in Rounds /\ ruling'[g] = rul /\ tk[g].round # 0 /\ tk[g].state # "blocked"
  BY ResearchConstants DEF RoundIsIn, Rounds
<1>4. /\ task'[g].state = "superseded" /\ task'[g].round = tk[g].round /\ task'[g].tier = tk[g].tier
      /\ task'[h] = fresh /\ task[h].state = "absent" /\ task[h].round = 0
      /\ \A k \in TaskIds \ {g, h} : task'[k] = task[k]
  <2>1. task'[g] = [tk[g] EXCEPT !.state = "superseded"] /\ task'[h] = fresh
    BY <1>1 DEF Reads, TaskRows
  <2>2. \A k \in TaskIds \ {g, h} : task'[k] = task[k]
    BY <1>1 DEF Reads, TaskRows
  <2>3. task[h].state = "absent" /\ task[h].round = 0
    BY <1>1, <1>2 DEF Reads
  <2>4. DOMAIN tk[g] = TaskFields
    BY DEF Reads, TaskRows
  <2> QED BY <2>1, <2>2, <2>3, <2>4 DEF TaskFields
<1>5. task[g].state \in Active /\ tk[g].state = task[g].state
  BY <1>1, <1>3 DEF Reads
<1>6. IsLast(task, h) /\ IsLast(task, g)
  <2>1. IsLast(task, h)
    BY <1>1, <1>4 DEF ChainInv, ChainRow
  <2>2. \A k \in TaskIds : k > g => k = h \/ k > h
    BY <1>1 DEF TaskIds
  <2> QED BY <1>4, <2>1, <2>2 DEF IsLast
<1>7. IsLast(task', h) /\ ~IsLast(task', g)
  <2>1. \A k \in TaskIds : k > h => k # g /\ k # h
    BY DEF TaskIds
  <2>2. h > g
    BY DEF TaskIds
  <2> QED BY <1>1, <1>2, <1>4, <1>6, <2>1, <2>2 DEF IsLast
<1>8. ASSUME NEW k \in TaskIds \ {g, h}
      PROVE  /\ IsLast(task', k) <=> IsLast(task, k)
             /\ k < g => task[k].state # "absent"
  <2>1. CASE k < g
    <3>1. ~IsLast(task, k) /\ ~IsLast(task', k)
      <4>1. g > k
        BY <2>1 DEF TaskIds
      <4> QED BY <1>4, <1>5, <4>1 DEF IsLast, Active
    <3>2. ChainRow(task, k, votes[k], report[k], ruling[k])
      BY DEF ChainInv
    <3> QED BY <3>1, <3>2 DEF ChainRow
  <2>2. CASE ~(k < g)
    <3>1. \A j \in TaskIds : j > k => j # g /\ j # h
      BY <2>2, <1>8 DEF TaskIds
    <3>2. \A j \in TaskIds : j > k => task'[j] = task[j]
      BY <1>4, <3>1
    <3> QED BY <2>2, <3>2 DEF IsLast
  <2> QED BY <2>1, <2>2
<1>9. ASSUME NEW k \in TaskIds PROVE ChainRow(task', k, votes'[k], report'[k], ruling'[k])
  <2>1. ChainRow(task, k, votes[k], report[k], ruling[k]) /\ ChainRow(tk, g, vs, rep, rul)
    BY DEF ChainInv, Reads
  <2>2. CASE k = g
    <3>1. Refused(g, task'[g], vs, rep, rul)
      BY <1>4 DEF Refused, RoundIn, RoundIsIn
    <3> QED BY <1>3, <1>4, <1>7, <2>2, <3>1 DEF ChainRow, Writes
  <2>3. CASE k = h
    <3>1. \A f \in Findings : ruling'[h][f] # "open"
      BY <1>1, <1>4, <2>1, <2>3 DEF ChainRow, Writes
    <3> QED BY <1>2, <1>4, <1>7, <2>3, <3>1 DEF ChainRow
  <2>4. CASE k \notin {g, h}
    BY <1>4, <1>8, <2>1, <2>4 DEF ChainRow, Writes
  <2> QED BY <2>2, <2>3, <2>4
<1>10. g \in Live(task) /\ Live(task') \subseteq (Live(task) \ {g}) \cup {h}
  BY <1>4, <1>5 DEF Live, Lively, Active
<1>11. ASSUME NEW k \in Late(task', votes', report', ruling') PROVE k \in Late(task, votes, report, ruling)
  <2>1. k \in TaskIds /\ Loose(task'[k], votes'[k], report'[k], ruling'[k])
    BY <1>11 DEF Late
  <2>2. CASE k = g
    <3>1. Loose(task'[g], vs, rep, rul)
      BY <1>3, <2>1, <2>2 DEF Writes
    <3>2. Loose(tk[g], vs, rep, rul)
      BY <1>4, <3>1, LooseAfter DEF Reads
    <3> QED BY <1>6, <2>2, <3>2 DEF Late, Reads
  <2>3. CASE k = h
    <3>1. \A f \in Findings : ruling'[h][f] # "open"
      BY <1>1, <1>4 DEF ChainInv, ChainRow, Writes
    <3>2. ~Loose(task'[h], votes'[h], report'[h], ruling'[h])
      BY <1>2, <1>4, <3>1, ResearchConstants DEF Loose, Rounds
    <3> QED BY <2>1, <2>3, <3>2
  <2>4. CASE k \notin {g, h}
    BY <1>4, <1>8, <1>11, <2>1, <2>4 DEF Late, Writes
  <2> QED BY <2>2, <2>3, <2>4
<1>12. \A k \in TaskIds : task[k].state # "absent" => task'[k].state # "absent"
  BY <1>4
<1> QED BY <1>6, <1>9, <1>10, <1>11, <1>12

\* A round that is rejected uses up budget, until the chain is stopped.
Spent(g) == RejectedInChain(rejections', g) >= env.budget
LEMMA FailCosts ==
  ASSUME RoundTypes, ChainInv, NEW g \in TaskIds, NEW n \in Rounds, task[g].state # "absent",
         rejections' = Append(rejections, [task |-> g, round |-> n])
  PROVE  /\ Counting(rejections) \in Int /\ Counting(rejections') \in Int
         /\ Counting(rejections') <= Counting(rejections) + 1
         /\ IsLast(task, g) /\ ~Spent(g) => Counting(rejections') <= Counting(rejections)
         /\ \A i \in DOMAIN rejections' : task[rejections'[i].task].state # "absent"
<1> DEFINE Entries == [task : TaskIds, round : Rounds]
           e == [task |-> g, round |-> n]
<1>1. rejections \in Seq(Entries) /\ e \in Entries /\ e.task = g
  BY DEF RoundTypes
<1>2. env.budget \in Nat \ {0}
  BY ResearchConstants DEF RoundTypes
<1> HIDE DEF e
<1>3. /\ rejections' \in Seq(Entries) /\ Len(rejections') = Len(rejections) + 1 /\ Len(rejections) \in Nat
      /\ \A i \in DOMAIN rejections' : rejections'[i] = e \/ (i \in DOMAIN rejections /\ rejections'[i] = rejections[i])
  <2>1. rejections' = Append(rejections, e)
    BY DEF e
  <2> HIDE DEF Entries
  <2> QED BY <1>1, <2>1
<1>4. \A i \in DOMAIN rejections' : rejections'[i] \in Entries /\ task[rejections'[i].task].state # "absent"
  <2>1. \A i \in DOMAIN rejections' : rejections'[i] \in Entries
    <3> HIDE DEF Entries
    <3> QED BY <1>3
  <2>2. ASSUME NEW i \in DOMAIN rejections' PROVE task[rejections'[i].task].state # "absent"
    <3>1. CASE rejections'[i] = e
      BY <1>1, <3>1
    <3>2. CASE i \in DOMAIN rejections /\ rejections'[i] = rejections[i]
      BY <3>2 DEF ChainInv
    <3> QED BY <1>3, <2>2, <3>1, <3>2
  <2> QED BY <2>1, <2>2
<1>5. ASSUME IsLast(task, g), ~Spent(g) PROVE Len(rejections') < env.budget
  <2>1. \A i \in DOMAIN rejections' : rejections'[i].task <= g
    <3> SUFFICES ASSUME NEW i \in DOMAIN rejections' PROVE rejections'[i].task <= g
      OBVIOUS
    <3>1. PICK k \in TaskIds : k = rejections'[i].task /\ task[k].state # "absent"
      BY <1>4
    <3>2. ~(k > g)
      BY <1>5, <3>1 DEF IsLast
    <3> QED BY <3>1, <3>2 DEF TaskIds
  <2>2. RejectedInChain(rejections', g) = Len(rejections')
    <3> HIDE DEF Entries
    <3> QED BY <1>3, <2>1, WholeChain
  <2> QED BY <1>2, <1>3, <1>5, <2>2 DEF Spent
<1> QED BY <1>2, <1>3, <1>4, <1>5 DEF Counting

LEMMA FailCases ==
  ASSUME NEW g \in TaskIds, NEW tk, Fail(tk, g)
  PROVE  /\ rejections' = Append(rejections, [task |-> g, round |-> tk[g].round])
         /\ \/ /\ ~Spent(g) /\ tk[g].round > Threshold(tk[g].tier) /\ HasNextTier(tk[g].tier)
               /\ Supersede(tk, g, "ready", tk[g].tier + 1)
            \/ Spent(g) /\ task' = [tk EXCEPT ![g].state = "blocked"]
            \/ /\ ~Spent(g) /\ ~(tk[g].round > Threshold(tk[g].tier) /\ HasNextTier(tk[g].tier))
               /\ \E s \in {"blocked", "ready"} : task' = [tk EXCEPT ![g].state = s]
BY DEF Fail, Spent

LEMMA AggregateChain ==
  ASSUME RoundTypes, ChainInv, NEW g \in TaskIds, NEW tk, NEW vs, NEW rep, NEW rul \in [Findings -> Rulings],
         Reads(tk, g, vs, rep, rul), Aggregate(tk, g, vs, rep, rul),
         votes'[g] = vs, report'[g] = rep, UNCHANGED <<env, acts, disputed>>,
         \A k \in TaskIds \ {g} : votes'[k] = votes[k] /\ report'[k] = report[k]
  PROVE  ChainInv'
<1> DEFINE A == Live(task)
           B == Late(task, votes, report, ruling)
           A1 == Live(task')
           B1 == Late(task', votes', report', ruling')
           Rows == \A k \in TaskIds : ChainRow(task', k, votes'[k], report'[k], ruling'[k])
           Entered == \A i \in DOMAIN rejections' : task'[rejections'[i].task].state # "absent"
           Paid == \/ Counting(rejections') <= Counting(rejections) /\ A1 \subseteq A /\ B1 \subseteq B
                   \/ /\ Counting(rejections') <= Counting(rejections)
                      /\ g \in A /\ A1 \subseteq (A \ {g}) \cup {g + 1} /\ B1 \subseteq B
                   \/ Counting(rejections') <= Counting(rejections) + 1 /\ g \in A /\ A1 \subseteq A \ {g} /\ B1 \subseteq B
                   \/ Counting(rejections') <= Counting(rejections) + 1 /\ g \in B /\ A1 \subseteq A /\ B1 \subseteq B \ {g}
<1>0. /\ Spawns(tk, g, vs, rep, rul) /\ Writes(g, vs, rep) /\ TaskRows(tk)
      /\ \/ Rests(tk)
         \/ /\ RoundIsIn(tk, g, vs, rep, rul)
            /\ Passes(tk, g, rep, rul) \/ Rejects(tk, g, rep, rul)
  <2>1. TaskRows(tk)
    BY DEF Reads
  <2>2. /\ Spawns(tk, g, vs, rep, rul)
        /\ \/ Rests(tk)
           \/ /\ RoundIsIn(tk, g, vs, rep, rul)
              /\ Passes(tk, g, rep, rul) \/ Rejects(tk, g, rep, rul)
    BY <2>1, AggregateOutcome
  <2> QED BY <2>1, <2>2 DEF Spawns, Writes
<1>1. /\ A \in SUBSET TaskIds /\ B \in SUBSET TaskIds /\ A1 \in SUBSET TaskIds /\ B1 \in SUBSET TaskIds
      /\ env.acts \in Nat /\ env.budget \in Nat /\ acts \in Nat /\ acts <= env.acts /\ acts' = acts
      /\ Counting(rejections) \in Int
      /\ Counting(rejections) + Cardinality(A) + Cardinality(B) <= env.budget + (env.acts - acts)
  <2>1. env.acts \in Nat /\ env.budget \in Nat
    BY ResearchConstants DEF RoundTypes
  <2>2. Len(rejections) \in Nat
    BY DEF RoundTypes
  <2> QED BY <2>1, <2>2 DEF Live, Late, Counting, ChainInv
<1>2. ASSUME Rows, Entered, Paid, Counting(rejections') \in Int PROVE ChainInv'
  <2>1. \A k \in TaskIds : ChainRow(task, k, votes[k], report[k], ruling[k])'
    <3> SUFFICES ASSUME NEW k \in TaskIds PROVE ChainRow(task, k, votes[k], report[k], ruling[k])'
      OBVIOUS
    <3>1. ChainRow(task', k, votes'[k], report'[k], ruling'[k])
      BY <1>2
    <3>2. ASSUME Refused(k, task'[k], votes'[k], report'[k], ruling'[k])
          PROVE  Refused(k, task[k], votes[k], report[k], ruling[k])'
      BY <3>2 DEF Refused, RoundIn, Pending, Spawned, Standing, Blocking, IsBlocking, Severe
    <3>3. /\ IsLast(task, k)' <=> IsLast(task', k)
          /\ (task[k].round > Threshold(task[k].tier))' <=> task'[k].round > Threshold(task'[k].tier)
          /\ HasNextTier(task[k].tier)' <=> HasNextTier(task'[k].tier)
      BY DEF IsLast, Threshold, HasNextTier
    <3> QED BY <3>1, <3>2, <3>3 DEF ChainRow
  <2>2. Counting(rejections') + Cardinality(A1) + Cardinality(B1) <= env.budget + (env.acts - acts)
    <3> DEFINE lim == env.budget + (env.acts - acts)
               c == Counting(rejections)  c1 == Counting(rejections')
               a == Cardinality(A)  b == Cardinality(B)  a1 == Cardinality(A1)  b1 == Cardinality(B1)
    <3>1. /\ lim \in Int /\ c \in Int /\ c1 \in Int /\ c + a + b <= lim
          /\ a \in Nat /\ b \in Nat /\ a1 \in Nat /\ b1 \in Nat
      BY <1>1, <1>2, Sizes
    <3>2. /\ A1 \subseteq A => a1 <= a
          /\ g \in A /\ A1 \subseteq (A \ {g}) \cup {g + 1} => a1 <= a
          /\ g \in A /\ A1 \subseteq A \ {g} => a1 <= a - 1
          /\ B1 \subseteq B => b1 <= b
          /\ g \in B /\ B1 \subseteq B \ {g} => b1 <= b - 1
      <4> HIDE DEF A, B, A1, B1
      <4> QED BY <1>1, Sizes
    <3> HIDE DEF lim, c, c1, a, b, a1, b1, A, B, A1, B1
    <3>3. \/ c1 <= c /\ a1 <= a /\ b1 <= b
          \/ c1 <= c + 1 /\ a1 <= a - 1 /\ b1 <= b
          \/ c1 <= c + 1 /\ a1 <= a /\ b1 <= b - 1
      BY <1>2, <3>2 DEF c, c1
    <3>4. c1 + a1 + b1 <= lim
      BY <3>1, <3>3
    <3> QED BY <3>4 DEF lim, c1, a1, b1
  <2>3. acts' \in Nat /\ acts' <= env.acts
    BY <1>1
  <2>4. Counting(rejections') + Cardinality(A1) + Cardinality(B1) <= env.budget + (env.acts - acts')
    BY <1>1, <2>2
  <2> QED BY <1>2, <2>1, <2>3, <2>4, ChainBuilt
<1>3. CASE Rests(tk)
  <2>1. /\ task' = tk /\ rejections' = rejections /\ \A k \in TaskIds \ {g} : task'[k] = task[k]
        /\ \A k \in TaskIds : IsLast(task', k) <=> IsLast(task, k)
        /\ \A k \in TaskIds : IsLast(tk, k) <=> IsLast(task, k)
    BY <1>3 DEF Rests, Reads, IsLast
  <2>2. Rows
    <3> SUFFICES ASSUME NEW k \in TaskIds PROVE ChainRow(task', k, votes'[k], report'[k], ruling'[k])
      OBVIOUS
    <3>1. CASE k # g
      <4>1. ChainRow(task, k, votes[k], report[k], ruling[k])
        BY DEF ChainInv
      <4> QED BY <1>0, <2>1, <3>1, <4>1 DEF Writes, ChainRow
    <3>2. CASE k = g
      <4>1. ChainRow(tk, g, vs, rep, rul)
        BY DEF Reads
      <4>2. tk[g].round = 0 => \A f \in Findings : ruling'[g][f] # "open"
        BY <1>0, <4>1, ResearchConstants DEF Spawns, ChainRow, Rounds
      <4>3. ASSUME tk[g].state = "superseded" PROVE Refused(g, tk[g], vs, rep, ruling'[g])
        <5>1. Refused(g, tk[g], vs, rep, rul)
          BY <4>1, <4>3 DEF ChainRow
        <5>2. \A f \in Findings : ruling'[g][f] = rul[f]
          BY <1>0, <5>1 DEF Refused, Pending, Spawns
        <5> QED BY <5>1, <5>2 DEF Refused, Pending, Spawned, Standing, Blocking
      <4> QED BY <1>0, <2>1, <3>2, <4>1, <4>2, <4>3 DEF ChainRow
    <3> QED BY <3>1, <3>2
  <2>3. A1 \subseteq A
    BY <2>1 DEF Live, Lively, Reads
  <2>4. ASSUME NEW k \in B1 PROVE k \in B
    <3>1. CASE k # g
      BY <1>0, <2>1, <2>4, <3>1 DEF Late, Writes
    <3>2. CASE k = g
      <4>1. Loose(tk[g], vs, rep, ruling'[g]) /\ (tk[g].state = "superseded" \/ IsLast(task, g))
        BY <2>1, <2>4, <3>2 DEF Late
      <4>2. Loose(task[g], votes[g], report[g], ruling[g])
        <5>1. CASE task[g].state # "review"
          BY <5>1 DEF Reads
        <5>2. CASE task[g].state = "review" /\ ~Loose(tk[g], vs, rep, rul)
          <6>1. PICK f \in Findings : ruling'[g][f] = "open" /\ rul[f] # "open"
                       /\ ~(tk[g].state = "review" /\ RoundIn(tk[g], vs) /\ f \in Blocking(rep, tk[g].round))
            BY <4>1, <5>2 DEF Loose
          <6> QED BY <1>0, <5>2, <6>1 DEF Spawns, RoundIn, Reads
        <5> QED BY <5>1, <5>2 DEF Reads
      <4> QED BY <3>2, <4>1, <4>2 DEF Late, Reads
    <3> QED BY <3>1, <3>2
  <2>5. Entered /\ Counting(rejections') = Counting(rejections)
    <3> DEFINE Entries == [task : TaskIds, round : Rounds]
    <3>1. rejections \in Seq(Entries)
      BY DEF RoundTypes
    <3>2. \A i \in DOMAIN rejections : rejections[i].task \in TaskIds
      <4>1. \A i \in DOMAIN rejections : rejections[i] \in Entries
        <5> HIDE DEF Entries
        <5> QED BY <3>1
      <4> QED BY <4>1
    <3> QED BY <2>1, <3>2 DEF ChainInv, Reads
  <2> HIDE DEF A, B, A1, B1, Rows, Entered
  <2> QED BY <1>1, <1>2, <2>2, <2>3, <2>4, <2>5
<1>4. CASE RoundIsIn(tk, g, vs, rep, rul) /\ Passes(tk, g, rep, rul)
  <2>1. task' = [tk EXCEPT ![g].state = "approved"] /\ Standing(g, rep, rul, tk[g].round) = {} /\ rejections' = rejections
    BY <1>4 DEF Passes
  <2>2. /\ Rows /\ task[g].state # "absent"
        /\ \A k \in TaskIds \ {g} : (k \in A1 <=> k \in A) /\ (k \in B1 <=> k \in B)
        /\ g \in B1 => g \in B
        /\ \A k \in TaskIds : task[k].state # "absent" => task'[k].state # "absent"
    BY <1>0, <1>4, <2>1, RowsAfter
  <2>3. task[g].state # "superseded" /\ task[g].state # "blocked"
    BY <1>4, <2>1 DEF Reads, ChainRow, Refused, RoundIsIn
  <2>4. g \in A
    BY <2>2, <2>3 DEF Live, Lively
  <2>5. Entered /\ Counting(rejections') = Counting(rejections)
    <3> DEFINE Entries == [task : TaskIds, round : Rounds]
    <3>1. rejections \in Seq(Entries)
      BY DEF RoundTypes
    <3>2. \A i \in DOMAIN rejections : rejections[i].task \in TaskIds
      <4>1. \A i \in DOMAIN rejections : rejections[i] \in Entries
        <5> HIDE DEF Entries
        <5> QED BY <3>1
      <4> QED BY <4>1
    <3> QED BY <2>1, <2>2, <3>2 DEF ChainInv
  <2> HIDE DEF A, B, A1, B1, Rows, Entered
  <2> QED BY <1>1, <1>2, <2>2, <2>4, <2>5
<1>5. CASE RoundIsIn(tk, g, vs, rep, rul) /\ Rejects(tk, g, rep, rul)
  <2>1. Fail(tk, g) /\ Standing(g, rep, rul, tk[g].round) # {} /\ tk[g].round \in Rounds /\ tk[g].round # 0
    BY <1>5, ResearchConstants DEF Rejects, RoundIsIn, Rounds
  <2>2. task[g].state # "absent" /\ task[g].state # "blocked" /\ ChainRow(tk, g, vs, rep, rul)
        /\ (IsLast(tk, g) <=> IsLast(task, g))
    BY <1>5, <2>1 DEF Reads, ChainRow, RoundIsIn, IsLast
  <2>3. /\ Counting(rejections) \in Int /\ Counting(rejections') \in Int
        /\ Counting(rejections') <= Counting(rejections) + 1
        /\ IsLast(task, g) /\ ~Spent(g) => Counting(rejections') <= Counting(rejections)
        /\ \A i \in DOMAIN rejections' : task[rejections'[i].task].state # "absent"
    BY <2>1, <2>2, FailCases, FailCosts
  <2>4. \A i \in DOMAIN rejections' : rejections'[i].task \in TaskIds
    <3> DEFINE Entries == [task : TaskIds, round : Rounds]
               e == [task |-> g, round |-> tk[g].round]
    <3>1. rejections \in Seq(Entries) /\ e \in Entries /\ rejections' = Append(rejections, e)
      BY <2>1, FailCases DEF RoundTypes
    <3>2. \A i \in DOMAIN rejections' : rejections'[i] \in Entries
      <4> HIDE DEF Entries, e
      <4> QED BY <3>1
    <3> QED BY <3>2
  <2>5. CASE ~Spent(g) /\ tk[g].round > Threshold(tk[g].tier) /\ HasNextTier(tk[g].tier)
             /\ Supersede(tk, g, "ready", tk[g].tier + 1)
    <3>1. /\ IsLast(task, g) /\ g \in A /\ Rows /\ A1 \subseteq (A \ {g}) \cup {g + 1} /\ B1 \subseteq B
          /\ \A k \in TaskIds : task[k].state # "absent" => task'[k].state # "absent"
      BY <1>0, <1>5, <2>1, <2>5, RowsClimb
    <3>2. Entered
      BY <2>3, <2>4, <3>1
    <3> HIDE DEF A, B, A1, B1, Rows, Entered
    <3> QED BY <1>2, <2>3, <2>5, <3>1, <3>2
  <2>6. CASE Spent(g) /\ task' = [tk EXCEPT ![g].state = "blocked"]
    <3>1. /\ Rows /\ g \notin A1
          /\ \A k \in TaskIds \ {g} : (k \in A1 <=> k \in A) /\ (k \in B1 <=> k \in B)
          /\ g \in B1 => g \in B /\ IsLast(task, g)
          /\ \A k \in TaskIds : task[k].state # "absent" => task'[k].state # "absent"
      BY <1>0, <1>5, <2>6, RowsAfter
    <3>2. Entered
      BY <2>3, <2>4, <3>1
    <3>3. CASE task[g].state = "superseded"
      <4>1. g \in B /\ ~IsLast(task, g)
        BY <2>2, <3>3 DEF Late, Reads, ChainRow
      <4> HIDE DEF A, B, A1, B1, Rows, Entered
      <4> QED BY <1>1, <1>2, <2>3, <3>1, <3>2, <4>1
    <3>4. CASE task[g].state # "superseded"
      <4>1. g \in A
        BY <2>2, <3>4 DEF Live, Lively
      <4> HIDE DEF A, B, A1, B1, Rows, Entered
      <4> QED BY <1>1, <1>2, <2>3, <3>1, <3>2, <4>1
    <3> QED BY <3>3, <3>4
  <2>7. ASSUME ~Spent(g), ~(tk[g].round > Threshold(tk[g].tier) /\ HasNextTier(tk[g].tier)),
               NEW s \in {"blocked", "ready"}, task' = [tk EXCEPT ![g].state = s]
        PROVE  ChainInv'
    <3>1. /\ Rows
          /\ \A k \in TaskIds \ {g} : (k \in A1 <=> k \in A) /\ (k \in B1 <=> k \in B)
          /\ g \in B1 => g \in B
          /\ \A k \in TaskIds : task[k].state # "absent" => task'[k].state # "absent"
      BY <1>0, <1>5, <2>7, RowsAfter
    <3>2. Entered
      BY <2>3, <2>4, <3>1
    <3>3. IsLast(task, g) /\ task[g].state # "superseded"
      BY <2>2, <2>7 DEF ChainRow, Reads
    <3>4. g \in A
      BY <2>2, <3>3 DEF Live, Lively
    <3> HIDE DEF A, B, A1, B1, Rows, Entered
    <3> QED BY <1>1, <1>2, <2>3, <2>7, <3>1, <3>2, <3>3, <3>4
  <2> QED BY <2>1, <2>5, <2>6, <2>7, FailCases
<1> QED BY <1>0, <1>3, <1>4, <1>5

LEMMA ReviewChain ==
  ASSUME RoundTypes, ChainInv, NEW g \in TaskIds, NEW n \in Rounds, NEW rv \in Reviewers,
         NEW said \in Says(g, n, rv), SubmitReview(g, n, rv, said)
  PROVE  ChainInv'
<1> DEFINE t == task[g]
           row == [f \in Findings |-> IF RaisedBy[f] = rv THEN said[f] ELSE report[g][n][f]]
           vs == [votes[g] EXCEPT ![n] = @ \cup {rv}]
           rep == [report[g] EXCEPT ![n] = row]
<1>1. /\ votes' = [votes EXCEPT ![g] = vs] /\ report' = [report EXCEPT ![g] = rep]
      /\ n <= t.round /\ rv \notin votes[g][n] /\ Aggregate(task, g, vs, rep, ruling[g])
      /\ UNCHANGED <<env, acts, disputed>>
  BY DEF SubmitReview
<1>2. /\ \A m \in Rounds \ {n} : vs[m] = votes[g][m] /\ rep[m] = report[g][m]
      /\ vs[n] = votes[g][n] \cup {rv}
  <2> HIDE DEF row
  <2> QED BY DEF RoundTypes
<1>3. /\ votes'[g] = vs /\ report'[g] = rep
      /\ \A k \in TaskIds \ {g} : votes'[k] = votes[k] /\ report'[k] = report[k]
  <2> HIDE DEF vs, rep
  <2> QED BY <1>1 DEF RoundTypes
<1> HIDE DEF row, vs, rep
<1>4. t.round \in Rounds /\ (n < t.round \/ n = t.round) /\ votes[g][n] # Reviewers
  BY <1>1, ResearchConstants DEF RoundTypes, TaskRows, Rounds
<1>5. votes[g][t.round] = Reviewers => vs[t.round] = Reviewers /\ rep[t.round] = report[g][t.round]
  BY <1>2, <1>4
<1>6. ChainRow(task, g, votes[g], report[g], ruling[g])
  BY DEF ChainInv
<1>7. ChainRow(task, g, vs, rep, ruling[g])
  <2>1. Refused(g, t, votes[g], report[g], ruling[g]) => Refused(g, t, vs, rep, ruling[g])
    BY <1>5 DEF Refused, RoundIn, Pending, Spawned, Standing, Blocking
  <2> QED BY <1>6, <2>1 DEF ChainRow
<1>8. Loose(t, vs, rep, ruling[g]) => Loose(t, votes[g], report[g], ruling[g])
  <2>1. \A m \in Rounds : votes[g][m] = Reviewers => vs[m] = Reviewers
    BY <1>2, <1>4
  <2>2. RoundIn(t, votes[g]) => RoundIn(t, vs) /\ Blocking(rep, t.round) = Blocking(report[g], t.round)
    BY <1>5 DEF RoundIn, Blocking
  <2> QED BY <2>1, <2>2 DEF Loose
<1>9. t.state = "review" \/ Loose(t, votes[g], report[g], ruling[g])
  BY <1>4 DEF Loose
<1>10. TaskRows(task) /\ ruling[g] \in [Findings -> Rulings] /\ \A f \in Findings : ruling[g][f] # "none" => f \in disputed[g]
  BY DEF RoundTypes
<1>11. Reads(task, g, vs, rep, ruling[g])
  BY <1>7, <1>8, <1>9, <1>10 DEF Reads
<1> QED BY <1>1, <1>3, <1>10, <1>11, AggregateChain

\* A ruling comes in, or will not come any more.
LEMMA RulingReads ==
  ASSUME RoundTypes, ChainInv, NEW g \in TaskIds, NEW f \in Findings, ruling[g][f] = "open",
         NEW r \in {"upheld", "overturned", "failed"}, NEW rul, rul = [ruling[g] EXCEPT ![f] = r]
  PROVE  Reads(task, g, votes[g], report[g], rul) /\ rul \in [Findings -> Rulings]
<1>1. /\ rul \in [Findings -> Rulings] /\ f \in disputed[g]
      /\ \A h \in Findings : rul[h] # "none" => h \in disputed[g]
      /\ \A h \in Findings \ {f} : rul[h] = ruling[g][h]
      /\ \A h \in Findings : rul[h] = "open" => ruling[g][h] = "open"
  BY DEF RoundTypes, Rulings
<1>2. ChainRow(task, g, votes[g], report[g], ruling[g]) /\ TaskRows(task)
  BY DEF ChainInv, RoundTypes
<1>3. ASSUME Refused(g, task[g], votes[g], report[g], ruling[g])
      PROVE  Refused(g, task[g], votes[g], report[g], rul)
  <2>1. f \notin Blocking(report[g], task[g].round)
    BY <1>1, <1>3 DEF Refused, Pending
  <2>2. Blocking(report[g], task[g].round) \subseteq Findings
    BY DEF Blocking
  <2> HIDE DEF Blocking
  <2> QED BY <1>1, <1>3, <2>1, <2>2 DEF Refused, Pending, Spawned, Standing
<1>4. ChainRow(task, g, votes[g], report[g], rul)
  BY <1>1, <1>2, <1>3 DEF ChainRow
<1>5. Loose(task[g], votes[g], report[g], rul) => Loose(task[g], votes[g], report[g], ruling[g])
  BY <1>1 DEF Loose
<1>6. task[g].state = "review" \/ Loose(task[g], votes[g], report[g], ruling[g])
  BY DEF Loose
<1> QED BY <1>1, <1>2, <1>4, <1>5, <1>6 DEF Reads

LEMMA RulingChain ==
  ASSUME RoundTypes, ChainInv, NEW g \in TaskIds, NEW f \in Findings, NEW r \in {"upheld", "overturned"},
         SubmitRuling(g, f, r)
  PROVE  ChainInv'
<1>1. PICK rul : /\ rul = [ruling[g] EXCEPT ![f] = r] /\ ruling[g][f] = "open"
                 /\ Aggregate(task, g, votes[g], report[g], rul) /\ UNCHANGED <<env, acts, votes, report, disputed>>
  BY DEF SubmitRuling
<1>2. Reads(task, g, votes[g], report[g], rul) /\ rul \in [Findings -> Rulings]
  BY <1>1, RulingReads
<1>3. /\ votes'[g] = votes[g] /\ report'[g] = report[g] /\ UNCHANGED <<env, acts, disputed>>
      /\ \A k \in TaskIds \ {g} : votes'[k] = votes[k] /\ report'[k] = report[k]
  BY <1>1
<1> QED BY <1>1, <1>2, <1>3, AggregateChain

\* What an operator calls off is not waited for any more: nothing comes of it.
LEMMA FailChain ==
  ASSUME RoundTypes, ChainInv, NEW g \in TaskIds, NEW f \in Findings, FailAdjudication(g, f)
  PROVE  ChainInv'
<1>1. PICK rul : /\ rul = [ruling[g] EXCEPT ![f] = "failed"] /\ ruling[g][f] = "open"
                 /\ ruling' = [ruling EXCEPT ![g] = rul] /\ acts > 0 /\ acts' = acts - 1
                 /\ UNCHANGED <<env, task, votes, report, disputed, rejections, followUps>>
  BY DEF FailAdjudication, Spend
<1>2. Reads(task, g, votes[g], report[g], rul)
  BY <1>1, RulingReads
<1>3. ruling'[g] = rul /\ \A k \in TaskIds \ {g} : ruling'[k] = ruling[k]
  BY <1>1 DEF RoundTypes
<1>4. ASSUME NEW k \in TaskIds PROVE ChainRow(task, k, votes[k], report[k], ruling[k])'
  <2>1. PICK rl : rl = ruling'[k] /\ ChainRow(task, k, votes[k], report[k], rl)
    BY <1>2, <1>3 DEF Reads, ChainInv
  <2> QED
    BY <1>1, <2>1
       DEF ChainRow, IsLast, Refused, RoundIn, Pending, Spawned, Standing, Blocking, IsBlocking, Severe, Threshold, HasNextTier
<1> DEFINE A == Live(task)
           B == Late(task, votes, report, ruling)
           B1 == Late(task', votes', report', ruling')
           c == Counting(rejections)
           a == Cardinality(A)  b == Cardinality(B)  b1 == Cardinality(B1)
           m == env.budget  e == env.acts
<1>5. /\ B1 \subseteq B /\ A \in SUBSET TaskIds /\ B \in SUBSET TaskIds /\ B1 \in SUBSET TaskIds
      /\ Live(task') = A /\ Counting(rejections') = c
  <2>1. B1 \subseteq B
    BY <1>1, <1>2, <1>3 DEF Late, Reads
  <2> QED BY <1>1, <2>1 DEF Live, Late
<1>6. c \in Int /\ m \in Nat /\ e \in Nat /\ acts \in Nat /\ acts <= e /\ c + a + b <= m + (e - acts)
  <2>1. m \in Nat /\ e \in Nat
    BY ResearchConstants DEF RoundTypes
  <2>2. Len(rejections) \in Nat
    BY DEF RoundTypes
  <2> QED BY <2>1, <2>2 DEF Counting, ChainInv
<1> HIDE DEF A, B, B1, c
<1>7. a \in Nat /\ b \in Nat /\ b1 \in Nat /\ b1 <= b
  BY <1>5, Sizes
<1> HIDE DEF a, b, b1, m, e
<1>8. c + a + b1 <= m + (e - acts') /\ acts' \in Nat /\ acts' <= e
  BY <1>1, <1>6, <1>7
<1>9. Counting(rejections') + Cardinality(Live(task')) + Cardinality(Late(task', votes', report', ruling'))
        <= env.budget + (env.acts - acts')
  BY <1>5, <1>8 DEF a, b1, B1, m, e
<1>10. \A i \in DOMAIN rejections' : task'[rejections'[i].task].state # "absent"
  BY <1>1 DEF ChainInv
<1> QED BY <1>1, <1>4, <1>8, <1>9, <1>10, ChainBuilt DEF e

LEMMA ReleaseChain ==
  ASSUME RoundTypes, ChainInv, NEW g \in TaskIds, ReleaseTask(g)
  PROVE  ChainInv'
<1>1. PICK released :
        /\ TaskRows(released) /\ \A k \in TaskIds \ {g} : released[k] = task[k]
        /\ \A k \in TaskIds : released[k].state = task[k].state /\ released[k].round = task[k].round /\ released[k].tier = task[k].tier
        /\ \/ DecidesOnRelease(g) /\ Aggregate(released, g, votes[g], report[g], ruling[g])
           \/ task' = released /\ UNCHANGED <<ruling, rejections, followUps>>
        /\ UNCHANGED <<env, acts, votes, report, disputed>>
  <2> DEFINE released == [task EXCEPT ![g].held = FALSE]
  <2>1. /\ TaskRows(released) /\ \A k \in TaskIds \ {g} : released[k] = task[k]
        /\ \A k \in TaskIds : released[k].state = task[k].state /\ released[k].round = task[k].round /\ released[k].tier = task[k].tier
    BY DEF RoundTypes, TaskRows, TaskFields
  <2>2. /\ \/ DecidesOnRelease(g) /\ Aggregate(released, g, votes[g], report[g], ruling[g])
           \/ task' = released /\ UNCHANGED <<ruling, rejections, followUps>>
        /\ UNCHANGED <<env, acts, votes, report, disputed>>
    BY DEF ReleaseTask
  <2> HIDE DEF released
  <2> QED BY <2>1, <2>2
<1>2. \A k \in TaskIds : IsLast(released, k) <=> IsLast(task, k)
  BY <1>1 DEF IsLast
<1>3. CASE task' = released /\ UNCHANGED <<ruling, rejections, followUps>>
  <2>1. ASSUME NEW k \in TaskIds PROVE ChainRow(task, k, votes[k], report[k], ruling[k])'
    <3>1. ChainRow(task, k, votes[k], report[k], ruling[k])
      BY DEF ChainInv
    <3>2. PICK u : u = task'[k] /\ u.state = task[k].state /\ u.round = task[k].round /\ u.tier = task[k].tier
      BY <1>1, <1>3
    <3>3. IsLast(task, k)' <=> IsLast(task, k)
      BY <1>2, <1>3 DEF IsLast
    <3>4. votes' = votes /\ report' = report /\ ruling' = ruling /\ env' = env
      BY <1>1, <1>3
    <3>5. /\ Pending(k, report[k], ruling[k], u.round)' = Pending(k, report[k], ruling[k], task[k].round)
          /\ Standing(k, report[k], ruling[k], u.round)' = Standing(k, report[k], ruling[k], task[k].round)
      BY <1>1, <3>2, <3>4 DEF Pending, Spawned, Standing, Blocking, IsBlocking, Severe
    <3> QED
      BY <3>1, <3>2, <3>3, <3>4, <3>5 DEF ChainRow, Refused, RoundIn, Threshold, HasNextTier
  <2>2. Live(task') = Live(task)
    BY <1>1, <1>3 DEF Live, Lively
  <2>3. \A k \in TaskIds : Loose(task'[k], votes[k], report[k], ruling[k]) <=> Loose(task[k], votes[k], report[k], ruling[k])
    BY <1>1, <1>3 DEF Loose, RoundIn
  <2>4. Late(task', votes', report', ruling') = Late(task, votes, report, ruling)
    BY <1>1, <1>2, <1>3, <2>3 DEF Late
  <2>5. \A i \in DOMAIN rejections : rejections[i].task \in TaskIds
    <3> DEFINE Entries == [task : TaskIds, round : Rounds]
    <3>1. rejections \in Seq(Entries)
      BY DEF RoundTypes
    <3>2. \A i \in DOMAIN rejections : rejections[i] \in Entries
      <4> HIDE DEF Entries
      <4> QED BY <3>1
    <3> QED BY <3>2
  <2>6. \A i \in DOMAIN rejections' : task'[rejections'[i].task].state # "absent"
    BY <1>1, <1>3, <2>5 DEF ChainInv
  <2> QED BY <1>1, <1>3, <2>1, <2>2, <2>4, <2>6, ChainBuilt DEF ChainInv
<1>4. CASE DecidesOnRelease(g) /\ Aggregate(released, g, votes[g], report[g], ruling[g])
  <2>1. ChainRow(task, g, votes[g], report[g], ruling[g])
    BY DEF ChainInv
  <2>2. ChainRow(released, g, votes[g], report[g], ruling[g])
    BY <1>1, <1>2, <2>1 DEF ChainRow, Refused, RoundIn
  <2>3. Loose(released[g], votes[g], report[g], ruling[g]) => Loose(task[g], votes[g], report[g], ruling[g])
    BY <1>1 DEF Loose, RoundIn
  <2>4. task[g].state = "review"
    BY <1>4 DEF DecidesOnRelease
  <2>5. /\ \A f \in Findings : ruling[g][f] # "none" => f \in disputed[g]
        /\ ruling[g] \in [Findings -> Rulings]
    BY DEF RoundTypes
  <2>6. Reads(released, g, votes[g], report[g], ruling[g])
    BY <1>1, <2>2, <2>3, <2>4, <2>5 DEF Reads
  <2>7. /\ votes'[g] = votes[g] /\ report'[g] = report[g] /\ UNCHANGED <<env, acts, disputed>>
        /\ \A k \in TaskIds \ {g} : votes'[k] = votes[k] /\ report'[k] = report[k]
    BY <1>1
  <2> QED BY <1>4, <2>5, <2>6, <2>7, AggregateChain
<1> QED BY <1>1, <1>3, <1>4

\* A task that goes on its way, at an operator's expense or not.
LEMMA MoveChain ==
  ASSUME RoundTypes, ChainInv, NEW g \in TaskIds, NEW s \in {"ready", "in_progress", "blocked"},
         task' = [task EXCEPT ![g].state = s],
         UNCHANGED <<env, votes, report, disputed, ruling, rejections, followUps>>,
         task[g].state \notin {"absent", "superseded"},
         \/ acts' = acts /\ s # "blocked" /\ task[g].state \in {"backlog", "ready"}
         \/ acts' = acts - 1 /\ acts > 0 /\ s = "blocked" /\ task[g].state \in Active
         \/ acts' = acts - 1 /\ acts > 0 /\ s # "blocked" /\ task[g].state # "review"
  PROVE  ChainInv'
<1>1. PICK u : /\ task'[g] = u /\ u.state = s /\ u.round = task[g].round /\ u.tier = task[g].tier /\ u.round \in Nat
               /\ \A k \in TaskIds \ {g} : task'[k] = task[k]
  BY ResearchConstants DEF RoundTypes, TaskRows, TaskFields
<1>2. task[g].state # "review" => NoLooser(task[g], u, votes[g], report[g], ruling[g])
  BY <1>1 DEF NoLooser, Loose
<1>3. (Lively(u) <=> s # "blocked") /\ (task[g].state \in Active => Lively(task[g])) /\ (task[g].state \in {"backlog", "ready"} => Lively(task[g]))
  BY <1>1 DEF Lively, Active
<1>4. /\ u.round >= task[g].round /\ \A k \in TaskIds \ {g} : disputed'[k] = disputed[k]
      /\ u.state \notin {"absent", "superseded"}
  BY <1>1
<1>5. \/ /\ acts' = acts /\ (Lively(u) => Lively(task[g]))
         /\ NoLooser(task[g], u, votes[g], report[g], ruling[g])
      \/ /\ acts' = acts - 1 /\ acts > 0
         /\ (Lively(task[g]) /\ ~Lively(u)) \/ NoLooser(task[g], u, votes[g], report[g], ruling[g])
  BY <1>2, <1>3
<1> QED BY <1>1, <1>4, <1>5, IdleChain

\* The next round starts with what was loose in the one before.
LEMMA WorkChain ==
  ASSUME RoundTypes, ChainInv, NEW g \in TaskIds, NEW ds, SubmitWork(g, ds)
  PROVE  ChainInv'
<1>1. PICK u : /\ task' = [task EXCEPT ![g] = u] /\ u.state = "review" /\ u.round = task[g].round + 1 /\ u.tier = task[g].tier
               /\ task[g].state = "in_progress" /\ u.round \in Rounds /\ task[g].round \in Nat
  <2> DEFINE u == [task[g] EXCEPT !.state = "review", !.round = @ + 1]
  <2>1. task' = [task EXCEPT ![g] = u] /\ task[g].state = "in_progress" /\ task[g].round < MaxRound
    BY DEF SubmitWork
  <2>2. u.state = "review" /\ u.round = task[g].round + 1 /\ u.tier = task[g].tier /\ task[g].round \in 0..MaxRound
    BY DEF RoundTypes, TaskRows, TaskFields
  <2>3. u.round \in Rounds /\ task[g].round \in Nat
    BY <2>1, <2>2, ResearchConstants DEF Rounds
  <2> HIDE DEF u
  <2> QED BY <2>1, <2>2, <2>3
<1>2. UNCHANGED <<env, acts, votes, report, ruling, rejections, followUps>> /\ disputed' = [disputed EXCEPT ![g] = @ \cup ds]
  BY DEF SubmitWork
<1>3. task'[g] = u /\ \A k \in TaskIds \ {g} : task'[k] = task[k] /\ disputed'[k] = disputed[k]
  BY <1>1, <1>2 DEF RoundTypes, TaskRows
<1>4. NoLooser(task[g], u, votes[g], report[g], ruling[g])
  <2> SUFFICES ASSUME Loose(u, votes[g], report[g], ruling[g]) PROVE Loose(task[g], votes[g], report[g], ruling[g])
    BY DEF NoLooser
  <2>1. CASE \E m \in Rounds : m < u.round /\ votes[g][m] # Reviewers
    <3>1. PICK m \in Rounds : votes[g][m] # Reviewers /\ (m < task[g].round \/ m = task[g].round)
      BY <1>1, <2>1, ResearchConstants DEF Rounds
    <3> QED BY <1>1, <3>1 DEF Loose
  <2>2. CASE \E f \in Findings : ruling[g][f] = "open"
    BY <1>1, <2>2 DEF Loose
  <2> QED BY <1>1, <2>1, <2>2 DEF Loose
<1>5. /\ task[g].state \notin {"absent", "superseded"} /\ u.state \notin {"absent", "superseded"}
      /\ u.round \in Nat /\ u.round >= task[g].round /\ (Lively(u) => Lively(task[g]))
  BY <1>1 DEF Lively
<1> QED BY <1>1, <1>2, <1>3, <1>4, <1>5, IdleChain

LEMMA HoldChain ==
  ASSUME RoundTypes, ChainInv, NEW g \in TaskIds, HoldTask(g)
  PROVE  ChainInv'
<1>1. PICK u : /\ task'[g] = u /\ u.state = task[g].state /\ u.round = task[g].round /\ u.tier = task[g].tier /\ u.round \in Nat
               /\ \A k \in TaskIds \ {g} : task'[k] = task[k]
               /\ task[g].state \in Active /\ acts' = acts - 1 /\ acts > 0
               /\ UNCHANGED <<env, votes, report, disputed, ruling, rejections, followUps>>
  <2> DEFINE u == [task[g] EXCEPT !.held = TRUE]
  <2>1. /\ task' = [task EXCEPT ![g] = u] /\ task[g].state \in Active /\ acts' = acts - 1 /\ acts > 0
        /\ UNCHANGED <<env, votes, report, disputed, ruling, rejections, followUps>>
    BY DEF HoldTask, Spend
  <2>2. DOMAIN task = TaskIds /\ DOMAIN task[g] = TaskFields /\ task[g].round \in Nat
    BY ResearchConstants DEF RoundTypes, TaskRows
  <2>3. u.state = task[g].state /\ u.round = task[g].round /\ u.tier = task[g].tier
    BY <2>2 DEF TaskFields
  <2> HIDE DEF u
  <2> QED BY <2>1, <2>2, <2>3
<1>2. NoLooser(task[g], u, votes[g], report[g], ruling[g])
  BY <1>1 DEF NoLooser, Loose, RoundIn
<1>3. /\ task[g].state \notin {"absent", "superseded"} /\ u.round >= task[g].round
      /\ \A k \in TaskIds \ {g} : disputed'[k] = disputed[k]
  BY <1>1 DEF Active
<1> QED BY <1>1, <1>2, <1>3, IdleChain

LEMMA ChainKept == Never({"supersede"}) /\ RoundTypes /\ ChainInv /\ [Next]_vars => ChainInv'
<1> SUFFICES ASSUME Never({"supersede"}), RoundTypes, ChainInv, [Next]_vars PROVE ChainInv'
  OBVIOUS
<1>1. CASE UNCHANGED vars
  <2>1. ASSUME NEW k \in TaskIds PROVE ChainRow(task, k, votes[k], report[k], ruling[k])'
    <3>1. ChainRow(task, k, votes[k], report[k], ruling[k])
      BY DEF ChainInv
    <3> QED
      BY <1>1, <3>1
         DEF vars, ChainRow, IsLast, Refused, RoundIn, Pending, Spawned, Standing, Blocking, IsBlocking, Severe, Threshold, HasNextTier
  <2>2. /\ Live(task') = Live(task) /\ Late(task', votes', report', ruling') = Late(task, votes, report, ruling)
        /\ rejections' = rejections /\ task' = task /\ acts' = acts /\ env' = env
    BY <1>1 DEF vars
  <2> QED BY <2>1, <2>2, ChainBuilt DEF ChainInv
<1>2. ASSUME NEW g \in TaskIds, ClaimTask(g) PROVE ChainInv'
  BY <1>2, MoveChain DEF ClaimTask
<1>3. ASSUME NEW g \in TaskIds, PromoteTask(g) PROVE ChainInv'
  BY <1>3, MoveChain DEF PromoteTask
<1>4. ASSUME NEW g \in TaskIds, NEW to \in {"blocked", "ready"}, Transition(g, to) PROVE ChainInv'
  <2>1. /\ task' = [task EXCEPT ![g].state = to] /\ acts' = acts - 1 /\ acts > 0
        /\ UNCHANGED <<env, votes, report, disputed, ruling, rejections, followUps>>
        /\ \/ to = "blocked" /\ task[g].state \in Active
           \/ to = "ready" /\ task[g].state \in {"blocked", "approved"}
    BY <1>4 DEF Transition, Spend
  <2>2. task[g].state \notin {"absent", "superseded"}
    BY <2>1 DEF Active
  <2> QED BY <2>1, <2>2, MoveChain
<1>5. ASSUME NEW g \in TaskIds, SupersedeTask(g) PROVE FALSE
  BY <1>5 DEF SupersedeTask, Spend, Never
<1> QED
  BY <1>1, <1>2, <1>3, <1>4, <1>5, WorkChain, ReviewChain, RulingChain, ReleaseChain, HoldChain, FailChain
     DEF Next, Work, Adjudicate, Operate, Review

LEMMA ChainMeansBudget == RoundTypes /\ ChainInv => BudgetHolds
<1> SUFFICES ASSUME RoundTypes, ChainInv PROVE BudgetHolds
  OBVIOUS
<1> DEFINE A == Live(task)
           B == Late(task, votes, report, ruling)
           a == Cardinality(A)
           b == Cardinality(B)
           c == Counting(rejections)
           n == Len(rejections)
           m == env.budget
           e == env.acts
<1>1. A \in SUBSET TaskIds /\ B \in SUBSET TaskIds
  BY DEF Live, Late
<1>2. a \in Nat /\ b \in Nat
  BY <1>1, Sizes
<1>3. m \in Nat \ {0} /\ e \in Nat /\ n \in Nat /\ acts \in Nat /\ acts <= e
  BY ResearchConstants DEF RoundTypes, ChainInv
<1>4. c = IF n < m THEN m - 1 ELSE n
  BY DEF Counting
<1>5. c + a + b <= m + (e - acts)
  BY DEF ChainInv
<1> HIDE DEF a, b, c, n, m, e, A, B
<1>6. n <= m + (e - acts)
  BY <1>2, <1>3, <1>4, <1>5
<1>7. ASSUME acts = e, n = m PROVE A = {}
  <2>1. a = 0
    BY <1>2, <1>3, <1>4, <1>5, <1>7
  <2>2. IsFiniteSet(TaskIds)
    BY FS_Interval, ResearchConstants DEF TaskIds
  <2>3. IsFiniteSet(A)
    BY <1>1, <2>2, FS_Subset
  <2> QED BY <2>1, <2>3, FS_EmptySet DEF a
<1> QED BY <1>6, <1>7 DEF BudgetHolds, A, Live, Lively, n, m, e

LEMMA ChainAlways == Spec => [](Never({"supersede"}) => ChainInv)
<1>1. Init => RoundTypes /\ (Never({"supersede"}) => ChainInv)
  BY InitHolds, InitChain
<1>2. (Never({"supersede"}) => ChainInv) /\ RoundTypes /\ [Next]_vars => (Never({"supersede"}) => ChainInv)'
  BY EnvIsFixed, ChainKept DEF Never
<1> QED BY <1>1, <1>2, TypesKept, PTL DEF Spec

\* The budget bounds the rejected rounds of a chain, through all its escalations; once it is
\* spent the whole chain is stopped, and each act of an operator buys at most one more round
\* (countChainWideRejectedRounds, applyRoundCircuitBreaker).
THEOREM BudgetAlwaysHolds == Spec => []BudgetHolds
<1>1. RoundTypes /\ (Never({"supersede"}) => ChainInv) => BudgetHolds
  BY ChainMeansBudget DEF BudgetHolds
<1>2. Init => RoundTypes
  BY InitHolds
<1>3. Spec => []RoundTypes
  BY <1>2, TypesKept, PTL DEF Spec
<1> QED BY <1>1, <1>3, ChainAlways, PTL
=============================================================================
