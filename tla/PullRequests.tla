---------------------------- MODULE PullRequests ----------------------------
(***************************************************************************)
(* Tasks whose work is a pull request: their rows on the board, the pull    *)
(* requests on the forge, and the merge agent (odonian merge), which works  *)
(* through merge rows with one call at a time to the board or the forge     *)
(* and may die between any two.  PRWatch adds the server's watcher.         *)
(*                                                                         *)
(* Board is the detailed model of a round; here a round is a submission and *)
(* its decision.                                                           *)
(***************************************************************************)
EXTENDS Naturals, FiniteSets, SequencesExt, FiniteSetsExt

CONSTANTS
  Tasks,
  PRs,               \* the pull requests
  Mergers,           \* processes of the merge agent
  Environments,      \* who does what, and how often, around merge agent and watcher
  MaxRows            \* bound: merge rows

ASSUME PRConstants ==
  /\ MaxRows \in Nat /\ Tasks # {} /\ PRs # {}
  /\ \A e \in Environments :
       /\ e.taskOf \in [PRs -> Tasks] /\ e.until \in Nat /\ e.tasks \subseteq Tasks
       /\ \A t \in e.tasks : e.opened[t] \in PRs /\ e.taskOf[e.opened[t]] = t

VARIABLES
  env, left,         \* the environment, and how often it may still act
  task,              \* the tasks
  links,             \* the pr links of each task, in the order of their random ids
  row,               \* the merge rows
  pr,                \* the pull requests on the forge
  merger,            \* the merge agent's processes
  now                \* the clock

boardVars == <<task, links, row>>
vars1 == <<env, left, task, links, row, pr, merger, now>>

RowIds == 1..MaxRows
Active == {"backlog", "ready", "in_progress", "review", "approved"}
AgentMerge(t) == t \in env.agentMerge
TaskOf(p) == env.taskOf[p]     \* the task a pull request is opened for

NoRow == [state |-> "none", target |-> CHOOSE t \in Tasks : TRUE, leased |-> FALSE]
Idle == [pc |-> "idle", row |-> 0, pr |-> CHOOSE p \in PRs : TRUE]

NewLink(p) == [pr |-> p, tombstoned |-> FALSE]

\* The tasks of an environment have been submitted with a pull request each.
PRInit ==
  /\ env \in Environments /\ left = [submissions |-> env.submissions, acts |-> env.acts]
  /\ task = [t \in Tasks |-> [state |-> IF t \in env.tasks THEN "review" ELSE "backlog",
                              updated |-> 0, approved |-> 0]]
  /\ links = [t \in Tasks |-> IF t \in env.tasks THEN <<NewLink(env.opened[t])>> ELSE <<>>]
  /\ row = [i \in RowIds |-> NoRow]
  /\ pr = [p \in PRs |-> [state |-> IF p \in {env.opened[t] : t \in env.tasks} THEN "open" ELSE "none", conflicts |-> FALSE,
                          found |-> TRUE, decision |-> "pending", reviewed |-> 0]]
  /\ merger = [m \in Mergers |-> Idle]
  /\ now = 0

\* What people, the forge and accidents do, they do a bounded number of times.
Spend(act) == act \in env.may /\ left.acts > 0 /\ left' = [left EXCEPT !.acts = @ - 1]

-----------------------------------------------------------------------------
(* The board *)

\* Every write of a row moves its updated_at.
Moved(t, s) == [task EXCEPT ![t] = [@ EXCEPT !.state = s, !.updated = now]]

MayMove(s, to) ==
  \/ to = "done" /\ s = "approved"
  \/ to = "ready" /\ s \in {"approved", "blocked"}
  \/ to = "blocked" /\ s \in Active
  \/ to = "failed" /\ s \in Active \cup {"blocked"}
  \/ to = "abandoned" /\ s = "approved"
TransitionTask(t, to) == MayMove(task[t].state, to) /\ task' = Moved(t, to)

\* A merge row has no review: it is done out of in_progress, in a mutant out of approved.
RowMayMoveAsTask(i, to) == MayMove(row[i].state, to)
RowMayMove(i, to) ==
  IF to = "done" THEN row[i].state = "in_progress" ELSE MayMove(row[i].state, to)

LinkedPRs(t) == {l.pr : l \in ToSet(links[t])}
\* The first link of a task, the first that is not tombstoned, as sets of at most one.
FirstLink(t) == IF links[t] = <<>> THEN {} ELSE {links[t][1]}
FirstActiveLink(t) ==
  {links[t][i] : i \in {i \in DOMAIN links[t] :
     ~links[t][i].tombstoned /\ \A k \in 1..(i - 1) : links[t][k].tombstoned}}

TombstoneLink(t, p) ==
  links' = [links EXCEPT ![t] =
              [i \in DOMAIN links[t] |->
                 IF links[t][i].pr = p THEN [links[t][i] EXCEPT !.tombstoned = TRUE]
                 ELSE links[t][i]]]

\* A worker claims the task and pushes, with the base merged in: to the pull request that is
\* open, or to a new one.
OpenPRs(t) == {p \in PRs : TaskOf(p) = t /\ pr[p].state = "open"}
ClaimTask(t) ==
  /\ task[t].state = "ready" /\ task' = Moved(t, "in_progress")
  /\ \E p \in IF OpenPRs(t) # {} THEN OpenPRs(t) ELSE {p \in PRs : TaskOf(p) = t} :
       pr' = IF pr[p].state \in {"none", "open"}
             THEN [pr EXCEPT ![p] = [@ EXCEPT !.state = "open", !.conflicts = FALSE]] ELSE pr
  /\ UNCHANGED <<env, left, links, row, merger, now>>

\* A link that is there already is neither added again nor brought back to life.
SubmitTask(t, p) ==
  /\ TaskOf(p) = t /\ pr[p].state # "none"
  /\ task[t].state = "in_progress"
  /\ left.submissions > 0 /\ left' = [left EXCEPT !.submissions = @ - 1]
  /\ task' = Moved(t, "review")
  /\ IF p \in LinkedPRs(t) THEN UNCHANGED links
     ELSE \E i \in 1..(Len(links[t]) + 1) :
            links' = [links EXCEPT ![t] = InsertAt(@, i, NewLink(p))]
  /\ UNCHANGED <<env, row, pr, merger, now>>

\* An approved agent_merge task with an active pull request gets a merge row.
NextRow(i) == row[i].state = "none" /\ \A k \in 1..(i - 1) : row[k].state # "none"
Approve(t) ==
  /\ task[t].state = "review"
  /\ task' = [task EXCEPT ![t] = [@ EXCEPT !.state = "approved", !.updated = now, !.approved = now]]
  /\ IF AgentMerge(t) /\ FirstActiveLink(t) # {}
     THEN \E i \in RowIds : NextRow(i)
            /\ row' = [row EXCEPT ![i] = [state |-> "ready", target |-> t, leased |-> FALSE]]
     ELSE UNCHANGED row
  /\ UNCHANGED <<env, left, links, pr, merger, now>>
Reject(t) ==
  /\ task[t].state = "review"
  /\ task' = Moved(t, "ready")
  /\ UNCHANGED <<env, left, links, row, pr, merger, now>>

ConvergeExternallyMergedTask(t) ==
  /\ task[t].state \in {"ready", "in_progress", "review", "blocked", "approved"}
  /\ task' = Moved(t, "done")

\* An operator moves or supersedes a task, or writes a column of it that is not modelled here:
\* held, escalate or review_models.  That an operator may also say that an approved task is
\* done, merged or not, is left out.
Operate(t) ==
  /\ t \in env.tasks
  /\ \/ Spend("bounce") /\ TransitionTask(t, "ready")
     \/ Spend("block") /\ TransitionTask(t, "blocked")
     \/ Spend("supersede") /\ task[t].state \in Active /\ task' = Moved(t, "superseded")
     \/ Spend("patch") /\ task[t].state \in Active \cup {"blocked"} /\ task' = Moved(t, task[t].state)
  /\ UNCHANGED <<env, links, row, pr, merger, now>>

\* closeSupersededPR runs once after a supersession, or does not get through to the forge.
CloseSupersededPR(t) ==
  /\ task[t].state = "superseded" /\ Spend("close_inline")
  /\ \E l \in FirstLink(t) :
       pr[l.pr].state = "open" /\ pr[l.pr].found /\ pr' = [pr EXCEPT ![l.pr].state = "closed"]
  /\ UNCHANGED <<env, boardVars, merger, now>>

-----------------------------------------------------------------------------
(* The forge, and the people on it *)

People(p) ==
  /\ pr[p].state # "none"
  /\ \/ Spend("merge") /\ pr[p].state = "open" /\ ~pr[p].conflicts
        /\ pr' = [pr EXCEPT ![p].state = "merged"]
     \/ Spend("close") /\ pr[p].state = "open" /\ pr' = [pr EXCEPT ![p].state = "closed"]
     \/ Spend("conflict") /\ pr[p].state = "open" /\ ~pr[p].conflicts
        /\ pr' = [pr EXCEPT ![p].conflicts = TRUE]
     \/ Spend("vanish") /\ pr[p].found /\ pr' = [pr EXCEPT ![p].found = FALSE]
  /\ UNCHANGED <<env, boardVars, merger, now>>

\* A review of any kind is the latest now.  What the reviews decide together may stay as it
\* is: by a comment, or by one approval next to another reviewer's request for changes.
Review(p) ==
  /\ pr[p].state = "open" /\ Spend("review")
  /\ \E decision \in {pr[p].decision, "approved", "changes_requested"} :
       pr' = [pr EXCEPT ![p] = [@ EXCEPT !.decision = decision, !.reviewed = now]]
  /\ UNCHANGED <<env, boardVars, merger, now>>

\* SquashMerge: the forge merges an open pull request without conflicts; a refusal is looked
\* into, and a pull request that is merged already counts as merged.
Squashes(p) == pr[p].found /\ pr[p].state = "open" /\ ~pr[p].conflicts
AlreadySettled(p) == pr[p].found /\ pr[p].state \in {"merged", "closed"}   \* a mutant
AlreadyMerged(p) == pr[p].found /\ pr[p].state = "merged"
\* PRMergeability and NeedsRework.
NeedsRework(p) == pr[p].found /\ pr[p].state # "merged" /\ pr[p].conflicts

-----------------------------------------------------------------------------
(* The merge agent: executeMerge and bounceForRework *)

At(m, pc) == merger[m].pc = pc
Go(m, pc) == merger' = [merger EXCEPT ![m].pc = pc]
Exit(m) == merger' = [merger EXCEPT ![m] = Idle]
Parent(m) == row[merger[m].row].target

\* A lease is not renewed while a merge runs; what it may do then does not depend on it.
MergeClaim(m, i) ==
  /\ At(m, "idle") /\ m \in env.mergers
  /\ row[i].state = "ready" \/ (row[i].state = "in_progress" /\ ~row[i].leased)
  /\ row' = [row EXCEPT ![i] = [@ EXCEPT !.state = "in_progress", !.leased = TRUE]]
  /\ merger' = [merger EXCEPT ![m] = [pc |-> "row", row |-> i, pr |-> Idle.pr]]
  /\ UNCHANGED <<env, left, task, links, pr, now>>

ReadRow(m) ==
  /\ At(m, "row")
  /\ IF row[merger[m].row].state = "done" THEN Exit(m) ELSE Go(m, "parent")

ReadParent(m) ==
  /\ At(m, "parent")
  /\ CASE task[Parent(m)].state = "approved" /\ FirstLink(Parent(m)) # {} ->
            \E l \in FirstLink(Parent(m)) :
              merger' = [merger EXCEPT ![m] = [@ EXCEPT !.pc = "squash", !.pr = l.pr]]
       [] task[Parent(m)].state = "done" -> Go(m, "reread")
       [] task[Parent(m)].state \in Active \ {"approved"} -> Go(m, "retire")
       [] OTHER -> Exit(m)

\* The answer of the forge may be lost after the merge.
Squash(m) ==
  LET p == merger[m].pr
  IN /\ At(m, "squash")
     /\ IF Squashes(p) THEN pr' = [pr EXCEPT ![p].state = "merged"] ELSE UNCHANGED pr
     /\ \/ Go(m, IF Squashes(p) \/ AlreadyMerged(p) THEN "refresh" ELSE "probe") /\ UNCHANGED left
        \/ Spend("lose") /\ Go(m, "probe")

Probe(m) ==
  /\ At(m, "probe")
  /\ IF NeedsRework(merger[m].pr) THEN Go(m, "bounce") ELSE Exit(m)

Refresh(m) ==
  /\ At(m, "refresh")
  /\ Go(m, IF task[Parent(m)].state = "done" THEN "reread" ELSE "advance")

\* The parent is done, unless it was moved on since it was read.
Advance(m) ==
  /\ At(m, "advance")
  /\ IF MayMove(task[Parent(m)].state, "done")
     THEN TransitionTask(Parent(m), "done") /\ Go(m, "reread")
     ELSE UNCHANGED task /\ Exit(m)

\* First the parent is bounced, then the row is retired.
Bounce(m) ==
  /\ At(m, "bounce")
  /\ IF MayMove(task[Parent(m)].state, "ready")
     THEN TransitionTask(Parent(m), "ready") /\ Go(m, "retire")
     ELSE UNCHANGED task /\ Exit(m)

Reread(m) ==
  /\ At(m, "reread")
  /\ IF row[merger[m].row].state = "done" THEN Exit(m) ELSE Go(m, "finish")

\* A transition of the row that is refused ends the run with an error.
EndRow(m, pc, to) ==
  /\ At(m, pc) /\ Exit(m)
  /\ row' = IF RowMayMove(merger[m].row, to) THEN [row EXCEPT ![merger[m].row].state = to] ELSE row

MergeStep(m) ==
  \/ ReadRow(m) \/ ReadParent(m) \/ Probe(m) \/ Refresh(m) \/ Reread(m)
MergeRun(m) ==
  /\ \/ MergeStep(m) /\ UNCHANGED <<left, task, row, pr>>
     \/ Squash(m) /\ UNCHANGED <<task, row>>
     \/ (Advance(m) \/ Bounce(m)) /\ UNCHANGED <<left, row, pr>>
     \/ (EndRow(m, "retire", "failed") \/ EndRow(m, "finish", "done")) /\ UNCHANGED <<left, task, pr>>
  /\ UNCHANGED <<env, links, now>>

Crash(m) ==
  /\ ~At(m, "idle") /\ Spend("crash") /\ Exit(m)
  /\ UNCHANGED <<env, boardVars, pr, now>>
Working(i) == \E m \in Mergers : ~At(m, "idle") /\ merger[m].row = i
LeaseLapses(i) ==
  /\ row[i].state = "in_progress" /\ row[i].leased
  /\ IF Working(i) THEN Spend("stall") ELSE UNCHANGED left
  /\ row' = [row EXCEPT ![i].leased = FALSE]
  /\ UNCHANGED <<env, task, links, pr, merger, now>>

Tick ==
  /\ now < env.until /\ now' = now + 1
  /\ UNCHANGED <<env, left, boardVars, pr, merger>>

Board ==
  \/ \E t \in Tasks : ClaimTask(t) \/ Approve(t) \/ Reject(t) \/ Operate(t) \/ CloseSupersededPR(t)
  \/ \E t \in Tasks, p \in PRs : SubmitTask(t, p)
MergeAgent ==
  \/ \E m \in Mergers : MergeRun(m) \/ Crash(m) \/ \E i \in RowIds : MergeClaim(m, i)
  \/ \E i \in RowIds : LeaseLapses(i)
=============================================================================
