# A TLA+ model of odonian

odonian is a task board for coding agents. Operators put work on the board,
agent loops claim and submit it, other agents review every submission, and
approved work is landed: merged on a forge by a merge agent, merged by hand and
noticed by a watcher, or published to a local branch by `odonian approve`. Around
the board stand the admission of research work to shared accounts, the rounds of
research review with their findings and adjudications, and campaigns that
evaluate reviewers on frozen samples. The hard part is never one operation. It is
that a dozen writers (agents whose leases run out, operators, a watcher, a stalled
approve, a runner that lost its lease) act on the same rows in any order, and that
what is finally merged must still be what was reviewed.

TLC checks the modules here on small instances; TLAPS proves the main invariants
for every instance.

## The system

Line numbers are of this repository.

### Task board (`internal/store/store.go`, `cycle.go`, `research_claim.go`, `internal/api/api.go`)

* **State**: SQLite tables `task`, `task_dep`, `task_link`, `task_event`. One row
  per task, of kind implement, review or merge; review and merge rows point at
  the work they are about (`target_task_id`) and carry its round.
* **Operations**: create a batch, promote, claim, heartbeat, unclaim, submit,
  transition, supersede, hold, release, PATCH (dependencies, reviewers,
  escalation, branch), converge, archive; leases expire by the clock.
* **Interaction**: one writer connection, so every REST call is one transaction
  and transactions are serial. All concurrency is between calls: a caller's
  picture of a task is old the moment it has it.
* **Hard**: agents that died or stalled and come back, votes that arrive after
  the task moved on, edges rewritten under running work, holds laid between a
  vote and its tally.
* **Correct when**: nobody loses a live lease, no claimed task is stuck for ever,
  work starts only on finished dependencies, dependencies have no cycle, and
  terminal states are terminal.

### Review rounds and circuit breaker (`store.go`, `tiers.go`)

* **State**: the round of a task, the review rows of that round with their
  verdicts, `review_models`, `escalate`, and the ladder and thresholds of the
  server's configuration.
* **Operations**: a submission opens a round; the last vote, the release of a
  hold, or a change of reviewers decides it; a rejected round means rework, then
  a replacement on a costlier model, then a human.
* **Hard**: `aggregateReviewRound` is reached from three places and looks only at
  the current round, whatever state the parent has by then.
* **Correct when**: approval is unanimous and about the current round, no complete
  round stays undecided, and rework ends.

### Research rounds (`store.go`: findings, disputes, adjudication, follow-ups)

* **State**: findings per review and round, linked over rounds by `prior_id`;
  disputes of the worker; adjudication tasks; `research_round_rejected` events.
* **Operations**: reviews report findings, a rework disputes some, the
  adjudicator rules, the round passes or fails, follow-ups are created.
* **Hard**: a round is aggregated at each review, ruling and release, and must be
  decided once; what it is decided by comes from earlier rounds, and the budget
  is counted over a chain of replaced tasks.
* **Correct when**: nothing severe stands in approved work, no finding is lost,
  a round fails for a cause, the budget bounds the chain, and chains end.

### Landing of local commits (`cmd/odonian/approve.go`, `internal/localcommit`)

* **State**: the reservation columns `landing_round`, `landing_commit`,
  `landing_attempt`; in git the branch `wi/<slug>`, the lock
  `refs/odonian/locks/<slug>`, and the task's `wip/<id>` with its worktree.
* **Operations**: approve (lock, prepare, reserve, publish, complete, clean up),
  finish of a done task, `--cancel-landing`.
* **Hard**: five steps in two systems with no common transaction; the lock
  expires by the clock; a run may stall, die or lose an answer between any two steps.
* **Correct when**: what is on the branch is the approved commit of a task nobody
  can reject any more, a done task's work is on the branch, and clean-up never
  deletes newer commits.

### Pull requests: merge agent and watcher (`cmd/odonian/main.go`, `internal/prwatch`, `internal/forge`)

* **State**: merge rows and pull request links on the board, pull requests on the
  forge, the watcher's pass with its back-off in memory.
* **Operations**: `executeMerge` and `bounceForRework` of the merge agent; a pass of
  the watcher lists tasks by state, asks the forge about each and acts.
* **Hard**: every call is slow and separate, so what was read is old when it is
  acted on; two merge agents may hold rows of one pull request; either process
  may die between the merge and the board; the quota of an owner is shared; a review
  has one time, which is that of the latest of any kind.
* **Correct when**: done means merged, every bounce has a review of its own,
  merged work ends up done, merge rows end, stale pull requests are closed, and an
  owner found limited is left alone until the reset it named.

### Research permits and admission (`research_permit.go`, `research_claim.go`, `internal/policy`)

* **State**: account pools (start allowance, concurrency, reserved slots), permits
  bound to request ids, attempts with their leases, the policy in memory.
* **Operations**: start with a policy (and reconfigure the pools), claim with and
  without a permit in the modes disabled, observe and enforce, replay of a claim,
  heartbeat, submit, unclaim, renew, finalize, expire.
* **Hard**: a dispatch outlives its task's lease and the other way round; a retried
  claim is answered later; the clock may be set back; the policy changes at a restart.
* **Correct when**: no start is minted, slots are kept, one dispatch of a task is
  live, and whoever the fence turns away has lost the task.

### Evaluation (`evaluation_job.go`, `evaluation_pool.go`, `internal/evalrun`, `internal/evalcohort`, `internal/evaluation`)

* **State**: campaigns, candidates, samples, pools, attempts with their leases; on
  the runner's side a workspace and a result file per job, and processes.
* **Operations**: create, pause, configure; claim, renew, finalize, expire; a
  runner claims, stages, launches, waits, records and cleans up, and renews meanwhile.
* **Hard**: a claim is two transactions, a renewal two statements; a runner that
  lost its lease still has a process that writes to the job's result file.
* **Correct when**: a request id has one attempt, a job one live attempt, pools keep
  their limits, what is recorded was held and is one's own, and campaigns end.

### Topics and continuations (`priority.go`, `internal/manifest`, `continuation_info.go`, `store.go`)

* **State**: `priority` of every row, `priority_action` with its keys,
  `task_submission_manifest` per round, the lineage links (`target_task_id`,
  `superseded_by`, `continuation_parent`).
* **Operations**: set a topic's priority, move it to the front; submit a manifest
  with research work, insert its children when the work is merged, show them.
* **Hard**: a topic is not stored, it is what the lineage says at the time, and
  half a dozen operations insert rows that belong to one; an action may be asked
  for again after the queue changed; children are made by a transition that a late
  vote can make possible twice.
* **Correct when**: every row has the priority its topic was given, the front stays
  the front, children come once and together, and can be worked on side by side.

### The other parts

| Part | State and operations | Here |
|---|---|---|
| Worktree commands (`pending`, `reject`, `commit`, `worktree-add`) | git refs and worktrees | a commit after the submission is `EditWip` in `Landing` |
| Forge client (`internal/forge`) | HTTP calls | their effects and answers are steps of `PullRequests` and `PRWatch` |
| PR feedback (`feedback.go`, `marker.go`) | comments on the forge | no |
| Scorecards and reports | read only | no |
| Notifier (`internal/notify`, `internal/reconcile`) | none; lists and publishes | the loop is the watcher's |
| Agent harness (`harness/*.sh`) | process-local | fairness of `Board`; its merge loop claims in `PullRequests` |
| REST layer | none; one handler, one transaction | its handlers are the actions |
| Migrations | schema | columns are the variables |
| Terminal UI and client, deployment, site, skills | none that matters | no |

## The modules

| Module | What it is |
|---|---|
| `Board` | the board: rows, claims, leases, rounds, breaker, reshaping, dependencies, reservations; its properties and its inductive invariant |
| `Landing` | extends `Board` with git, the branch lock and the runs of `odonian approve` |
| `LandingPromise` | the abstract specification of landing: open, reserved, published, done |
| `Manifests` | continuation manifests and their validator |
| `Topics` | topics, their priority, and continuations; extends `Manifests` |
| `ResearchRounds` | rounds of the research track over a chain of supersessions |
| `PullRequests`, `PRWatch` | tasks with pull requests, the forge and the merge agent; the second adds the watcher |
| `TokenBucket` | the start allowance that both kinds of pool share |
| `Permits` | admission and claims of research work |
| `EvaluationJobs`, `EvaluationRuns` | attempts on the server; the second adds runners, workspaces and processes |
| `EvaluationLedger` | the abstract specification of attempts: one open entry per job, one request per entry, one outcome for good |
| `BoardProofs`, `BoardHistoryProofs` | theorems about `Board`: what holds of its rows, and what can become of them |
| `LandingProofs` | theorems about `Landing`; extends both |
| `EvaluationProofs`, `PermitsProofs`, `PRProofs`, `ResearchProofs`, `TopicsProofs` | theorems about `EvaluationRuns`, `Permits`, `PRWatch`, `ResearchRounds`, `Topics` |
| `MCBoard`, `MCScenes`, `MCLanding`, `MCLandingScenes`, `MCResearch`, `MCPRWatch`, `MCPermits`, `MCEvaluation`, `MCTopics` | values for the constants, and the environments of the runs |

`Landing` composes with `Board`, `PRWatch` with `PullRequests`, `EvaluationRuns`
with `EvaluationJobs`, `Topics` with `Manifests`. The families of research, pull
requests, permits, evaluation and topics do not extend `Board`: each keeps of a
task what its own code reads, and says in its head comment what it leaves to
`Board`.

### `Board`

A column is a variable, a function on row numbers, and a row number stands for an
id in order of insertion. A transaction is an action; a refusal, including a
rolled back transaction, is the action being disabled. `lease` is NULL, live or
expired against the server's clock, and `LeaseExpires` is the clock passing the
deadline. `links[t]` are the kinds of link tagged with the current round and
`hasPR[t]` says whether any pull request link is active.

| Action | Code |
|---|---|
| `CreateTasks` | `CreateTasks`: a batch with forward references, self-reference refused |
| `ClaimTask`, `HeartbeatTask`, `UnclaimTask` | `claimTaskTx`, `HeartbeatTask`, `UnclaimTask` |
| `SubmitWork`, `SubmitReview`, `SubmitMerge` | the three kinds in `submitTask` |
| `Aggregate`, `ApproveRound`, `RejectRound`, `Supersede` | `aggregateReviewRound`, `handleApprovedRound`, `applyRoundCircuitBreaker`, `supersedeTaskTx`: operators, since the transactions that call them pass the columns as they have written them so far |
| `TransitionTask`, `SupersedeTask`, `HoldTask`, `ReleaseTask` | the handlers of the same names |
| `UpdateTaskDependsOn`, `UpdateTaskEscalate`, `UpdateTaskReviewModels` | PATCH; the last is `reshapeOpenReviewRound` |
| `BeginLanding`, `CancelLanding`, `CompleteLanding`, `Converge` | the reservation and `ConvergeExternallyMergedTask` |

`Next` is `Users` (agents, operators, the watcher, the clock) or an approve
command; `Landing` replaces the latter by its runs. The constants `Doings`,
`Moves` and `MovedKinds` say what the environment of a run does: they only ever
remove behaviour of users and operators, never part of an operation.

Details that matter and are easy to lose:

* the tally counts rows of the current round that are not abandoned, and `SUM`
  over no rows is NULL, which does not scan: such a vote or release is rolled
  back, so `RoundFull` is false for an empty round and `Undecided` too;
* a reservation pins the parent: the round's outcome is computed, a merge row is
  even inserted, and the state stays (`Settle`);
* a replacement starts with a clean slate and does not copy hold or target;
* `wouldCreateCycle` is a search from the new dependencies; `Upstream` is the
  set it visits, as a recursive function bounded by the number of rows;
* reshaping keeps finished reviews, then the oldest open ones of each wanted
  model, retires the others, and decides the round if nothing is left open.

### `Landing`

A run of `odonian approve` is named by its lock token and has a program counter,
the task as it read it, and Prepare's result. A request to the board is put in
`call` and served later, or lost; the run may stop waiting in between, so a
request can be served after its sender gave up or died, and an answer can be
lost. `Crash` is possible between any two steps. Commits of a task are numbered;
`landed` are the commits on the branch and `tip` names its position, so that
`Publish` is the ref transaction of `freeze.go`: the lock ref still names this run
and the branch is where Prepare saw it. `refuseIfCheckedOut` comes before that
transaction, as in the code.

`Cleanup` of `freeze.go` is three steps: `CheckTip` compares the task's branch with
what was landed, `RemoveWorktree` removes the worktree by force, `DeleteBranch` deletes
the branch if it still names that commit. `trees` are the tasks that have a worktree,
and `EditWip`, a commit in one, may come between any two of the steps.

`Landing!Phase` maps a task to its phase in `LandingPromise`, and
`PromiseIsKept` says that `Landing` implements it.

### `ResearchRounds`

A chain is task 1, the task that replaced it, and so on. A finding is an element
of `Findings`: what the code links by `prior_id` is one element whose report may
change from round to round. A review is claimed and submitted in one step (claims
are `Board`'s), the reviewers of a task are fixed, and they follow
`docs/features/research-track.md:71`: every earlier finding is reported again, as
still open or resolved. That is what reviewers are asked to do; `validateFindings`
(`store.go:842`) checks the form of a finding and would take a review that leaves one
out. `Aggregate` takes the tasks, votes, reports and rulings as
the step that calls it has them, as `aggregateReviewRound` does, and either opens
adjudications, waits, passes or fails the round.

### `PullRequests` and `PRWatch`

A merge agent has a program counter and makes one call to the board or the forge
in a step; the answer to `Squash` may be lost after the merge. The watcher's pass
lists the tasks of one state after the other, keeps the rows as it listed them,
reads the forge, and writes the row in whatever state it is by then. A clock
stamps writes and reviews, since the watcher compares the two. A `Review` is of any
kind: it is the latest then, and what the reviews decide together may stay as it was, as
after a comment, or one approval next to another reviewer's request. A limit that a
read or a quota lookup runs into starts the back-off of its owner (`EnterBackoff`,
remembered in `told`); one that a write runs into is a failure like others (`Refused`). A
round is a submission and its decision here. An operator's move of an approved task to
done, merged or not (`store.go:4701`), is left out of `Operate`, so `DoneMeansMerged` is
about everyone and everything else that writes done. What people, operators and accidents may do, and
how often, is an environment (`env`, `left`).

### `Permits`

One action for each way a claim ends: `ClaimUnpaced`, `ClaimAdmitted`, `ClaimDenied`,
`ClaimObserved`, `ClaimUnmapped`, `ClaimReplayed`. Refusals that write nothing are
disabled steps; a denial writes, since it keeps the sweep of overdue attempts.
Allowance is counted in the units a tick refills, so the code's integer arithmetic
stays exact. `earned`, `spent` and `answer` are history. The store's own admission
interface (`RequestResearchPermit`, `StartNextResearchAttempt`,
`ExpireResearchAttempts`), which no handler calls yet, is one environment.

### `EvaluationJobs` and `EvaluationRuns`

A call that is not atomic is two steps: `ClaimBegin` reads the clock and sweeps and
`ClaimAdmitted`, `ClaimRepeated` or `ClaimRefused` is the second transaction;
`RenewBegin` reads and `RenewCommit` writes; `FinalizeBegin` takes the time and
`FinalizeCommit` records. A runner has a main thread and a lease thread, each with
its call. Workspace and result file belong to the job and are shared by all
attempts at it. `KeepsTheLedger` maps an attempt to an entry of `EvaluationLedger`:
an active attempt that is no longer its job's current one is a closed entry
already, since nothing can be recorded for it.

### `Manifests` and `Topics`

A manifest is a record; keys, claims and names of paths are values, and a path is
the sequence of names `filepath.Clean` leaves, so that overlap is "one is a prefix
of the other". `HasCycle` is the depth-first search of `hasCycleDFS` with its marks
handed from child to child; an assumption of `MCTopics` compares it with `Startable` (of
any children one waits for none of them) for three keys and every order in which
children can name each other: 4096 manifests.

`Topics` keeps of a row what lineage, priority, materialization and the view read.
A row belongs to the topic of the first row it works for, replaces or continues
(`lineageParentSQL`), and `Root` follows that up. A round that is full may have any
outcome that `Board` and `ResearchRounds` give it (`Settle`), because each inserts
other rows: a review, an adjudication, a merge, a replacement, a follow-up (which
is a topic of its own). `Spawn` uses the priority of the topic, as the code does by
`taskTopicColumns` and `effectiveTaskPriority`; what `reshapeOpenReviewRound` reads, the
row's own column, is the same as long as `LedgerExplainsPriority` holds, which is why
the property is about the column of every row. `TransitionTask` to `done` inserts the
children of the approved round's manifest in the same step or is disabled.

## What the runs check

`CHECK_DEADLOCK FALSE` is in every cfg: bounds on rows, rounds, attempts, time or
the acts of the environment end the behaviours, and the board itself may be idle
for ever. The environments of a run are chosen in the initial state and never
change, so one run checks its properties in all of them; `MCScenes` and
`MCLandingScenes` do the same with instances of the specification that differ in
constants.

| Run | Environments | What it shows |
|---|---|---|
| `board_moves` | every operator move out of review and approved, with reservations by two approves; `agent_merge` with lapsed leases and merges outside the board; dependencies edited and superseded; a panel of two reviewers who lose leases and are changed in the open round, with hold and release; two tasks in order with lapsed leases, merges outside the board and landings, where operators leave tasks in review alone | late votes never approve without unanimity nor move a reserved task, and reopen only done or superseded tasks; work is done only after a unanimous round or a merge; edits keep dependencies acyclic; live leases are kept; in the last two, every round is decided, open reviews are current, and nobody works before its dependencies are done |
| `board_live` | fair agents, a two-step ladder, a toggled `escalate`, an approve that may stop anywhere | rework ends |
| `landing` | two runs with rework and lock expiry; two runs with rework and a checked out branch; three runs on one round with expiry, crashes and late requests | done means landed, clean-up deletes no branch with newer commits, published work stays pinned, the promise is kept |
| `research` | disputes in two tiers with a hold or a failed adjudication; no adjudicator, approved work that comes back; supersession over open reviews; blocking over open reviews and adjudications | approved is clean, the budget holds, rounds count once, nothing is lost, rounds fail for a cause, chains end |
| `permits` | enforcement with a change of policy and an operator; a clock that is set back; observation before enforcement; an unmapped model, then observed and disabled; the store's own interface | starts are paced and within slots, one attempt of a task is live, grants are owned, the assignee holds the newest permit |
| `evaluation` | two runners on one job, one of which dies; a campaign that is paused; results that are not taken, samples that cannot be rebuilt, timeouts and cancelled runs; two clients of the API on two jobs that share slots, whose number shrinks, or a rate; a campaign set up while it is claimed | one attempt per request, one live attempt per job, pools keep to a limit they have had unless a rate was set anew, recorded is held, reviews are one's own, the ledger, and campaigns end |
| `pull_requests` | `Merging`: two merge agents with conflicts, deaths and stalls; `Watching`: people who merge, close, review and patch rows, restarts and failing calls; `Limited`: two tasks on one quota, limits and restarts; `Refusing`: a bounce whose comment is refused for a limit; `Retired`: tasks that are over, with failures and limits on the way to their close; `Replaced`: pull requests closed or gone and replaced, answers lost | done means merged, every bounce has a review of its own, an owner found limited is left alone until its reset; merged is done, merge rows end, stale pull requests close |
| `topics` | `queue`: actions, new topics and merges on one queue; `shelf`: topics finished, archived and brought back; `rework`: merges, adjudications, replacements and follow-ups; `family`: manifests that are sound, circular, overlapping or share a claim; `heirs`: priority actions and replacements among children; `late`: a done parent that a late vote approves again; `outside`: parents merged behind the board's back, or with references to no task | a row has the priority its topic was given last, the front stays the front until another is moved there, children come once and together, and can be worked on side by side |

Four more runs show where the code and its documents disagree:

| Run | What the documents say | What happens |
|---|---|---|
| `board_reopened` | README: `done` and `superseded` are terminal | a review left over from before a bounce is claimed and then submitted after the task is done; the tally counts the current round again and writes `approved` over `done`. The open review of a superseded task does the same |
| `board_cycle` | migration 1: DAG edges | one POST of two tasks that name each other is accepted |
| `landing_given_back` | `approve.go:153`: nothing landed, this approve still held the lock | the checked-out test comes before the lock test, so a run that lost its lock gives back the reservation its successor publishes under |
| `pull_requests_ignored` | `docs/configuration.md`: changes requested after the approval bounce the task | the watcher takes the row's last write for its approval, so any later write of the row makes it ignore the review |

`TerminalReopenedOnlyByLateReview` bounds the first from the other side: it is
what the code does keep. The scenes of `landing` without expiry or without checkouts do
the same for the third.

### What else the models showed

These have no run of their own; where a property leaves them out, its definition
says so (`Never({"block"})` and the like).

* `store.go:4453` says that a guard keeps a round from ever being decided twice.
  When an operator blocks a task over an open review or adjudication and sends it
  back, the late review or ruling decides the next round's state a second time,
  and a rejected round is counted twice. In the same way a late report on a
  blocked round can hold a severe finding nobody looks at again.
* A task superseded by hand and decided later by its open reviews is counted
  apart from its successor, so the chain goes beyond its budget.
* A finding that was overturned and is still reported in unchanged text becomes a
  follow-up.
* A failed adjudication leaves its round waiting (`AtRest` names it).
* `evaluation_job.go:778` says that a renewal moves the lease forward. It reads and
  writes in two statements, so the earlier of two overlapping renewals may win and
  move it back.
* A pool whose rate is set anew can exceed its limit, without overlapping renewals,
  with two runners on two jobs.
  A renewal and a claim have begun at time 1; the lease ends at 2. At 2
  `ConfigureEvaluationPool` settles the pool to the present and sweeps nothing. The
  claim is admitted next and counts occupancy as of where the pool has settled to, so
  the attempt that is being renewed is not counted; then its renewal is written, which
  asks only that the attempt is still active. A pool of slots is not settled, and a
  claim settles a pool only to the time it swept at. `PoolsKeepTheirLimit` excepts pools
  whose rate was set anew (`RatedAnew`).
* A `task` reference in a manifest is checked for its form only, although
  `docs/features/research-continuations.md:82` asks for an existing task. A parent whose
  manifest names no task, or names itself both as `parent` and as `task`, passes its
  review, and then no transition makes it done; only the watcher does, which makes
  no children (`outside`). Work without a change that ends in `done` makes none
  either, as the documents say.
* A superseded row that a late vote brings back can be superseded again. That
  overwrites `superseded_by`, and the first replacement is a topic of its own from
  then on (`Strays`).
* `freeze.go:178` says of `Cleanup`: "If wip/<iid> has moved past landedCommit, it holds
  newer work (a rework), so nothing is removed." The branch is compared at line 183 and
  the worktree removed by force at line 191; a commit in between does not stop the
  removal. That commit survives, since the branch is deleted only if it still names the
  landed one (`CleanupKeepsCommits`); the worktree, with what is not committed in it, is
  gone.
* A limit that a write to the forge runs into starts no back-off. The comment of a
  bounce (`action_bounce.go:12`), and the comment, close and branch deletion of a task
  that is over (`reconciler.go:453`, `:458`, `:469`), return it as an error that is logged,
  and the pass goes on with the next call for the same owner. `QuietWhenLimited` is
  about reads and quota lookups for that reason.
* `docs/configuration.md:253` bounces a task for "changes requested" newer than the
  approval. `pr_review.go:21` asks for the latest review of any kind next to the
  decision, so a comment, or another reviewer's approval, after a request that has been
  answered and approved anew bounces the task again for that request. What holds is
  `BouncesAnswerReviews`: no review is answered twice.
* A tombstoned link that is submitted again stays dead; `MergedIsDone` excludes
  such tasks.

### Bounds

Board: two review rounds are enough for an old round's rows to meet a new one; two
reviewers for partial rounds; two models for an escalation; two agents where the
question is who owns a lease, one elsewhere, since an agent has no memory of its
own. One task of work suffices where tasks do not touch each other
(everything but dependencies), and dependencies get two tasks that are created in
one call or two, and two replacements, hence cycles of up to four rows. `MaxTasks`
leaves room for the reviews, merges and replacements of those rounds; a row number
is wasted when a reshape keeps a reviewer.

Landing: two approve runs give a stalled run and its successor, three let a cancel
come between them. `MaxCommit` 2 gives a commit after the submitted one, `MaxTip`
one move of the branch by hand. There are no late votes (operators do not move
tasks out of review): with them, the disagreement of `board_reopened` also undoes a
landed task, which that run shows already.

Research: two findings of different reviewers, so that one may block while the
other is disputed; three tasks in a chain, for two escalations or a supersession
and an escalation; three rounds of a task, for a report, a rework and a ruling that
counts for a later round. A task that a late review brought back is not superseded
a second time.

Permits: one account, two tasks of which one is completion work, two agents and two
request ids with two attempts, so that one overtakes the other; two ticks, so that a lease of one
tick ends between; up to three policies in turn. Tokens are counted so that a
start costs two and a tick refills one or two: a bucket is empty, short by one,
or full.

Evaluation: three attempts, so that a third can follow an expired one and the one
that took over; two or three ticks with leases of one or two; two runners with two
threads each or two API callers; two campaigns, so that a pair may cross them.

Pull requests: two pull requests, either of one task or one each; two merge rows
and two merge agents; two ticks, for a review before and after a write; two or three
acts of people and accidents together with one rework.

Topics: one row that opts in and one that does not, or two that do not; three
keys, so that a key can be repeated after two others; two rounds, so that a manifest
can be submitted anew; up to five rows, which is a parent, its reviews and two
children; priorities at the default, at both ends of the manual range, and above
it, with the largest integer three moves above the default so that it is reached.

Symmetry is used over tokens, agents and request ids where no liveness is checked.

### Fairness

`board_live` assumes of the agents: `WF` of claiming a claimable task, since the
harness polls for work for ever; `SF` of submitting work and of submitting a
review, since `monitor_legacy_lease` renews while the agent runs and a crashed or
handed-back claim is claimed again, so that somebody who keeps getting the task
submits it in the end. Weak fairness would not do: a lapsing lease and a
hand-back disable a submission again and again. Nothing is assumed of operators,
the watcher, the approve command, or the verdicts.

`research` assumes one `WF` over workers, reviewers, the adjudicator and the
operator who promotes a replacement: somebody goes on. It does not assume that any
one of them does, nor anything of the other acts of operators.

`evaluation` assumes of a runner that lives that its main thread goes on and that
its renewals return (HTTP calls have a deadline). It assumes nothing of the
candidate process: one that never exits is killed by the run's timeout or
cancellation, which `ProcessExits` stands for. Crashes are not fair, and a dead
runner is at its end.

`pull_requests` assumes that the watcher's loop goes on (`reconcile.Run` has no other
exit than shutdown), that each merge agent goes on with what it began, that some
merge agent looks for rows (`harness/agent.sh` loops), that a lease nobody renews
runs out, and that time passes. People and accidents are bounded and not fair.

## What is proved

Every theorem holds for any number of rows, rounds, agents, requests, pools, pull
requests and restarts, and for any environment, from the named assumptions of the
modules: bounds are natural numbers, lists are sequences of models, NULL is no
agent and no token, policies are valid ones (`PolicyAssumption`), leases and
intervals are positive, a research budget is positive and thresholds are not
negative (`ResearchConstants`, as `parseResearchRoundBudget` and
`parseResearchEscalationThresholds` in `cmd/odonian/main.go` refuse others). Some
theorems need more, and the statement says so; the conditions are explained below.

| Module | Theorem | Statement |
|---|---|---|
| `BoardProofs` | `TypesHold` | `Spec => []TypeOK`, with the reservation's columns NULL together |
| | `InvHolds` | `Spec => []BoardInv` |
| | `ApprovalsAreUnanimous` | `Spec => []ApprovedIsUnanimous` |
| | `ReservationsPin` | `Spec => []ReservationPinsApproval` |
| | `ClaimsAreReclaimable` | `Spec => []ClaimedIsReclaimable` |
| | `LiveLeasesAreKept` | `Spec => LiveLeaseIsKept` |
| `BoardHistoryProofs` | `DependenciesStayAcyclic` | `AcyclicBatches => (Spec => []DepsAcyclic)` |
| | `WorkDoneIsReviewed` | `Spec => WorkDoneOnlyReviewed` |
| | `OnlyLateReviewsReopen` | `Spec => TerminalReopenedOnlyByLateReview` |
| | `NoRoundIsForgotten` | `Spec => []NoForgottenRound` |
| | `OpenReviewsStayCurrent` | `NoMoveOutOfReview => (Spec => []OpenReviewsAreCurrent)` |
| | `FinishedStaysFinished` | `NoMoveOutOfReview => (Spec => FinishedIsFinal)` |
| | `WorkFollowsDependencies` | the same and no edits of dependencies `=> (Spec => []StartedAfterDeps)` |
| `LandingProofs` | `LandingIsBoard` | `LandSpec => Spec`: what holds of the board holds of landing |
| | `CleanupIsSafe` | `LandSpec => CleanupKeepsCommits` |
| | `DoneWorkIsLanded` | `LocalWork => (LandSpec => []DoneIsLanded)` |
| | `PublishedStaysPinned` | `LocalWork /\ NoMoveOutOfReview /\ LockOrNoCheckout => (LandSpec => []PublishedIsPinned)` |
| | `LandingKeepsItsPromise` | on the same conditions `LandSpec => PromiseIsKept`: `Landing` implements `LandingPromise` |
| `EvaluationProofs` | `RequestsGetOneAttemptAlways` | `Spec => []RequestsGetOneAttempt` |
| | `AttemptsAreALedger` | `Spec => KeepsTheLedger`: the store refines `EvaluationLedger` |
| | `RecordedIsHeldAlways` | `Spec => []RecordedIsHeld` |
| | `ReviewIsOwnAlways` | `Spec => []ReviewIsOwn` |
| | `OneLiveAttemptUnlessOvertaken` | `Spec /\ [][LeasesMoveForward]_vars => []OneLiveAttemptPerJob` |
| | `RunnersMoveLeasesForward` | `OnlyRunnersCall => (Spec => [][LeasesMoveForward]_vars)` |
| | `RunnersHaveOneLiveAttempt` | `OnlyRunnersCall => (Spec => []OneLiveAttemptPerJob)` |
| | `PoolsKeepTheirLimitUnlessOvertaken` | `Spec /\ [][LeasesMoveForward]_vars => []PoolsKeepTheirLimit` |
| | `RunnersStayWithinLimits` | `OnlyRunnersCall => (Spec => []PoolsKeepTheirLimit)` |
| | `StartsAreEarnedAlways` | `Spec => []StartsAreEarned`: starts never cost more than first burst and rate pay for |
| `PermitsProofs` | `StartsArePacedAlways` | `Spec => []StartsArePaced` |
| | `OneLiveAttemptPerTaskAlways` | `Spec => []OneLiveAttemptPerTask` |
| | `StartsWithinSlotsAlways` | `Spec => StartsWithinSlots` |
| | `GrantsAreOwnedAlways` | `Spec => []GrantsAreOwned` |
| | `AssigneeHoldsNewestPermitAlways` | `Spec => []AssigneeHoldsNewestPermit` |
| | `LiveDispatchKeepsTaskAlways` | `Spec => LiveDispatchKeepsTask` |
| | `DeferralIsExactAlways` | `Spec => []DeferralIsExact` |
| `PRProofs` | `QuietWhenLimitedAlways` | `Spec => []QuietWhenLimited` |
| | `DoneMeansMergedAlways` | `Spec => []DoneMeansMerged` |
| | `BouncesAnswerReviewsAlways` | `Spec => []BouncesAnswerReviews` |
| `ResearchProofs` | `ApprovedIsCleanAlways` | `Spec => []ApprovedIsClean` |
| | `RejectedForCauseAlways` | `Spec => RejectedForCause` |
| | `RoundsCountOnceAlways` | `Spec => []RoundsCountOnce` |
| | `NothingGetsLost` | `Spec => []NothingLost` |
| | `BudgetAlwaysHolds` | `Spec => []BudgetHolds` |
| `TopicsProofs` | `LedgerExplainsPriorityAlways` | `Spec => []LedgerExplainsPriority` |
| | `FrontIsFirstAlways` | `Spec => []FrontIsFirst` |
| | `ChildrenAreWholeAlways` | `Spec => []ChildrenAreWhole` |
| | `ChildrenFitAlways` | `CyclesAreRefused => (Spec => []ChildrenFit)` |

**Board.** `ApprovedIsUnanimous` is not inductive alone. A new row could join a
round that has been approved, so `BlankRows` says rows not yet inserted point at
nothing and `TargetsAreWork` that a review is no parent itself and its parent has
been submitted. A review's own state could be "approved" with nobody to review it:
`TargetsAreWork` and `SubmittedIsWork` keep rounds and links on implement rows. A
reservation could pin a task whose round moved: `ReservationPinsApproval` ties it to
the state and round and is therefore part of the same induction. The conjunction is
`BoardInv`. Steps are split by what they do to the rows: those that only insert blank
rows, those that leave states and verdicts alone, and those that move one row each
have a lemma; the deciding of a round has one for each outcome, and each action
cites the lemma that fits.

**The history of the board.** "No cycle", said with the walk of `wouldCreateCycle`, is
awkward to keep; `NoKnot` says that every set of rows has one without dependencies
in it, which a new row, a replacement and an accepted edit keep for reasons one can
read. That the walk finds everything upstream is an induction on its length, for
the set of lengths it is right for (`NatSetInduction`, from the library's `WFMin`,
since the library's own induction takes an operator). `AcyclicBatches` is the one
condition, and `board_cycle` shows that the code does not check it. `Fates` lists what a row can become in
one step of any operation; from it follow what finishes work and what reopens it. That no
round is forgotten is inductive by itself, over every outcome of `Aggregate`.
`NoMoveOutOfReview` says that operators leave what is in review to its reviewers. Without
it votes come late, finished work is opened again (`board_reopened`) and work runs
ahead of dependencies; with it, none of these happen, in any interleaving of the rest.
`WorkFollowsDependencies` also leaves the PATCH of dependencies out, since it may add an
unfinished dependency to work that has begun.

**Landing.** `LandingIsBoard` maps each step of an approve run, of a served request, of
git and of the clock to a step or a stutter of `Board`, so landing inherits every theorem
above. `RunInv` says what a run knows at each point: of its plan, its commit, what it
published. It needs no condition, and with it goes `CleanupIsSafe`: at each of the three
steps of a clean-up (`Cleaning`) the commit the run holds is on the branch, and the
reference is deleted only if it still names that commit. `PublishedStaysPinned` rests on `PinInv`: `Pinned`
(the property, and that a landed commit of a task that is not done is reserved with
nobody about to drop it) and five facts about the runs. While a run with the lock may
publish, the task is reserved for what it publishes and nobody is about to drop that
reservation (`HolderIsSafe`), nor has anybody published it already (`HolderIsFirst`).
A cancel asks the board only when the owner it read has lost the lock
(`CancelIsLockedIn`). A run that finishes a done task never publishes
(`FinishIsLanded`). Without expiry a run keeps the lock it took (`LockIsKept`). The
conditions are:

* `LocalWork`: a submission is a commit or a no-op. `odonian submit` sends nothing else in
  `local_commit` mode (`cmd/odonian/main.go:1201`); the API would take more.
* `NoMoveOutOfReview`: otherwise a late vote bounces landed work, as in `board_reopened`.
* `LockOrNoCheckout`: the branch is not checked out elsewhere, or locks do not expire
  under a live run. `landing_given_back` violates `PublishedIsPinned` without it.

All environments of `landing` satisfy them. The refinement then needs one step for each
way a task's phase may change.

**Evaluation.** `StepsOfTheStore` shows once that every step, whoever takes it, is one
of four kinds for the store: a call begins, a call returns, a caller dies, or only
time passes (`StoreStep`). `StoreInv` says that attempts are rows `1..started` in order,
with an outcome once they ended; `RequestsInv` ties each request to the one attempt
it is bound to and to every answer it ever got. The refinement takes each kind of
step to a step or a stutter of the ledger. `RunsInv` is about runners: the attempt a
runner has in hand is one of its job's and has a row, the call that records is its own,
what it was told it recorded is in the row, and a review it is about to record was
written by the process of its attempt. The last holds although the workspace
is shared, because a result names its attempt and another one's is invalid output.

**Leases and limits.** That a job has one live attempt is not inductive: an attempt
that is overdue may have a renewal in flight that brings it back, and a claim
may have swept before either. `Hold` therefore counts an attempt as long as its lease
lasts or a renewal of it is in flight, and `HoldersAreCurrent` says that whoever holds is
the job's current attempt. A claim replaces the current attempt only after a sweep found it
overdue, so it must not be one that is being renewed: `RenewalsAhead` says that such a
lease outlasts the time at which every claim in flight swept, since a renewal begins
while the lease lasts and a sweep expires what does not. Both rest on one condition.

* `LeasesMoveForward`: no step moves a lease back, which is what the comment at
  `evaluation_job.go:778` says of a renewal. Two overlapping renewals of one attempt can
  do it. If a third call then claims, a renewal that is still in flight brings a second
  live attempt about. It is the only condition of `OneLiveAttemptUnlessOvertaken`, and it
  is a condition on behaviours, which any number of clients may meet.
* `OnlyRunnersCall`: no clients besides the runners (`"api"` in no environment). Then the
  former is a theorem, `RunnersMoveLeasesForward`. `BeatsInv` relates a runner's two
  threads: its lease thread has a call in flight only for the attempt in hand, and is
  done when the next is claimed. `TurnInv` adds that no two runners have the same
  attempt in hand (`AttemptsApart`), and that a renewal in flight is the only one of its
  attempt and still ahead of the lease it read (`RenewalsInTurn`). Runners may crash,
  stall, be cancelled, retry claims and take over from one another.

`PoolsKeepTheirLimit` names its exception itself, a pool whose rate was set anew.
`PoolInv` is about admission: what is renewed outlasts the time its pool has settled to
(`RenewalsCounted`), so admission counts it, and whoever holds a slot of a pool
(`Holders`) is within a limit the pool has had (`WithinLimit`). Setting a rate anew breaks
`RenewalsCounted`, and with it the limit (see above), so both are stated for pools whose
rate was set once, and for pools of slots, which may be set anew at any time.

`StartsAreEarned` has no condition: the starts of a rate pool cost at most its
first burst and, since then, the fastest rate it has had, up to now, whatever
renewals overlap, and however often operators set it anew. `Books` is the inductive
part, which adds the tokens left and counts up to where the pool has settled to.
That mark never goes back, so that no time is credited twice, and a new burst may take
tokens away but gives none. No run checks this one; it is a consequence of the same
actions as the other two.

**Permits.** `WaysToStep` classifies steps by what they do to the tables. Pacing is a
book of what was earned and spent (`Books`), kept together with a time mark that
never goes back even when the clock does (`SettledBounds`). `TablesInv` says which
rows exist and that the policy in memory names pools of the store; `OrdersInv` that
a task has at most one newest permit. `AssigneeInv` says that under enforcement
whoever works on a task holds its newest permit: a claim makes the permit and
assigns in one transaction, and a replayed or fenced call does neither.

**Pull requests.** `Types` says which pull request belongs to which task, on which
everything else rests. `MergersGo` and `WatcherSteps` list how program counters move.
`MergedInv` says of whoever is about to write done that the pull request in its hand
is one of the task's and is merged. `QuietInv` says where every limit an owner was told
of lies (`Past`): behind its deadline while it has one, behind the pass and the present
once it has none; and an owner that is being called has none. `ReviewsInv` compares
times: where changes are requested, a review newer than the row, than the row as it was
listed, or than the row in the watcher's hand has not been answered yet, so the bounce
about to be made is the first for it.

**Research.** `RoundTypes` and the ways an aggregation ends (undecided, passed, failed)
give `CleanInv`: the last round of approved work has every vote, and every severe
finding in it is resolved, overturned, or new in text the rework did not touch. It is
stated over the round's rows and not over the step that approved it, since late
votes and rulings come in over approved work.

`CountInv` is about the past: earlier rounds are complete and no ruling on them is
waited for (`RoundRow`), a reviewer comes back to every finding it reported
(`Followed`), a rejected round is over for good (`Counted`), and what was found in an
approved task was overturned, seen resolved later, or has its follow-up (`Remembered`).
`ChainInv` is about the budget. A rejection uses up the budget, or it stops a task that
was going on (`Live`), or it decides a round that was left loose when its task was moved
(`Late`); only an operator's act makes one of the last two. So the rounds counted, plus
the size of both sets, stay within the budget and the acts so far. `ChainRow` gives what
this needs of each task, such as that the breaker retires a task only for a round that
would be refused again. `RoundsCountOnce` and `NothingLost` leave out operators who block a
task over an open review, and `BudgetHolds` those who supersede one by hand, for the
reasons given above; these exceptions are part of the properties.

**Topics.** A topic is a walk over rows, and every insertion, replacement and bounce
could redirect it. `Lineage` says that a row works for, continues or replaces only rows
before it, and that a row points at a successor that was made for it; so each row
belongs to at most one other (`OneParent`) and the way up ends at one row
(`RootsHold`, by induction on row numbers). `WaysToStep` reduces the operations to
three: rows are added that join a topic or found one, a row is replaced, a priority is
asked for. In each a row keeps its parent, or loses it and is a stray from then
on (`Kept`), hence keeps its root or gets one that is a stray (`RootsStay`).
`QueueInv` is about the ledger: its anchors are first rows of topics (`Anchored`), the
last action on a topic left the value the topic has (`LastHolds`), a topic
nobody asked about has a manual value (`Unasked`), the rows of a topic have its value
(`Follows`), and a topic that was awake when another went to the front is behind it
until it goes to the front itself (`Fronted`). Of the assumptions, three are about how
the model names things: NULL is no manifest and no origin, and a path is a sequence.

For the children `WaysForChildren` sorts the operations anew: those that leave origins,
manifests and finished rows alone (`Plain`), those that take a submission (`Plans`), and
the one that may make children (`Bears`). `ChildInv` says that a manifest on file is a
valid one of a round that has begun and of its own row (`Planning`), an origin is a
manifest on file (`Origins`), with one child of a manifest all are there (`Whole`) and no
child is there twice (`Once`). So `InsertManifestChildren`, which skips what it finds,
inserts either every child or none, and that is what makes the step preserve `Whole`.
`DoneWhole` is about work that is done. For `ChildrenFit` the inductive part is `FitInv`:
rows wait for rows that are there (`WaitsForRows`), of any rows one waits for none of
them (`NoKnot`), and a child is no follow-up. New children wait for older rows and their
siblings only, and an older row waits for no new one, so a circle would be among siblings.
That the validator refuses those is the hypothesis `CyclesAreRefused`; it says of
the search for cycles what the assumption of `MCTopics` checks for every manifest of the
allowed size. That children share no claim and no path follows from `Valid` and `Once`.

Only model-checked:

* `RoundsStayInOrder` of `MCScenes` puts three invariants together for five environments.
  Each of them is a theorem of `Board` (`NoRoundIsForgotten`, `OpenReviewsStayCurrent`,
  `WorkFollowsDependencies`);
* `OneLiveAttemptPerJob` and `PoolsKeepTheirLimit` where the conditions of their
  theorems do not hold, which is with clients of the API: two of them are within the
  bounds of `evaluation`, where both hold. With more callers at a time they are not true
  of every instance (see above);
* what the marks of `HasCycle` compute (a fold over data), which `MCTopics` compares with
  `Startable`; `ChildrenFitAlways` has it as a hypothesis;
* liveness (`ReworkTerminates`, `ResearchEnds`, `CampaignsEnd`, `MergedIsDone`,
  `MergeRowsEnd`, `StalePRsClose`), which the prover does not handle, nor `ENABLED`.

## What is not modelled

* **Board**: tombstoned links, links submitted with review and merge rows, links from
  before rounds were tagged, the model an agent declares (a claim names the
  task's model; another is refused), a PATCH of both dependencies and reviewers in
  one call, branch columns, the event log. Archiving is in `Topics`.
* **Landing**: the ancestry of commits, merge against fast-forward, the gate's own
  processes (Prepare may fail), `--freeze-only`, and several tasks on one branch
  except as moves of its tip.
* **Research**: replaced reviewers, the comparison of wordings across reviewers,
  severity that changes between rounds, the text of a successor's specification.
* **Pull requests**: closed ones that are opened again, clock skew between the forge
  and the server, commits pushed after the review (`SquashMerge` names none), owners
  without a token, and several projects.
* **Permits**: `policy/policy.go`'s `Evaluator`, which only tests use, and the
  read-only status queries. **Evaluation**: the sampling of a cohort, listing
  endpoints, and the adapters that talk to model processes.
* **Topics**: leases, actor and reason of an action (part of a request), several
  projects, an allowlist that changes between the submission and the merge, the
  order in which the view lists things, the texts of children.
* **PR feedback**, **scorecards and reports**, the **notifier**, the **terminal UI**,
  **deployment**: they keep no state of their own that the board depends on;
  what is in them is parsing, aggregation and display.

Text of errors, logs and tables is left out everywhere.

## The plan

The order was: the board, since everything else writes to it; landing and pull
requests, since they are where reviewed work leaves the system; admission and
evaluation, which have the trickiest rows; research rounds; topics. All of these
are done. What is left are operator moves of review rows, and PR feedback with its
cursors.
