------------------------------ MODULE Permits -------------------------------
(***************************************************************************)
(* Admission of research work: account pools with a start allowance and a  *)
(* limit on running dispatches, permits bound to a caller's request, and   *)
(* attempts, whose identity fences the agents that lost their task         *)
(* (internal/store/research_permit.go, research_claim.go, internal/policy, *)
(* and the handlers of internal/api that call them).                       *)
(*                                                                         *)
(* Every operation is one transaction on the store's only connection.      *)
(* Time is the server's clock in ticks; it may be set back.  Allowance is  *)
(* counted in the units a tick refills, and a start costs StartCost.  An   *)
(* attempt's number is its row.  Tasks are research tasks, which the rest  *)
(* of the board moves from review back to ready, or to done.               *)
(***************************************************************************)
EXTENDS TokenBucket, Sequences, FiniteSets

CONSTANTS
  Tasks, Agents, Accounts,
  WorkModels, TaskModel, \* models, and the one each task is addressed to
  Requests,          \* request ids; a legacy claim has one the server made, which is never retried
  CompletionTasks,   \* reviews and adjudications
  Environments,      \* the policies the server is started with, in turn, and what else happens
  LeaseTTL,
  None,
  \* Bounds of the model.
  MaxTime, MaxAttempts

Modes == {"disabled", "observe", "enforce"}
AttemptIds == 1..MaxAttempts

\* Config.Validate: a pool has a rate, a burst and a limit, and reserves no more than
\* the limit; enforcement leaves no model without a pool.
ValidPolicy(p) ==
  /\ p.mode \in Modes
  /\ \A a \in p.pools :
       /\ p.rate[a] \in Nat \ {0} /\ p.burst[a] \in Nat \ {0}
       /\ p.limit[a] \in Nat \ {0} /\ p.reserved[a] \in 0..p.limit[a]
  /\ p.pools \subseteq Accounts
  /\ \A m \in WorkModels : p.account[m] \in p.pools \cup {None}
  /\ \A m \in WorkModels : p.account[m] # None => m \in p.allowed
  /\ p.mode = "enforce" => \A m \in p.allowed : p.account[m] # None

ASSUME PolicyAssumption ==
  \A e \in Environments :
    /\ e.policies \in Seq({e.policies[i] : i \in DOMAIN e.policies})
    /\ \A i \in DOMAIN e.policies : ValidPolicy(e.policies[i])
ASSUME PermitConstants ==
  /\ LeaseTTL \in Nat \ {0}
  /\ MaxTime \in Nat /\ MaxAttempts \in Nat
  /\ CompletionTasks \subseteq Tasks /\ TaskModel \in [Tasks -> WorkModels]
  /\ None \notin Agents /\ None \notin Accounts
  /\ IsFiniteSet(Requests)

VARIABLES
  env,               \* the environment of this behaviour
  starts,            \* how often the server has been started
  now,
  mode, account,     \* the policy in memory: "off" before the server starts; the pool of a model
  \* research_pool
  pool,              \* the accounts that have a row
  rate, burst, limit, reserved,
  tokens,            \* allowance as of settledAt
  settledAt,         \* high-water mark of the times the pool was written at
  \* research_permit and research_attempt
  permit,            \* of a request id, once it has one
  attempt,
  started,           \* rows 1..started of research_attempt exist
  \* task
  state, assignee,
  leaseUntil,        \* lease_expires_at, 0 for NULL
  submitted,         \* review_round > 0
  diagnostic,        \* research_admission_diagnostic: the task's last decision
  \* What the properties compare with; the code keeps none of it.
  earned,            \* a pool's first burst, and what its rates came to up to its mark
  spent,             \* what the starts it was asked for cost
  answer             \* the request id and the attempt the last step answered a claim with

poolVars == <<pool, rate, burst, limit, reserved, tokens, settledAt>>
permitVars == <<permit, attempt, started>>
taskVars == <<state, assignee, leaseUntil, submitted>>
ghosts == <<earned, spent>>
vars == <<env, starts, now, mode, account, poolVars, permitVars, taskVars, diagnostic, ghosts, answer>>

NoAnswer == <<None, 0>>
Answer(r, i) == answer' = <<r, i>> /\ UNCHANGED <<env, starts>>
Quiet == answer' = NoAnswer /\ UNCHANGED <<env, starts>>

NoPermit == [task |-> None, agent |-> None, model |-> None, account |-> None,
             completion |-> FALSE, current |-> 0, order |-> 0]
NoAttempt == [task |-> None, account |-> None, completion |-> FALSE, state |-> "none",
              previous |-> 0, expires |-> 0]

Init ==
  /\ env \in Environments /\ starts = 0
  /\ now = 0 /\ mode = "off" /\ account = [m \in WorkModels |-> None]
  /\ pool = {}
  /\ rate = [a \in Accounts |-> 1] /\ burst = [a \in Accounts |-> 1]
  /\ limit = [a \in Accounts |-> 1] /\ reserved = [a \in Accounts |-> 0]
  /\ tokens = [a \in Accounts |-> 0] /\ settledAt = [a \in Accounts |-> 0]
  /\ permit = [r \in Requests |-> NoPermit]
  /\ attempt = [i \in AttemptIds |-> NoAttempt] /\ started = 0
  /\ state = [t \in Tasks |-> "ready"] /\ assignee = [t \in Tasks |-> None]
  /\ leaseUntil = [t \in Tasks |-> 0] /\ submitted = [t \in Tasks |-> FALSE]
  /\ diagnostic = [t \in Tasks |-> "none"]
  /\ earned = [a \in Accounts |-> 0]
  /\ spent = [a \in Accounts |-> 0] /\ answer = NoAnswer

-----------------------------------------------------------------------------
(* Pools *)

\* The time a pool is settled at, and its allowance at a time.
At(a) == Later(now, settledAt[a])
AllowanceAt(a, time) == Refilled(tokens[a], burst[a], rate[a], settledAt[a], time)
Settled(a) == AllowanceAt(a, now)

EarnedBy(a) == earned[a] + rate[a] * (At(a) - settledAt[a])

\* ConfigureResearchPool for every pool of the policy: a new pool starts with a full
\* burst; an old one is settled under its old rate and clamped to the new burst.
TokensRefilled(p, a) == p.burst[a] * StartCost
TokensAfter(p, a) ==
  IF a \notin pool THEN p.burst[a] * StartCost
  ELSE Lesser(Settled(a), p.burst[a] * StartCost)
Configured(p, old, new) == [a \in Accounts |-> IF a \in p.pools THEN new[a] ELSE old[a]]
ConfigureResearchPools(p) ==
  LET after == [a \in Accounts |-> IF a \in p.pools THEN TokensAfter(p, a) ELSE tokens[a]]
      mark == [a \in Accounts |-> IF a \in pool THEN At(a) ELSE now]
  IN /\ pool' = pool \cup p.pools
     /\ rate' = Configured(p, rate, p.rate) /\ burst' = Configured(p, burst, p.burst)
     /\ limit' = Configured(p, limit, p.limit) /\ reserved' = Configured(p, reserved, p.reserved)
     /\ tokens' = after
     /\ settledAt' = Configured(p, settledAt, mark)
     /\ earned' = [a \in Accounts |->
                      IF a \notin p.pools THEN earned[a]
                      ELSE IF a \notin pool THEN p.burst[a] * StartCost ELSE EarnedBy(a)]

\* The server starts with a policy.  Tables outlive it; the policy in memory does not.
SetResearchPolicy(p) ==
  /\ starts' = starts + 1 /\ mode' = p.mode
  /\ \/ /\ p.mode = "disabled"
        /\ account' = [m \in WorkModels |-> None]
        /\ UNCHANGED <<poolVars, earned>>
     \/ /\ p.mode # "disabled"
        /\ account' = p.account
        /\ ConfigureResearchPools(p)
  /\ answer' = NoAnswer
  /\ UNCHANGED <<env, now, permitVars, taskVars, diagnostic, spent>>

Tick ==
  /\ now < MaxTime
  /\ now' = now + 1
  /\ Quiet
  /\ UNCHANGED <<mode, account, poolVars, permitVars, taskVars, diagnostic, ghosts>>

ClockSetBack ==
  /\ "set_back" \in env.does
  /\ \E time \in 0..MaxTime : time < now /\ now' = time
  /\ Quiet
  /\ UNCHANGED <<mode, account, poolVars, permitVars, taskVars, diagnostic, ghosts>>

-----------------------------------------------------------------------------
(* Attempts *)

Expired(x) == [x EXCEPT !.state = "expired"]

\* sweepOverdue: attempts of every account, at the time of the pool that is asked.
Overdue(x, time) == x.state = "active" /\ x.expires <= time
Swept(time) ==
  [i \in AttemptIds |-> IF Overdue(attempt[i], time) THEN Expired(attempt[i]) ELSE attempt[i]]

Running(table, a) ==
  {i \in AttemptIds : table[i].state = "active" /\ table[i].account = a}
FirstPass(table, a) == {i \in Running(table, a) : ~table[i].completion}
Busy(table, t) == \E i \in AttemptIds : table[i].state = "active" /\ table[i].task = t

\* supersedeTaskAttempts
NothingSuperseded(table, t) == table
Superseded(table, t) ==
  [i \in AttemptIds |-> IF table[i].state = "active" /\ table[i].task = t
                        THEN Expired(table[i]) ELSE table[i]]

\* admit: slots first, so that nobody spends allowance while waiting for one, then the
\* bucket.
DenialLate(table, a, completion) ==
  CASE Cardinality(Running(table, a)) > limit[a] -> "concurrency"
    [] /\ ~completion /\ Cardinality(FirstPass(table, a)) >= limit[a] - reserved[a]
       /\ Cardinality(Running(table, a)) <= limit[a] -> "reserved_capacity"
    [] OTHER -> IF Settled(a) < StartCost THEN "rate" ELSE "none"
Denial(table, a, completion) ==
  CASE Cardinality(Running(table, a)) >= limit[a] -> "concurrency"
    [] /\ Cardinality(Running(table, a)) < limit[a]
       /\ ~completion
       /\ Cardinality(FirstPass(table, a)) >= limit[a] - reserved[a] -> "reserved_capacity"
    [] /\ Cardinality(Running(table, a)) < limit[a]
       /\ completion \/ Cardinality(FirstPass(table, a)) < limit[a] - reserved[a]
       /\ Settled(a) < StartCost -> "rate"
    [] OTHER -> "none"

\* The time a start denied for its rate is told to come back at.
NotBefore(a) == ShortUntil(Settled(a), rate[a], At(a))

Debit(a) ==
  /\ tokens' = [tokens EXCEPT ![a] = Settled(a) - StartCost]
  /\ settledAt' = [settledAt EXCEPT ![a] = At(a)]
  /\ earned' = [earned EXCEPT ![a] = EarnedBy(a)]
  /\ UNCHANGED <<pool, rate, burst, limit, reserved>>

\* A new row for a task, live until a lease from now; the table is as the sweep left it.
InsertAttempt(table, t, a, completion, previous) ==
  /\ started < MaxAttempts
  /\ started' = started + 1
  /\ attempt' = [table EXCEPT ![started + 1] =
                   [task |-> t, account |-> a, completion |-> completion, state |-> "active",
                    previous |-> previous, expires |-> At(a) + LeaseTTL]]

\* reserveAttempt under enforcement: a task that has a live attempt is refused with
\* nothing written, a denial keeps the sweep, an admission is paid for.
StartAdmitted(t, a, completion, previous) ==
  LET table == Swept(At(a))
  IN /\ a \in pool
     /\ ~Busy(table, t)
     /\ Denial(table, a, completion) = "none"
     /\ Debit(a)
     /\ InsertAttempt(table, t, a, completion, previous)
     /\ spent' = [spent EXCEPT ![a] = @ + StartCost]
StartDenied(t, a, completion) ==
  LET table == Swept(At(a))
  IN /\ a \in pool
     /\ ~Busy(table, t)
     /\ Denial(table, a, completion) # "none"
     /\ attempt' = table
     /\ UNCHANGED <<poolVars, started, permit>>
\* ... and under observation: whatever ran on the task is superseded, and a start that
\* would have been denied happens anyway, unpaid.
StartObserved(t, a, completion, previous) ==
  LET table == Superseded(Swept(At(a)), t)
      free == Denial(table, a, completion) = "none"
  IN /\ a \in pool
     /\ IF free THEN Debit(a) ELSE UNCHANGED <<poolVars, earned>>
     /\ InsertAttempt(table, t, a, completion, previous)
     /\ spent' = [spent EXCEPT ![a] = IF free THEN @ + StartCost ELSE @]

\* latestTaskAttempt: the newest permit of a task, and that permit's current attempt.
Used(r) == permit[r].order # 0
PermitsOf(t) == {r \in Requests : Used(r) /\ permit[r].task = t}
OldestOf(t, r) == r \in PermitsOf(t) /\ \A q \in PermitsOf(t) : permit[q].order >= permit[r].order
NewestOf(t, r) == r \in PermitsOf(t) /\ \A q \in PermitsOf(t) : permit[q].order <= permit[r].order
LatestAttempt(t) ==
  IF PermitsOf(t) = {} THEN 0
  ELSE permit[CHOOSE r \in PermitsOf(t) : NewestOf(t, r)].current

InsertPermit(r, t, g, m, a, completion) ==
  permit' = [permit EXCEPT ![r] =
               [task |-> t, agent |-> g, model |-> m, account |-> a, completion |-> completion,
                current |-> started + 1,
                order |-> Cardinality({q \in Requests : Used(q)}) + 1]]

-----------------------------------------------------------------------------
(* Claiming *)

\* researchWorkClass: reviews, adjudications and rework may use the reserved slots.
IsCompletion(t) == t \in CompletionTasks \/ submitted[t]

Claimable(t) ==
  \/ state[t] = "ready"
  \/ state[t] = "in_progress" /\ leaseUntil[t] # 0 /\ leaseUntil[t] < now
ClaimTask(t, g) ==
  /\ Claimable(t)
  /\ state' = [state EXCEPT ![t] = "in_progress"]
  /\ assignee' = [assignee EXCEPT ![t] = g]
  /\ leaseUntil' = [leaseUntil EXCEPT ![t] = now + LeaseTTL]
  /\ UNCHANGED submitted

PoolOf(t) == account[TaskModel[t]]

RecordAdmission(t, outcome) == diagnostic' = [diagnostic EXCEPT ![t] = outcome]

\* ClaimResearchTask, one action for each way it ends.
ClaimUnpaced(t, g) ==
  /\ mode = "disabled"
  /\ ClaimTask(t, g)
  /\ Quiet
  /\ UNCHANGED <<now, mode, account, poolVars, permitVars, diagnostic, ghosts>>

ClaimAdmitted(t, g, r) ==
  /\ mode = "enforce" /\ ~Used(r) /\ PoolOf(t) # None
  /\ ClaimTask(t, g)
  /\ StartAdmitted(t, PoolOf(t), IsCompletion(t), LatestAttempt(t))
  /\ InsertPermit(r, t, g, TaskModel[t], PoolOf(t), IsCompletion(t))
  /\ RecordAdmission(t, "admit")
  /\ Answer(r, started + 1)
  /\ UNCHANGED <<now, mode, account>>

ClaimDenied(t, g, r) ==
  /\ mode = "enforce" /\ ~Used(r) /\ PoolOf(t) # None
  /\ Claimable(t)
  /\ StartDenied(t, PoolOf(t), IsCompletion(t))
  /\ RecordAdmission(t, "wait")
  /\ Quiet
  /\ UNCHANGED <<now, mode, account, taskVars, ghosts>>

ClaimObserved(t, g, r) ==
  /\ mode = "observe" /\ ~Used(r) /\ PoolOf(t) # None
  /\ ClaimTask(t, g)
  /\ StartObserved(t, PoolOf(t), IsCompletion(t), LatestAttempt(t))
  /\ InsertPermit(r, t, g, TaskModel[t], PoolOf(t), IsCompletion(t))
  /\ RecordAdmission(t, "hypothetical")
  /\ Answer(r, started + 1)
  /\ UNCHANGED <<now, mode, account>>

\* A model without a pool: under enforcement only one the server no longer allows.
ClaimUnmapped(t, g) ==
  /\ PoolOf(t) = None
  /\ Claimable(t)
  /\ \/ mode = "observe" /\ ClaimTask(t, g) /\ RecordAdmission(t, "hypothetical")
     \/ mode = "enforce" /\ RecordAdmission(t, "unmapped") /\ UNCHANGED taskVars
  /\ Quiet
  /\ UNCHANGED <<now, mode, account, poolVars, permitVars, ghosts>>

\* replayClaim: a retried request is answered with its attempt while that attempt is
\* the task's newest, runs, and the task is still its agent's.
BoundTo(r, t, g) ==
  /\ permit[r].task = t /\ permit[r].agent = g /\ permit[r].model = TaskModel[t]
  /\ permit[r].account = PoolOf(t) /\ permit[r].completion = IsCompletion(t)
StillBound(r, t, g) ==
  /\ attempt[permit[r].current].state = "active"
  /\ state[t] = "in_progress" /\ assignee[t] = g
StillOwns(r, t, g) ==
  LET x == attempt[permit[r].current]
  IN /\ NewestOf(t, r)
     /\ x.state = "active" /\ x.expires > now
     /\ state[t] = "in_progress" /\ assignee[t] = g
ClaimReplayed(t, g, r) ==
  /\ mode # "disabled" /\ Used(r)
  /\ BoundTo(r, t, g)
  /\ StillOwns(r, t, g)
  /\ Answer(r, permit[r].current)
  /\ UNCHANGED <<now, mode, account, poolVars, permitVars, taskVars, diagnostic, ghosts>>

-----------------------------------------------------------------------------
(* Working *)

Owns(t, g) == state[t] = "in_progress" /\ assignee[t] = g

\* fenceResearchAttempt: i is the attempt the caller names, 0 for a legacy caller.
AgentOfLatest(t) ==
  IF PermitsOf(t) = {} THEN None
  ELSE permit[CHOOSE r \in PermitsOf(t) : NewestOf(t, r)].agent
Fenced(t, g, i) == i # 0 /\ ~(LatestAttempt(t) = i /\ AgentOfLatest(t) = g)
Live(i) == attempt[i].state = "active" /\ attempt[i].expires > now

\* A lease is extended, never shortened.
Extended(i) == [attempt EXCEPT ![i].expires = Later(@, now + LeaseTTL)]

HeartbeatTask(t, g, i) ==
  /\ Owns(t, g)
  /\ ~Fenced(t, g, i)
  /\ i # 0 => Live(i)
  /\ leaseUntil' = [leaseUntil EXCEPT ![t] = now + LeaseTTL]
  /\ attempt' = IF AgentOfLatest(t) = g /\ Live(LatestAttempt(t))
                THEN Extended(LatestAttempt(t)) ELSE attempt
  /\ Quiet
  /\ UNCHANGED <<now, mode, account, poolVars, permit, started, state, assignee, submitted,
                 diagnostic, ghosts>>

\* A submission is fenced but looks at no lease, and leaves the attempt running.
SubmitTask(t, g, i) ==
  /\ Owns(t, g)
  /\ ~Fenced(t, g, i)
  /\ state' = [state EXCEPT ![t] = IF t \in CompletionTasks THEN "done" ELSE "review"]
  /\ leaseUntil' = [leaseUntil EXCEPT ![t] = 0]
  /\ submitted' = [submitted EXCEPT ![t] = TRUE]
  /\ Quiet
  /\ UNCHANGED <<now, mode, account, poolVars, permitVars, assignee, diagnostic, ghosts>>

\* Hand-back ends the attempt with the claim, as cancelled or, when overdue, as expired.
UnclaimTask(t, g, i) ==
  LET last == LatestAttempt(t)
      mine == AgentOfLatest(t) = g
  IN /\ Owns(t, g)
     /\ submitted[t] => t \in CompletionTasks
     /\ ~Fenced(t, g, i)
     /\ mine => i # 0
     /\ state' = [state EXCEPT ![t] = "ready"]
     /\ assignee' = [assignee EXCEPT ![t] = None]
     /\ leaseUntil' = [leaseUntil EXCEPT ![t] = 0]
     /\ attempt' = IF mine /\ attempt[last].state = "active"
                   THEN [attempt EXCEPT ![last].state =
                           IF Live(last) THEN "finalized" ELSE "expired"]
                   ELSE attempt
     /\ Quiet
     /\ UNCHANGED <<now, mode, account, poolVars, permit, started, submitted, diagnostic, ghosts>>

\* RenewResearchAttempt and FinalizeResearchAttempt, whatever has become of the task: of
\* the permit's current attempt only; one that is overdue is expired instead.
Expire(i) == attempt' = [attempt EXCEPT ![i] = Expired(@)]
RenewResearchAttempt(r) ==
  LET i == permit[r].current
  IN /\ Used(r) /\ attempt[i].state = "active"
     /\ IF Live(i) THEN attempt' = Extended(i) ELSE Expire(i)
     /\ Quiet
     /\ UNCHANGED <<now, mode, account, poolVars, permit, started, taskVars, diagnostic, ghosts>>
FinalizeResearchAttempt(r) ==
  LET i == permit[r].current
  IN /\ Used(r) /\ attempt[i].state = "active"
     /\ IF Live(i) THEN attempt' = [attempt EXCEPT ![i].state = "finalized"] ELSE Expire(i)
     /\ Quiet
     /\ UNCHANGED <<now, mode, account, poolVars, permit, started, taskVars, diagnostic, ghosts>>

\* The rest of the board: a submitted task is sent back for rework, and an operator
\* takes one from its agent (by way of blocked) while the dispatch runs on.
SendBack(t) ==
  /\ state[t] = "review"
  /\ state' = [state EXCEPT ![t] = "ready"]
  /\ Quiet
  /\ UNCHANGED <<now, mode, account, poolVars, permitVars, assignee, leaseUntil, submitted,
                 diagnostic, ghosts>>
TakeAway(t) ==
  /\ "take_away" \in env.does
  /\ state[t] = "in_progress"
  /\ state' = [state EXCEPT ![t] = "ready"]
  /\ assignee' = [assignee EXCEPT ![t] = None]
  /\ leaseUntil' = [leaseUntil EXCEPT ![t] = 0]
  /\ Quiet
  /\ UNCHANGED <<now, mode, account, poolVars, permitVars, submitted, diagnostic, ghosts>>

-----------------------------------------------------------------------------
(* The store's own admission interface, which no handler calls yet *)

RequestResearchPermit(t, g, m, a, completion, r) ==
  /\ ~Used(r)
  /\ \/ /\ StartAdmitted(t, a, completion, 0)
        /\ InsertPermit(r, t, g, m, a, completion)
     \/ /\ StartDenied(t, a, completion)
        /\ UNCHANGED ghosts
  /\ Quiet
  /\ UNCHANGED <<now, mode, account, taskVars, diagnostic>>

\* Fenced by the attempt it follows, which must have ended or be overdue.
StartNextResearchAttempt(r) ==
  LET p == permit[r]
      last == attempt[p.current]
  IN /\ Used(r)
     /\ last.state = "active" => last.expires <= now
     /\ \/ /\ StartAdmitted(p.task, p.account, p.completion, p.current)
           /\ permit' = [permit EXCEPT ![r].current = started + 1]
        \/ /\ StartDenied(p.task, p.account, p.completion)
           /\ UNCHANGED ghosts
     /\ Quiet
     /\ UNCHANGED <<now, mode, account, taskVars, diagnostic>>

ExpireResearchAttempts ==
  /\ \E i \in AttemptIds : Overdue(attempt[i], now)
  /\ attempt' = Swept(now)
  /\ Quiet
  /\ UNCHANGED <<now, mode, account, poolVars, permit, started, taskVars, diagnostic, ghosts>>

-----------------------------------------------------------------------------
(* Agents, the server and the clock *)

Claim(t, g) ==
  \/ ClaimUnpaced(t, g)
  \/ ClaimUnmapped(t, g)
  \/ \E r \in Requests :
       \/ ClaimAdmitted(t, g, r) \/ ClaimDenied(t, g, r) \/ ClaimObserved(t, g, r)
       \/ ClaimReplayed(t, g, r)

\* An agent names no attempt, or one it was given.
Work(t, g) ==
  \E i \in {0} \cup {permit[r].current : r \in {q \in Requests : permit[q].agent = g}} :
    HeartbeatTask(t, g, i) \/ SubmitTask(t, g, i) \/ UnclaimTask(t, g, i)

Interface ==
  /\ "interface" \in env.does /\ mode # "off"
  /\ \/ \E t \in Tasks, g \in Agents, m \in WorkModels, a \in Accounts, c \in BOOLEAN, r \in Requests :
          RequestResearchPermit(t, g, m, a, c, r)
     \/ \E r \in Requests : StartNextResearchAttempt(r)
     \/ ExpireResearchAttempts

Next ==
  \/ starts < Len(env.policies) /\ SetResearchPolicy(env.policies[starts + 1])
  \/ Tick \/ ClockSetBack
  \/ \E t \in Tasks, g \in Agents : Claim(t, g)
  \/ \E t \in Tasks, g \in Agents : Work(t, g)
  \/ \E r \in Requests : RenewResearchAttempt(r) \/ FinalizeResearchAttempt(r)
  \/ \E t \in Tasks : SendBack(t) \/ TakeAway(t)
  \/ Interface

Spec == Init /\ [][Next]_vars

-----------------------------------------------------------------------------
(* Properties *)

\* The starts a pool paid for never cost more than its first burst and what its rates
\* came to up to its high-water mark: no restart, no change of policy and no clock
\* that is set back mints a start (settle, ConfigureResearchPool).
StartsArePaced == \A a \in Accounts : spent[a] <= earned[a]

\* A task has one live attempt at most, whatever the modes it was claimed under: two
\* dispatches of a task never count, or are fenced, as one (reserveAttempt).
OneLiveAttemptPerTask ==
  \A i, j \in AttemptIds :
    /\ attempt[i].state = "active" /\ attempt[j].state = "active"
    /\ attempt[i].task = attempt[j].task
    => i = j

\* A claim that is answered with an attempt owns the task: the attempt runs, it is the
\* task's newest, and the task is in progress under the request's agent, however late
\* the answer to a retried request is computed (ClaimResearchTask, replayClaim).
GrantsAreOwned ==
  answer # NoAnswer =>
    LET r == answer[1]
        t == permit[r].task
    IN /\ answer[2] = permit[r].current /\ NewestOf(t, r)
       /\ Live(answer[2])
       /\ state[t] = "in_progress" /\ assignee[t] = permit[r].agent

\* Under enforcement the agent a task is assigned to is the agent of its newest permit,
\* so that whoever the fence turns away has lost the task as well, and nobody else can
\* submit it.
AssigneeHoldsNewestPermit ==
  (\A i \in DOMAIN env.policies : env.policies[i].mode = "enforce") /\ "interface" \notin env.does =>
    \A t \in Tasks : state[t] = "in_progress" => AgentOfLatest(t) = assignee[t]

\* No start goes beyond the slots of its pool, and first-pass work leaves the reserved
\* ones free, after all the sweeps, renewals, reconfigurations and hand-backs before it.
StartsWithinSlots ==
  [][\A a \in Accounts :
       mode = "enforce" /\ started' # started /\ attempt'[started'].account = a =>
         /\ Cardinality(Running(attempt', a)) <= limit[a]
         /\ ~attempt'[started'].completion =>
              Cardinality(FirstPass(attempt', a)) <= limit[a] - reserved[a]]_vars

\* Under enforcement a task whose dispatch is still renewed is not given to another
\* agent, although its own lease has run out.
LiveDispatchKeepsTask ==
  [][\A t \in Tasks, i \in AttemptIds :
       /\ mode = "enforce"
       /\ attempt[i].task = t /\ attempt[i].state = "active"
       /\ \A a \in Accounts : attempt[i].expires > At(a)
       /\ state[t] = "in_progress" /\ state'[t] = "in_progress"
       => assignee'[t] = assignee[t]]_vars

\* A start that is denied for its rate alone is admitted at the time it is told to come
\* back at, and not a tick before, if the policy stays as it is and nobody else starts.
DeferralIsExact ==
  \A a \in pool :
    Settled(a) < StartCost =>
      /\ AllowanceAt(a, NotBefore(a)) >= StartCost
      /\ AllowanceAt(a, NotBefore(a) - 1) < StartCost
=============================================================================
