--------------------------- MODULE EvaluationJobs ---------------------------
(***************************************************************************)
(* Evaluation jobs: every attempt of a candidate reviewer at a frozen      *)
(* sample, with its lease, its caps and its pool                           *)
(* (internal/store/evaluation_job.go and evaluation_pool.go, and the       *)
(* handlers of internal/api/evaluation.go that call them).                 *)
(*                                                                         *)
(* The store has one connection, and a call is atomic only within a        *)
(* transaction.  A claim reads the clock and expires what is overdue in    *)
(* one transaction and admits in a second; a renewal reads the attempt and *)
(* writes it in two statements; a result is recorded with the time its     *)
(* call began at.  Those calls are two steps here, with other calls and    *)
(* the clock in between.                                                   *)
(***************************************************************************)
EXTENDS TokenBucket, FiniteSets, Sequences

CONSTANTS
  Callers,           \* who has a call in flight
  Campaigns, Candidates, Samples, Pools,
  CampaignOf,        \* of a candidate and of a sample
  PoolOf,            \* the account pool of a candidate's identity
  RatePools,         \* the pools with a start rate; others are bounded by concurrency alone
  Allowed,           \* candidates whose model and samples whose project their campaign allows
  AttemptCap, PerCandidateCap,
  Requests,          \* request ids
  LeaseTTLs,         \* the leases callers ask for
  Environments,      \* what there is at the start, and what the environment does
  None,
  \* Bounds of the model.
  MaxTime, MaxAttempts

Exits == {"completed", "failed", "unknown", "cancelled", "timeout", "unavailable_snapshot",
          "unavailable_source", "invalid_output", "incomplete_output"}
Records == Campaigns \cup Candidates \cup Samples
AttemptIds == 1..MaxAttempts
Jobs == Samples \X Candidates

\* EvaluationPoolConfig.validate
ValidConfig(p, cfg) ==
  /\ cfg.limit \in Nat \ {0}
  /\ p \in RatePools => cfg.rate \in Nat \ {0} /\ cfg.burst \in Nat \ {0}

ASSUME EvaluationConstants ==
  /\ CampaignOf \in [Candidates \cup Samples -> Campaigns] /\ PoolOf \in [Candidates -> Pools]
  /\ RatePools \subseteq Pools /\ Allowed \subseteq Candidates \cup Samples
  /\ AttemptCap \in [Campaigns -> Nat \ {0}] /\ PerCandidateCap \in [Candidates -> Nat \ {0}]
  /\ LeaseTTLs \subseteq Nat \ {0}
  /\ MaxTime \in Nat /\ MaxAttempts \in Nat
  /\ \A e \in Environments : e.until \in 0..MaxTime /\ e.jobs \subseteq Jobs /\ e.requests \subseteq Requests
  /\ \A e \in Environments : \A p \in Pools :
       /\ Len(e.configs[p]) \in Nat /\ DOMAIN e.configs[p] = 1..Len(e.configs[p])
       /\ \A i \in DOMAIN e.configs[p] : ValidConfig(p, e.configs[p][i])

VARIABLES
  env, now,
  made,              \* the campaigns, candidates and samples that have a row
  paused,
  configured,        \* how often each pool has been configured
  tokens, settledAt, \* of a rate pool
  attempt, started,  \* rows 1..started of evaluation_attempt
  current,           \* current_attempt_id of a job, 0 while it has no row
  call,              \* the call a caller has in flight
  answers            \* the attempts each request id was answered with (the code keeps none)

storeVars == <<made, paused, configured, tokens, settledAt, attempt, started, current>>
jobVars == <<env, now, storeVars, call, answers>>

NoAttempt == [job |-> <<None, None>>, request |-> 0, pool |-> None, previous |-> 0,
              state |-> "none", expires |-> 0, exit |-> "none"]
NoCall == [kind |-> "none"]

JobsInit ==
  /\ env \in Environments
  /\ now = 0
  /\ made = env.made /\ paused = {}
  /\ configured = [p \in Pools |-> 0]
  /\ tokens = [p \in Pools |-> 0] /\ settledAt = [p \in Pools |-> 0]
  /\ attempt = [i \in AttemptIds |-> NoAttempt] /\ started = 0
  /\ current = [j \in Jobs |-> 0]
  /\ call = [c \in Callers |-> NoCall]
  /\ answers = [q \in Requests |-> {}]

Idle(c) == call[c] = NoCall
Begin(c, record) == Idle(c) /\ call' = [call EXCEPT ![c] = record]
Return(c) == call' = [call EXCEPT ![c] = NoCall]

-----------------------------------------------------------------------------
(* Campaigns, candidates, samples and pools *)

\* A campaign, a candidate of an allowed model, a sample of an allowed project: created
\* once, after their campaign, and immutable.
CreateEvaluationCampaign(k) == k \in Campaigns \ made
CreateEvaluationCandidate(d) ==
  d \in Candidates \ made /\ CampaignOf[d] \in made /\ d \in Allowed
CreateEvaluationSample(s) ==
  s \in Samples \ made /\ CampaignOf[s] \in made /\ s \in Allowed
Create(x) ==
  /\ \/ CreateEvaluationCampaign(x) \/ CreateEvaluationCandidate(x) \/ CreateEvaluationSample(x)
  /\ made' = made \cup {x}
  /\ UNCHANGED <<env, now, paused, configured, tokens, settledAt, attempt, started, current, call, answers>>

\* Nothing resumes a campaign.
PauseEvaluationCampaign(k) ==
  /\ k \in made \ paused
  /\ paused' = paused \cup {k}
  /\ UNCHANGED <<env, now, made, configured, tokens, settledAt, attempt, started, current, call, answers>>

Config(p) == env.configs[p][configured[p]]
Allowance(p, time) ==
  Refilled(tokens[p], Config(p).burst, Config(p).rate, settledAt[p], time)

\* A new pool starts with a full burst; an old one is settled under its old rate and
\* clamped to the new burst.
ConfigureEvaluationPool(p) ==
  /\ configured[p] < Len(env.configs[p])
  /\ configured' = [configured EXCEPT ![p] = @ + 1]
  /\ IF p \in RatePools
     THEN LET full == env.configs[p][configured[p] + 1].burst * StartCost
              new == configured[p] = 0
          IN /\ tokens' = [tokens EXCEPT ![p] = IF new THEN full ELSE Lesser(Allowance(p, now), full)]
             /\ settledAt' = [settledAt EXCEPT ![p] = IF new THEN now ELSE Later(now, @)]
     ELSE UNCHANGED <<tokens, settledAt>>
  /\ UNCHANGED <<env, now, made, paused, attempt, started, current, call, answers>>

Tick ==
  /\ now < env.until
  /\ now' = now + 1
  /\ UNCHANGED <<env, storeVars, call, answers>>

-----------------------------------------------------------------------------
(* Claiming *)

Active(i) == attempt[i].state = "active"
\* An attempt is overdue at the instant its lease is reached.
LeaseExpired(i, at) == attempt[i].expires <= at
Expired(x) == [x EXCEPT !.state = "expired", !.exit = "lease_expired"]
ExpireEvaluationAttempts(at) ==
  attempt' = [i \in AttemptIds |->
                IF Active(i) /\ LeaseExpired(i, at) THEN Expired(attempt[i]) ELSE attempt[i]]

ClaimBegin(c, j, q, ttl) ==
  /\ j \in Jobs /\ q \in Requests
  /\ Begin(c, [kind |-> "claim", job |-> j, request |-> q, at |-> now, expires |-> now + ttl])
  /\ ExpireEvaluationAttempts(now)
  /\ UNCHANGED <<env, now, made, paused, configured, tokens, settledAt, started, current, answers>>

BoundToLive(q) == {i \in 1..started : attempt[i].request = q /\ Active(i)}
BoundTo(q) == {i \in 1..started : attempt[i].request = q}
AttemptsOf(d) == {i \in 1..started : attempt[i].job[2] = d}
AttemptsIn(k) == UNION {AttemptsOf(d) : d \in {x \in Candidates : CampaignOf[x] = k}}

\* admitEvaluationStart: attempts live at the pool's time against its limit, then its
\* allowance; a pool without a rate has no bucket.
PoolTime(p, at) == IF p \in RatePools THEN Later(at, settledAt[p]) ELSE at
Occupancy(p, at) ==
  Cardinality({i \in 1..started : attempt[i].pool = p /\ Active(i) /\ ~LeaseExpired(i, PoolTime(p, at))})
PoolAdmitsOneMore(p, at) ==
  /\ configured[p] > 0
  /\ Occupancy(p, at) <= Config(p).limit
  /\ p \in RatePools => Allowance(p, at) >= StartCost
PoolAdmits(p, at) ==
  /\ configured[p] > 0
  /\ Occupancy(p, at) < Config(p).limit
  /\ p \in RatePools => Allowance(p, at) >= StartCost

\* What a claim with a fresh request id needs: a sample and a candidate of one campaign,
\* no live attempt at the job, no pause, a share of both caps and a start from the pool.
SameCampaign(j) == CampaignOf[j[1]] = CampaignOf[j[2]]
NoLiveAttemptSoon(j, at) == current[j] # 0 /\ Active(current[j]) => LeaseExpired(current[j], at + 1)
NoLiveAttempt(j, at) == current[j] # 0 /\ Active(current[j]) => LeaseExpired(current[j], at)
WithinCaps(j) ==
  /\ Cardinality(AttemptsOf(j[2])) < PerCandidateCap[j[2]]
  /\ Cardinality(AttemptsIn(CampaignOf[j[2]])) < AttemptCap[CampaignOf[j[2]]]
Admissible(x) ==
  /\ x.job[1] \in made /\ x.job[2] \in made
  /\ SameCampaign(x.job)
  /\ NoLiveAttempt(x.job, x.at)
  /\ CampaignOf[x.job[2]] \notin paused
  /\ WithinCaps(x.job)
  /\ PoolAdmits(PoolOf[x.job[2]], x.at)

Debit(p, at) ==
  IF p \in RatePools
  THEN /\ tokens' = [tokens EXCEPT ![p] = Allowance(p, at) - StartCost]
       /\ settledAt' = [settledAt EXCEPT ![p] = Later(at, @)]
  ELSE UNCHANGED <<tokens, settledAt>>

\* The job's next attempt becomes its current one.  A previous attempt that is overdue
\* by now, but was not when this call swept, stays active behind it.
InsertAttempt(x) ==
  /\ started < MaxAttempts
  /\ started' = started + 1
  /\ attempt' = [attempt EXCEPT ![started + 1] =
       [job |-> x.job, request |-> x.request, pool |-> PoolOf[x.job[2]], previous |-> current[x.job],
        state |-> "active", expires |-> x.expires, exit |-> "none"]]
  /\ current' = [current EXCEPT ![x.job] = started + 1]

Answer(q, i) == answers' = [answers EXCEPT ![q] = @ \cup {i}]

ClaimAdmitted(c) ==
  LET x == call[c]
  IN /\ x.kind = "claim"
     /\ BoundTo(x.request) = {}
     /\ Admissible(x)
     /\ Debit(PoolOf[x.job[2]], x.at)
     /\ InsertAttempt(x)
     /\ Answer(x.request, started + 1)
     /\ Return(c)
     /\ UNCHANGED <<env, now, made, paused, configured>>

\* A repeated request is answered with its attempt, whatever has become of it, and spends
\* nothing; for another sample or candidate it is refused.
ClaimRepeated(c) ==
  LET x == call[c]
  IN /\ x.kind = "claim"
     /\ \E i \in BoundTo(x.request) :
          IF attempt[i].job = x.job THEN Answer(x.request, i) ELSE UNCHANGED answers
     /\ Return(c)
     /\ UNCHANGED <<env, now, storeVars>>

ClaimRefused(c) ==
  LET x == call[c]
  IN /\ x.kind = "claim"
     /\ BoundTo(x.request) = {}
     /\ ~Admissible(x)
     /\ Return(c)
     /\ UNCHANGED <<env, now, storeVars, answers>>

-----------------------------------------------------------------------------
(* Renewing and finalizing *)

\* A renewal must move the lease of a live attempt forward.
RenewBegin(c, i, ttl) ==
  /\ Active(i) /\ ~LeaseExpired(i, now)
  /\ now + ttl > attempt[i].expires
  /\ Begin(c, [kind |-> "renew", attempt |-> i, expires |-> now + ttl])
  /\ UNCHANGED <<env, now, storeVars, answers>>
RenewCommit(c) ==
  LET x == call[c]
  IN /\ x.kind = "renew"
     /\ attempt' = IF Active(x.attempt) THEN [attempt EXCEPT ![x.attempt].expires = x.expires] ELSE attempt
     /\ Return(c)
     /\ UNCHANGED <<env, now, made, paused, configured, tokens, settledAt, started, current, answers>>

\* A result is recorded for the job's current attempt while its lease lasts, as of the
\* time the call began at; one that is late expires the attempt instead.
FinalizeBegin(c, i, exit) ==
  /\ exit \in Exits
  /\ Begin(c, [kind |-> "finalize", attempt |-> i, exit |-> exit, at |-> now])
  /\ UNCHANGED <<env, now, storeVars, answers>>
FencedByState(i) == ~Active(i)
Fenced(i) == current[attempt[i].job] # i
EndedLate(i, exit, at) == [attempt[i] EXCEPT !.state = "finalized", !.exit = exit]
Ended(i, exit, at) ==
  IF LeaseExpired(i, at) THEN Expired(attempt[i])
  ELSE [attempt[i] EXCEPT !.state = "finalized", !.exit = exit]
FinalizeCommit(c) ==
  LET x == call[c]
  IN /\ x.kind = "finalize"
     /\ attempt' = IF Active(x.attempt) /\ ~Fenced(x.attempt)
                   THEN [attempt EXCEPT ![x.attempt] = Ended(x.attempt, x.exit, x.at)] ELSE attempt
     /\ Return(c)
     /\ UNCHANGED <<env, now, made, paused, configured, tokens, settledAt, started, current, answers>>
=============================================================================
