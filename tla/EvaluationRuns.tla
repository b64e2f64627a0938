--------------------------- MODULE EvaluationRuns ---------------------------
(***************************************************************************)
(* Runners of evaluation campaigns (internal/evalrun) on the jobs of       *)
(* EvaluationJobs, with the workspaces they stage (internal/evalcohort)    *)
(* and the candidate processes they launch (internal/evaluation).          *)
(*                                                                         *)
(* A runner has two threads: one takes attempts from claim to cleanup, the *)
(* other renews the lease of the attempt in hand.  The workspace and the   *)
(* result file belong to a job, not to an attempt, so a runner that lost   *)
(* its lease and the one that took over share them; the process of an      *)
(* earlier attempt may still write when it has a successor.                *)
(***************************************************************************)
EXTENDS EvaluationJobs

CONSTANTS
  Runners,
  LeaseTTL, MaxRunAttempts, \* Config.LeaseTTL and Config.MaxAttempts
  MaxDeferrals, FinalizeRetries

Main(r) == <<r, "main">>
Beat(r) == <<r, "lease">>
ApiCallers == Callers \ (Runners \X {"main", "lease"})

ASSUME RunnerConstants ==
  /\ Runners \X {"main", "lease"} \subseteq Callers
  /\ LeaseTTL \in LeaseTTLs /\ Requests \subseteq Nat
  /\ MaxRunAttempts \in Nat \ {0} /\ MaxDeferrals \in Nat \ {0} /\ FinalizeRetries \in Nat

VARIABLES
  run,               \* the state of each runner
  beating,           \* the runners whose lease is being renewed
  workspace,         \* the jobs that have a staged workspace
  result,            \* the attempt named by the result file of a job, 0 without a file
  processes,         \* the attempts whose candidate process runs
  reviewed           \* the attempts whose process has written a review

runVars == <<run, beating, workspace, result, processes, reviewed>>
vars == <<jobVars, runVars>>

FreshRun(todo) ==
  [pc |-> IF todo = <<>> THEN "idle" ELSE "claim", todo |-> todo, attempt |-> 0, tries |-> 0,
   deferrals |-> 0, exit |-> "unknown", finals |-> 0, held |-> "none",
   lost |-> FALSE, cancelled |-> FALSE]

Init ==
  /\ JobsInit
  /\ run = [r \in Runners |-> FreshRun(env.campaign[r])]
  /\ beating = {} /\ workspace = {} /\ processes = {} /\ reviewed = {}
  /\ result = [j \in Jobs |-> 0]

JobOf(r) == Head(run[r].todo)
At(r, pc) == run[r].pc = pc
Step(r, fields) == run' = [run EXCEPT ![r] = fields]
Cancelled(r) == run[r].cancelled \/ run[r].lost

-----------------------------------------------------------------------------
(* Claiming: Runner.claim and RunCampaign *)

\* Every claim has a request id of its own.
Taken(q) == BoundTo(q) # {} \/ \E c \in Callers : call[c].kind = "claim" /\ call[c].request = q
FreshRequest(q) == ~Taken(q) /\ \A p \in Requests : ~Taken(p) => q <= p
RunClaim(r) ==
  /\ At(r, "claim") /\ ~run[r].cancelled
  /\ \E q \in Requests : FreshRequest(q) /\ ClaimBegin(Main(r), JobOf(r), q, LeaseTTL)
  /\ Step(r, [run[r] EXCEPT !.pc = "claiming"])
  /\ UNCHANGED <<beating, workspace, result, processes, reviewed>>

RunAdmitted(r) ==
  /\ At(r, "claiming")
  /\ ClaimAdmitted(Main(r))
  /\ Step(r, [run[r] EXCEPT !.pc = "stage", !.attempt = started', !.tries = @ + 1,
                            !.exit = "unknown", !.finals = 0, !.held = "none", !.lost = FALSE])
  /\ beating' = beating \cup {r}
  /\ UNCHANGED <<workspace, result, processes, reviewed>>

\* Why a claim was refused, in the order of ClaimEvaluationJob.
RefusalOf(x) ==
  LET p == PoolOf[x.job[2]]
  IN CASE x.job[1] \notin made \/ x.job[2] \notin made \/ ~SameCampaign(x.job) -> "host_error"
       [] OTHER -> IF ~NoLiveAttempt(x.job, x.at) THEN "attempt_live"
                   ELSE IF CampaignOf[x.job[2]] \in paused THEN "paused"
                   ELSE IF ~WithinCaps(x.job) THEN "capacity_exhausted"
                   ELSE IF configured[p] = 0 THEN "pool_not_configured" ELSE "denied"

\* RunCampaign: what is left to run after a pair ended in a way.
SameCandidate(j, k) == j[2] = k[2]
LeftInPlace(r, kind) == IF run[r].cancelled \/ kind = "paused" THEN <<>> ELSE run[r].todo
Left(r, kind) ==
  LET j == JobOf(r)
      rest == Tail(run[r].todo)
      Other(k) == ~SameCandidate(j, k)
  IN IF run[r].cancelled \/ kind = "paused" THEN <<>>
     ELSE IF kind \in {"capacity_exhausted", "deferred", "pool_not_configured", "host_error"}
     THEN SelectSeq(rest, Other) ELSE rest
EndRun(r, kind) == Step(r, [FreshRun(Left(r, kind)) EXCEPT !.cancelled = run[r].cancelled])

RunCancelled(r) ==
  /\ At(r, "claim") /\ run[r].cancelled
  /\ EndRun(r, "cancelled")
  /\ UNCHANGED <<jobVars, beating, workspace, result, processes, reviewed>>

\* A pool that denies a start is waited for, a bounded number of times.
RunRefused(r) ==
  LET kind == RefusalOf(call[Main(r)])
  IN /\ At(r, "claiming")
     /\ ClaimRefused(Main(r))
     /\ IF kind # "denied" THEN EndRun(r, kind)
        ELSE IF run[r].deferrals + 1 >= MaxDeferrals THEN EndRun(r, "deferred")
        ELSE Step(r, [run[r] EXCEPT !.pc = "claim", !.deferrals = @ + 1])
     /\ UNCHANGED <<beating, workspace, result, processes, reviewed>>

-----------------------------------------------------------------------------
(* An attempt: attemptRun *)

Abort(r, exit) == Step(r, [run[r] EXCEPT !.pc = "commit", !.exit = exit])

\* Stager.Stage replaces what an earlier attempt left in the job's slot, or finds that the
\* frozen sample cannot be rebuilt and leaves nothing.
Stage(r) ==
  /\ At(r, "stage")
  /\ \/ /\ ~Cancelled(r)
        /\ workspace' = workspace \cup {JobOf(r)}
        /\ Step(r, [run[r] EXCEPT !.pc = "validate"])
     \/ /\ ~Cancelled(r)
        /\ "unavailable" \in env.does
        /\ workspace' = workspace \ {JobOf(r)}
        /\ Abort(r, "unavailable_snapshot")
     \/ Cancelled(r) /\ Abort(r, "cancelled") /\ UNCHANGED workspace
  /\ result' = [result EXCEPT ![JobOf(r)] = IF Cancelled(r) THEN @ ELSE 0]
  /\ UNCHANGED <<jobVars, beating, processes, reviewed>>

\* Staged.Validate, and Pipeline.Execute up to the launch: the stale result is cleared.
Launch(r) ==
  /\ At(r, "validate")
  /\ IF JobOf(r) \in workspace
     THEN /\ Step(r, [run[r] EXCEPT !.pc = "running"])
          /\ result' = [result EXCEPT ![JobOf(r)] = 0]
          /\ processes' = processes \cup {run[r].attempt}
     ELSE Abort(r, "unavailable_snapshot") /\ UNCHANGED <<result, processes>>
  /\ UNCHANGED <<jobVars, beating, workspace, reviewed>>

\* The candidate writes its review, under its run id, to the job's result file.
Review(i) ==
  /\ i \in processes
  /\ result' = [result EXCEPT ![attempt[i].job] = i]
  /\ reviewed' = reviewed \cup {i}
  /\ UNCHANGED <<jobVars, run, beating, workspace, processes>>

\* The process has exited, or is killed when its run is cancelled or times out; a review
\* counts when the result file names this attempt.
AnyResult(r) == result[JobOf(r)] # 0
OwnResult(r) == result[JobOf(r)] = run[r].attempt
ProcessExits(r) ==
  /\ At(r, "running")
  /\ processes' = processes \ {run[r].attempt}
  /\ \/ OwnResult(r) /\ Abort(r, "completed")
     \/ ~OwnResult(r) /\ ~run[r].lost /\ Abort(r, "invalid_output")
     \/ "timeout" \in env.does /\ ~run[r].lost /\ Abort(r, "timeout")
     \/ Cancelled(r) /\ Abort(r, "cancelled")
  /\ UNCHANGED <<jobVars, beating, workspace, result, reviewed>>

\* commit: renewal is stopped and awaited before the result is written.
RunFinalize(r) ==
  /\ At(r, "commit")
  /\ Idle(Beat(r))
  /\ beating' = beating \ {r}
  /\ FinalizeBegin(Main(r), run[r].attempt, run[r].exit)
  /\ Step(r, [run[r] EXCEPT !.pc = "finalizing"])
  /\ UNCHANGED <<workspace, result, processes, reviewed>>

\* What the store answers: recorded, late (and recorded as that), or refused.
Verdict(r) ==
  LET i == run[r].attempt
  IN CASE attempt[i].state = "finalized" -> "unrecorded"
       [] attempt[i].state = "expired" -> "lease_expired"
       [] Active(i) /\ Fenced(i) -> "unrecorded"
       [] Active(i) /\ ~Fenced(i) ->
            IF LeaseExpired(i, call[Main(r)].at) THEN "lease_expired" ELSE run[r].exit
RunRecorded(r) ==
  /\ At(r, "finalizing")
  /\ FinalizeCommit(Main(r))
  /\ Step(r, [run[r] EXCEPT !.pc = "cleanup", !.held = Verdict(r)])
  /\ UNCHANGED <<beating, workspace, result, processes, reviewed>>

\* The store cannot be reached, its answer is late, or it will not take the result: it is
\* offered again, once as unknown, a bounded number of times.
FinalizeFails(r) ==
  /\ "finalize_fails" \in env.does
  /\ At(r, "finalizing")
  /\ \/ FinalizeCommit(Main(r))
     \/ Return(Main(r)) /\ UNCHANGED <<env, now, storeVars, answers>>
  /\ IF run[r].finals >= FinalizeRetries
     THEN Step(r, [run[r] EXCEPT !.pc = "cleanup", !.held = "unrecorded"])
     ELSE \E exit \in {run[r].exit, "unknown"} :
            Step(r, [run[r] EXCEPT !.pc = "commit", !.finals = @ + 1, !.exit = exit])
  /\ UNCHANGED <<beating, workspace, result, processes, reviewed>>

\* The slot is removed, and the pair is tried again or done.
Retryable(exit) == exit \notin {"completed", "cancelled", "unavailable_snapshot", "unknown"}
Cleanup(r) ==
  LET x == run[r]
  IN /\ At(r, "cleanup")
     /\ workspace' = workspace \ {JobOf(r)}
     /\ result' = [result EXCEPT ![JobOf(r)] = 0]
     /\ IF /\ x.held # "unrecorded" /\ Retryable(x.held)
           /\ ~x.cancelled /\ x.tries < MaxRunAttempts
        THEN Step(r, [x EXCEPT !.pc = "claim"])
        ELSE EndRun(r, x.held)
     /\ UNCHANGED <<jobVars, beating, processes, reviewed>>

-----------------------------------------------------------------------------
(* The lease thread, and what the environment does to a runner *)

RenewTick(r) ==
  /\ r \in beating /\ ~run[r].lost
  /\ RenewBegin(Beat(r), run[r].attempt, LeaseTTL)
  /\ UNCHANGED runVars
RenewDone(r) ==
  /\ RenewCommit(Beat(r))
  /\ run' = [run EXCEPT ![r].lost = ~Active(call[Beat(r)].attempt)]
  /\ UNCHANGED <<beating, workspace, result, processes, reviewed>>

\* The first renewal that fails ends renewal and cancels the run.
LeaseLost(r) ==
  /\ r \in beating /\ ~run[r].lost /\ Idle(Beat(r))
  /\ ~Active(run[r].attempt) \/ LeaseExpired(run[r].attempt, now)
  /\ run' = [run EXCEPT ![r].lost = TRUE]
  /\ UNCHANGED <<jobVars, beating, workspace, result, processes, reviewed>>

CancelRun(r) ==
  /\ "cancel" \in env.does /\ r \in env.victims
  /\ run[r].pc \notin {"idle", "dead"} /\ ~run[r].cancelled
  /\ run' = [run EXCEPT ![r].cancelled = TRUE]
  /\ UNCHANGED <<jobVars, beating, workspace, result, processes, reviewed>>

\* A runner dies with both its threads; its candidate process may run on.
Crash(r) ==
  /\ "crash" \in env.does /\ r \in env.victims
  /\ run[r].pc \notin {"idle", "dead"}
  /\ run' = [run EXCEPT ![r].pc = "dead"]
  /\ beating' = beating \ {r}
  /\ call' = [call EXCEPT ![Main(r)] = NoCall, ![Beat(r)] = NoCall]
  /\ UNCHANGED <<env, now, storeVars, answers, workspace, result, processes, reviewed>>

-----------------------------------------------------------------------------
(* Callers of the API, in any order *)

ApiCall(c) ==
  \/ \E j \in env.jobs, q \in env.requests : ClaimBegin(c, j, q, LeaseTTL)
  \/ \E i \in 1..started, ttl \in LeaseTTLs : RenewBegin(c, i, ttl)
  \/ \E i \in 1..started : FinalizeBegin(c, i, "completed")
ApiReturn(c) ==
  ClaimAdmitted(c) \/ ClaimRepeated(c) \/ ClaimRefused(c) \/ RenewCommit(c) \/ FinalizeCommit(c)
Api ==
  /\ \E c \in ApiCallers : ("api" \in env.does /\ ApiCall(c)) \/ ApiReturn(c)
  /\ UNCHANGED runVars

Operator ==
  /\ \/ \E x \in Records : Create(x)
     \/ "pause" \in env.does /\ \E k \in Campaigns : PauseEvaluationCampaign(k)
     \/ \E p \in Pools : ConfigureEvaluationPool(p)
  /\ UNCHANGED runVars

RunStep(r) ==
  \/ RunClaim(r) \/ RunCancelled(r) \/ RunAdmitted(r) \/ RunRefused(r)
  \/ Stage(r) \/ Launch(r) \/ ProcessExits(r)
  \/ RunFinalize(r) \/ RunRecorded(r) \/ Cleanup(r)
Lease(r) == RenewTick(r) \/ RenewDone(r) \/ LeaseLost(r)

Next ==
  \/ \E r \in Runners : RunStep(r)
  \/ \E r \in Runners : Lease(r)
  \/ \E r \in Runners : FinalizeFails(r) \/ CancelRun(r) \/ Crash(r)
  \/ \E i \in processes : Review(i)
  \/ Api
  \/ Operator
  \/ Tick /\ UNCHANGED runVars

\* A runner that is alive goes on, and so do its lease thread's calls.
Fairness == \A r \in Runners : WF_vars(RunStep(r)) /\ WF_vars(RenewDone(r))

Spec == Init /\ [][Next]_vars /\ Fairness

-----------------------------------------------------------------------------
(* Properties *)

\* A request id, however often and however concurrently it is sent, is answered with one
\* attempt, and an attempt answers one request (ClaimEvaluationJob).
RequestsGetOneAttempt ==
  /\ \A q \in Requests : \A i, j \in answers[q] : i = j
  /\ \A p, q \in Requests : answers[p] \cap answers[q] # {} => p = q

\* No two attempts at a job are live at once, whichever claims swept, renewals read and
\* the clock moved between two steps of another call.
Live(i) == Active(i) /\ ~LeaseExpired(i, now)
OneLiveAttemptPerJob ==
  \A i, j \in 1..started : Live(i) /\ Live(j) /\ attempt[i].job = attempt[j].job => i = j

\* The live attempts of a pool stay within the largest limit it has had, though a claim
\* counts them as of the time it began at and renewals come in between.  A pool whose rate
\* was set anew is excepted: that moves its time on without a sweep, and a lease that looks
\* overdue then may still be renewed, one too many.
RatedAnew(p) == p \in RatePools /\ configured[p] > 1
LiveIn(p) == {i \in 1..started : attempt[i].pool = p /\ Live(i)}
PoolsKeepTheirLimit ==
  \A p \in Pools :
    ~RatedAnew(p) /\ LiveIn(p) # {} =>
      \E n \in 1..configured[p] : Cardinality(LiveIn(p)) <= env.configs[p][n].limit

\* What a runner reports as recorded is what the store holds, when a lease was lost, a
\* result came late or was offered several times (attemptRun.commit).
RecordedIsHeld ==
  \A r \in Runners :
    At(r, "cleanup") /\ run[r].held # "unrecorded" => attempt[run[r].attempt].exit = run[r].held

\* A completed review is the work of its own attempt's process, though earlier attempts
\* of the job write to the same file.
ReviewIsOwn ==
  \A r \in Runners :
    run[r].pc \in {"commit", "finalizing"} /\ run[r].exit = "completed" =>
      run[r].attempt \in reviewed

\* Attempts are a ledger: one open attempt of a job, one outcome each, for good.
Ledger == INSTANCE EvaluationLedger WITH
  Outcomes <- Exits \cup {"lease_expired"},
  NoJob <- NoAttempt.job, NoRequest <- NoAttempt.request,
  opened <- started,
  job <- [i \in AttemptIds |-> attempt[i].job],
  request <- [i \in AttemptIds |-> attempt[i].request],
  outcome <- [i \in AttemptIds |->
                IF attempt[i].state # "active" THEN attempt[i].exit
                ELSE IF Fenced(i) THEN "lease_expired" ELSE "open"]
KeepsTheLedger == Ledger!LedgerSpec

\* A runner that lives comes to the end of its campaign: waits, retries and refusals are
\* bounded.
CampaignsEnd == \A r \in Runners : <>(run[r].pc \in {"idle", "dead"})
=============================================================================
