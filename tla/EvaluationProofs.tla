-------------------------- MODULE EvaluationProofs --------------------------
(***************************************************************************)
(* What holds of evaluation jobs and their runners for any number of       *)
(* runners, callers, jobs, requests, pools and attempts, and any leases:   *)
(* the store and its ledger, the runners and their results, leases, limits *)
(* of pools, and what the starts of a pool cost.                           *)
(***************************************************************************)
EXTENDS EvaluationRuns, FiniteSetTheorems, TLAPS

-----------------------------------------------------------------------------
(* What one step does to the store *)

\* The attempts a renewal may name: a client's is one that has a row, a lease thread's is
\* the one its runner has in hand.
Renewable(i) == i \in 1..started \/ \E r \in Runners : r \in beating /\ i = run[r].attempt
\* The steps of the store's operations, whoever called them.
Calling ==
  \/ \E c \in Callers, j \in Jobs, q \in Requests, ttl \in LeaseTTLs : ClaimBegin(c, j, q, ttl)
  \/ \E c \in Callers, ttl \in LeaseTTLs : \E i : Renewable(i) /\ RenewBegin(c, i, ttl)
  \/ \E c \in Callers, exit \in Exits : \E i : FinalizeBegin(c, i, exit)
Returning(c) ==
  ClaimAdmitted(c) \/ ClaimRepeated(c) \/ ClaimRefused(c) \/ RenewCommit(c) \/ FinalizeCommit(c)
\* A caller dies, or never hears the answer.
Forsaking ==
  /\ \E C \in SUBSET Callers : call' = [c \in Callers |-> IF c \in C THEN NoCall ELSE call[c]]
  /\ UNCHANGED <<now, attempt, started, current, answers>>
Aside ==
  /\ UNCHANGED <<attempt, started, current, call, answers>>
  /\ now' = now \/ now' = now + 1
StoreStep == Calling \/ (\E c \in Callers : Returning(c)) \/ Forsaking \/ Aside

\* The types of the rows, and of the calls.
Attempts ==
  [job : Jobs \cup {NoAttempt.job}, request : Requests \cup {0}, pool : Pools \cup {None},
   previous : 0..MaxAttempts, state : {"none", "active", "finalized", "expired"},
   expires : Nat, exit : Exits \cup {"lease_expired", "none"}]
CallTypes(c) ==
  /\ call[c].kind = "claim" =>
       call[c].job \in Jobs /\ call[c].request \in Requests /\ call[c].expires \in Nat
  /\ call[c].kind = "renew" => call[c].expires \in Nat
  /\ call[c].kind = "finalize" => call[c].exit \in Exits
RowTypes ==
  /\ now \in Nat
  /\ started \in 0..MaxAttempts
  /\ attempt \in [AttemptIds -> Attempts]
  /\ current \in [Jobs -> 0..MaxAttempts]
  /\ call = [c \in Callers |-> call[c]]
  /\ \A c \in Callers : CallTypes(c)
\* An attempt has a row once it is started, and an outcome once it has ended.
RowsInOrder ==
  \A i \in AttemptIds :
    /\ attempt[i].state = "none" <=> i > started
    /\ attempt[i].state = "none" => attempt[i].exit = "none"
    /\ attempt[i].state # "none" => attempt[i].job \in Jobs
    /\ attempt[i].state = "expired" => attempt[i].exit = "lease_expired"
StoreInv == RowTypes /\ RowsInOrder

\* A request id is answered with attempts it is bound to, and bound to one at most.
RequestsInv ==
  /\ answers \in [Requests -> SUBSET AttemptIds]
  /\ \A q \in Requests : answers[q] \subseteq BoundTo(q)
  /\ \A i, j \in 1..started : attempt[i].request = attempt[j].request => i = j

LEMMA StepsOfTheStore ==
  ASSUME [Next]_vars, call = [c \in Callers |-> call[c]]
  PROVE  StoreStep
<1> USE RunnerConstants
<1>1. CASE UNCHANGED vars
  BY <1>1 DEF vars, jobVars, storeVars, StoreStep, Aside
<1>2. ASSUME NEW r \in Runners, RunStep(r) PROVE StoreStep
  <2>0. Main(r) \in Callers
    BY DEF Main
  <2>1. CASE RunClaim(r)
    BY <2>0, <2>1 DEF RunClaim, ClaimBegin, StoreStep, Calling
  <2>2. CASE RunAdmitted(r)
    BY <2>0, <2>2 DEF RunAdmitted, StoreStep, Returning
  <2>3. CASE RunRefused(r)
    BY <2>0, <2>3 DEF RunRefused, StoreStep, Returning
  <2>4. CASE RunFinalize(r)
    <3>1. FinalizeBegin(Main(r), run[r].attempt, run[r].exit) /\ run[r].exit \in Exits
      BY <2>4 DEF RunFinalize, FinalizeBegin
    <3> QED BY <2>0, <3>1 DEF StoreStep, Calling
  <2>5. CASE RunRecorded(r)
    BY <2>0, <2>5 DEF RunRecorded, StoreStep, Returning
  <2>6. CASE RunCancelled(r) \/ Stage(r) \/ Launch(r) \/ ProcessExits(r) \/ Cleanup(r)
    BY <2>6 DEF RunCancelled, Stage, Launch, ProcessExits, Cleanup, jobVars, storeVars,
                StoreStep, Aside
  <2> QED BY <1>2, <2>1, <2>2, <2>3, <2>4, <2>5, <2>6 DEF RunStep
<1>3. ASSUME NEW r \in Runners, Lease(r) PROVE StoreStep
  <2>0. Beat(r) \in Callers
    BY DEF Beat
  <2>1. CASE RenewTick(r)
    <3>1. Renewable(run[r].attempt) /\ RenewBegin(Beat(r), run[r].attempt, LeaseTTL)
      BY <2>1 DEF RenewTick, Renewable
    <3> QED BY <2>0, <3>1 DEF StoreStep, Calling
  <2>2. CASE RenewDone(r)
    BY <2>0, <2>2 DEF RenewDone, StoreStep, Returning
  <2>3. CASE LeaseLost(r)
    BY <2>3 DEF LeaseLost, jobVars, storeVars, StoreStep, Aside
  <2> QED BY <1>3, <2>1, <2>2, <2>3 DEF Lease
<1>4. ASSUME NEW r \in Runners, FinalizeFails(r) PROVE StoreStep
  <2>0. Main(r) \in Callers
    BY DEF Main
  <2>1. CASE FinalizeCommit(Main(r))
    BY <2>0, <2>1 DEF StoreStep, Returning
  <2>2. CASE Return(Main(r)) /\ UNCHANGED <<env, now, storeVars, answers>>
    <3>1. call' = [c \in Callers |-> IF c \in {Main(r)} THEN NoCall ELSE call[c]]
      BY <2>0, <2>2 DEF Return
    <3> QED BY <2>0, <2>2, <3>1 DEF storeVars, StoreStep, Forsaking
  <2> QED BY <1>4, <2>1, <2>2 DEF FinalizeFails
<1>5. ASSUME NEW r \in Runners, Crash(r) PROVE StoreStep
  <2>0. Main(r) \in Callers /\ Beat(r) \in Callers
    BY DEF Main, Beat
  <2>1. call' = [c \in Callers |-> IF c \in {Main(r), Beat(r)} THEN NoCall ELSE call[c]]
    BY <1>5, <2>0 DEF Crash
  <2>2. {Main(r), Beat(r)} \in SUBSET Callers
    BY <2>0
  <2>3. UNCHANGED <<now, attempt, started, current, answers>>
    BY <1>5 DEF Crash, storeVars
  <2>4. Forsaking
    BY <2>1, <2>2, <2>3 DEF Forsaking
  <2> QED BY <2>4 DEF StoreStep
<1>6. ASSUME NEW c \in ApiCallers, ApiCall(c) \/ ApiReturn(c) PROVE StoreStep
  <2>0. c \in Callers
    BY DEF ApiCallers
  <2>1. CASE \E j \in env.jobs, q \in env.requests : ClaimBegin(c, j, q, LeaseTTL)
    BY <2>0, <2>1 DEF ClaimBegin, StoreStep, Calling
  <2>2. CASE \E i \in 1..started, ttl \in LeaseTTLs : RenewBegin(c, i, ttl)
    BY <2>0, <2>2 DEF StoreStep, Calling, Renewable
  <2>3. CASE \E i \in 1..started : FinalizeBegin(c, i, "completed")
    <3>1. "completed" \in Exits
      BY DEF Exits
    <3> QED BY <2>0, <2>3, <3>1 DEF StoreStep, Calling
  <2>4. CASE ApiReturn(c)
    BY <2>0, <2>4 DEF ApiReturn, StoreStep, Returning
  <2> QED BY <1>6, <2>1, <2>2, <2>3, <2>4 DEF ApiCall
<1>7. CASE Operator
  BY <1>7 DEF Operator, Create, PauseEvaluationCampaign, ConfigureEvaluationPool, StoreStep, Aside
<1>8. CASE \E r \in Runners : CancelRun(r)
  BY <1>8 DEF CancelRun, jobVars, storeVars, StoreStep, Aside
<1>9. CASE \E i \in processes : Review(i)
  BY <1>9 DEF Review, jobVars, storeVars, StoreStep, Aside
<1>10. CASE Tick
  BY <1>10 DEF Tick, storeVars, StoreStep, Aside
<1>11. CASE Api
  BY <1>6, <1>11 DEF Api
<1> QED
  BY <1>1, <1>2, <1>3, <1>4, <1>5, <1>7, <1>8, <1>9, <1>10, <1>11 DEF Next

-----------------------------------------------------------------------------
(* The rows of attempts *)

\* The row of a new attempt is one.
LEMMA NewRow ==
  ASSUME StoreInv, NEW c \in Callers, ClaimAdmitted(c)
  PROVE  /\ call[c].job \in Jobs /\ call[c].request \in Requests
         /\ started + 1 \in AttemptIds /\ started' = started + 1
         /\ [job |-> call[c].job, request |-> call[c].request, pool |-> PoolOf[call[c].job[2]],
             previous |-> current[call[c].job], state |-> "active",
             expires |-> call[c].expires, exit |-> "none"] \in Attempts
<1>1. call[c].job \in Jobs /\ call[c].request \in Requests /\ call[c].expires \in Nat
  BY DEF StoreInv, RowTypes, CallTypes, ClaimAdmitted
<1>2. current[call[c].job] \in 0..MaxAttempts
  BY <1>1 DEF StoreInv, RowTypes
<1>3. PoolOf[call[c].job[2]] \in Pools
  BY <1>1, EvaluationConstants DEF Jobs
<1>4. started + 1 \in AttemptIds /\ started' = started + 1
  BY EvaluationConstants DEF StoreInv, RowTypes, ClaimAdmitted, InsertAttempt, AttemptIds
<1> QED BY <1>1, <1>2, <1>3, <1>4 DEF Attempts

LEMMA ExpiredRow ==
  ASSUME NEW x \in Attempts
  PROVE  /\ Expired(x) \in Attempts
         /\ Expired(x).state = "expired" /\ Expired(x).exit = "lease_expired"
         /\ Expired(x).job = x.job /\ Expired(x).request = x.request
BY DEF Attempts, Expired

LEMMA FinalizedRow ==
  ASSUME NEW x \in Attempts, NEW e \in Exits
  PROVE  LET y == [x EXCEPT !.state = "finalized", !.exit = e]
         IN /\ y \in Attempts
            /\ y.state = "finalized" /\ y.exit = e /\ y.job = x.job /\ y.request = x.request
BY DEF Attempts

\* The rows one step writes: an attempt that is started keeps its job and its request,
\* and one that has ended keeps everything.
RowsKept ==
  /\ started <= started'
  /\ \A i \in AttemptIds : i <= started =>
       /\ attempt'[i].job = attempt[i].job /\ attempt'[i].request = attempt[i].request
       /\ attempt[i].state # "active" => attempt'[i] = attempt[i]

LEMMA StartedRows ==
  ASSUME StoreInv
  PROVE  /\ started \in Nat /\ MaxAttempts \in Nat /\ started <= MaxAttempts
         /\ 1..started \subseteq AttemptIds
         /\ \A i \in AttemptIds : i \in Nat /\ i # 0 /\ (i <= started <=> i \in 1..started)
BY EvaluationConstants DEF StoreInv, RowTypes, AttemptIds

LEMMA InitStore == Init => StoreInv /\ RequestsInv
<1> SUFFICES ASSUME Init PROVE StoreInv /\ RequestsInv
  OBVIOUS
<1> USE EvaluationConstants DEF Init, JobsInit
<1>1. NoAttempt \in Attempts
  BY DEF NoAttempt, Attempts
<1>2. call = [c \in Callers |-> call[c]] /\ \A c \in Callers : CallTypes(c)
  BY DEF NoCall, CallTypes
<1>3. RowTypes
  BY <1>1, <1>2 DEF RowTypes
<1>4. RowsInOrder
  BY DEF RowsInOrder, NoAttempt, AttemptIds
<1>5. RequestsInv
  BY DEF RequestsInv, BoundTo
<1> QED BY <1>3, <1>4, <1>5 DEF StoreInv

LEMMA StoreKept ==
  ASSUME StoreInv, [Next]_vars
  PROVE  StoreInv' /\ RowsKept
<1>0. StoreStep
  BY StepsOfTheStore DEF StoreInv, RowTypes
<1>1. ASSUME NEW c \in Callers, NEW j \in Jobs, NEW q \in Requests, NEW ttl \in LeaseTTLs,
             ClaimBegin(c, j, q, ttl)
      PROVE  StoreInv' /\ RowsKept
  <2>1. \A i \in AttemptIds : attempt'[i] = attempt[i] \/ (Active(i) /\ attempt'[i] = Expired(attempt[i]))
    BY <1>1 DEF ClaimBegin, ExpireEvaluationAttempts
  <2>2. attempt' \in [AttemptIds -> Attempts]
    BY <1>1, ExpiredRow DEF ClaimBegin, ExpireEvaluationAttempts, StoreInv, RowTypes
  <2>3. UNCHANGED <<now, started, current>>
    BY <1>1 DEF ClaimBegin
  <2>4. ttl \in Nat
    BY EvaluationConstants
  <2>5. call' = [d \in Callers |-> call'[d]] /\ \A d \in Callers : CallTypes(d)'
    BY <1>1, <2>4 DEF ClaimBegin, Begin, StoreInv, RowTypes, CallTypes
  <2>6. RowTypes'
    BY <2>2, <2>3, <2>5 DEF StoreInv, RowTypes
  <2>7. RowsInOrder' /\ RowsKept
    BY <2>1, <2>3, ExpiredRow DEF StoreInv, RowTypes, RowsInOrder, RowsKept, Active
  <2> QED BY <2>6, <2>7 DEF StoreInv
<1>2. ASSUME NEW c \in Callers, NEW ttl \in LeaseTTLs, NEW i, RenewBegin(c, i, ttl)
      PROVE  StoreInv' /\ RowsKept
  <2>1. UNCHANGED <<now, attempt, started, current>>
    BY <1>2 DEF RenewBegin, storeVars
  <2>2. ttl \in Nat
    BY EvaluationConstants
  <2>3. call' = [d \in Callers |-> call'[d]] /\ \A d \in Callers : CallTypes(d)'
    BY <1>2, <2>2 DEF RenewBegin, Begin, StoreInv, RowTypes, CallTypes
  <2> QED BY <2>1, <2>3 DEF StoreInv, RowTypes, RowsInOrder, RowsKept
<1>3. ASSUME NEW c \in Callers, NEW exit \in Exits, NEW i, FinalizeBegin(c, i, exit)
      PROVE  StoreInv' /\ RowsKept
  <2>1. UNCHANGED <<now, attempt, started, current>>
    BY <1>3 DEF FinalizeBegin, storeVars
  <2>2. call' = [d \in Callers |-> call'[d]] /\ \A d \in Callers : CallTypes(d)'
    BY <1>3 DEF FinalizeBegin, Begin, StoreInv, RowTypes, CallTypes
  <2> QED BY <2>1, <2>2 DEF StoreInv, RowTypes, RowsInOrder, RowsKept
<1>4. ASSUME NEW c \in Callers, Returning(c) PROVE StoreInv' /\ RowsKept
  <2>1. UNCHANGED now /\ Return(c)
    BY <1>4 DEF Returning, ClaimAdmitted, ClaimRepeated, ClaimRefused, RenewCommit, FinalizeCommit
  <2>2. call' = [d \in Callers |-> call'[d]] /\ \A d \in Callers : CallTypes(d)'
    BY <2>1 DEF Return, NoCall, StoreInv, RowTypes, CallTypes
  <2>3. CASE ClaimAdmitted(c)
    <3> DEFINE row == [job |-> call[c].job, request |-> call[c].request,
                       pool |-> PoolOf[call[c].job[2]], previous |-> current[call[c].job],
                       state |-> "active", expires |-> call[c].expires, exit |-> "none"]
    <3>1. /\ started + 1 \in AttemptIds /\ started' = started + 1
          /\ row \in Attempts /\ call[c].job \in Jobs
      BY <2>3, NewRow
    <3>2. attempt' = [attempt EXCEPT ![started + 1] = row]
      BY <2>3 DEF ClaimAdmitted, InsertAttempt
    <3>3. row.state = "active" /\ row.job = call[c].job
      OBVIOUS
    <3>4. current' = [current EXCEPT ![call[c].job] = started + 1]
      BY <2>3 DEF ClaimAdmitted, InsertAttempt
    <3> HIDE DEF row
    <3>5. RowTypes'
      BY <2>1, <2>2, <3>1, <3>2, <3>4 DEF StoreInv, RowTypes, AttemptIds
    <3>6. RowsInOrder' /\ RowsKept
      BY <3>1, <3>2, <3>3 DEF StoreInv, RowTypes, RowsInOrder, RowsKept, AttemptIds
    <3> QED BY <3>5, <3>6 DEF StoreInv
  <2>4. CASE ClaimRepeated(c) \/ ClaimRefused(c)
    <3>1. UNCHANGED <<attempt, started, current>>
      BY <2>4 DEF ClaimRepeated, ClaimRefused, storeVars
    <3> QED BY <2>1, <2>2, <3>1 DEF StoreInv, RowTypes, RowsInOrder, RowsKept
  <2>5. CASE RenewCommit(c)
    <3>1. UNCHANGED <<started, current>> /\ call[c].expires \in Nat
      BY <2>5 DEF RenewCommit, StoreInv, RowTypes, CallTypes
    <3>2. CASE attempt' = attempt
      BY <2>1, <2>2, <3>1, <3>2 DEF StoreInv, RowTypes, RowsInOrder, RowsKept
    <3>3. CASE attempt' # attempt
      <4> DEFINE i == call[c].attempt
                 row == [attempt[i] EXCEPT !.expires = call[c].expires]
      <4>1. Active(i) /\ attempt' = [attempt EXCEPT ![i] = row]
        BY <2>5, <3>3 DEF RenewCommit
      <4>2. i \in AttemptIds
        BY <3>3, <4>1 DEF StoreInv, RowTypes
      <4>3. row \in Attempts /\ row = [attempt[i] EXCEPT !.expires = row.expires]
        BY <3>1, <4>2 DEF StoreInv, RowTypes, Attempts
      <4>4. /\ row.state = attempt[i].state /\ row.exit = attempt[i].exit
            /\ row.job = attempt[i].job /\ row.request = attempt[i].request
        BY <4>2 DEF StoreInv, RowTypes, Attempts
      <4> HIDE DEF i, row
      <4>5. RowTypes'
        BY <2>1, <2>2, <3>1, <4>1, <4>2, <4>3 DEF StoreInv, RowTypes
      <4>6. RowsInOrder' /\ RowsKept
        BY <3>1, <4>1, <4>2, <4>4 DEF StoreInv, RowTypes, RowsInOrder, RowsKept, Active, AttemptIds
      <4> QED BY <4>5, <4>6 DEF StoreInv
    <3> QED BY <3>2, <3>3
  <2>6. CASE FinalizeCommit(c)
    <3>1. UNCHANGED <<started, current>> /\ call[c].exit \in Exits
      BY <2>6 DEF FinalizeCommit, StoreInv, RowTypes, CallTypes
    <3>2. CASE attempt' = attempt
      BY <2>1, <2>2, <3>1, <3>2 DEF StoreInv, RowTypes, RowsInOrder, RowsKept
    <3>3. CASE attempt' # attempt
      <4> DEFINE i == call[c].attempt
                 row == Ended(i, call[c].exit, call[c].at)
      <4>1. Active(i) /\ attempt' = [attempt EXCEPT ![i] = row]
        BY <2>6, <3>3 DEF FinalizeCommit
      <4>2. i \in AttemptIds
        BY <3>3, <4>1 DEF StoreInv, RowTypes
      <4>3. attempt[i] \in Attempts
        BY <4>2 DEF StoreInv, RowTypes
      <4>4. /\ row \in Attempts
            /\ row.state \in {"expired", "finalized"}
            /\ row.state = "expired" => row.exit = "lease_expired"
            /\ row.job = attempt[i].job /\ row.request = attempt[i].request
        BY <3>1, <4>3, ExpiredRow, FinalizedRow DEF Ended
      <4> HIDE DEF i, row
      <4>5. RowTypes'
        BY <2>1, <2>2, <3>1, <4>1, <4>2, <4>4 DEF StoreInv, RowTypes
      <4>6. RowsInOrder' /\ RowsKept
        BY <3>1, <4>1, <4>2, <4>4 DEF StoreInv, RowTypes, RowsInOrder, RowsKept, Active, AttemptIds
      <4> QED BY <4>5, <4>6 DEF StoreInv
    <3> QED BY <3>2, <3>3
  <2> QED BY <1>4, <2>3, <2>4, <2>5, <2>6 DEF Returning
<1>5. ASSUME Forsaking PROVE StoreInv' /\ RowsKept
  <2>1. call' = [d \in Callers |-> call'[d]] /\ \A d \in Callers : CallTypes(d)'
    BY <1>5 DEF Forsaking, NoCall, StoreInv, RowTypes, CallTypes
  <2> QED BY <1>5, <2>1 DEF Forsaking, StoreInv, RowTypes, RowsInOrder, RowsKept
<1>6. ASSUME Aside PROVE StoreInv' /\ RowsKept
  BY <1>6 DEF Aside, StoreInv, RowTypes, CallTypes, RowsInOrder, RowsKept
<1> QED BY <1>0, <1>1, <1>2, <1>3, <1>4, <1>5, <1>6 DEF StoreStep, Calling

-----------------------------------------------------------------------------
(* Requests *)

LEMMA RequestsKept ==
  ASSUME StoreInv, RequestsInv, [Next]_vars
  PROVE  RequestsInv'
<1>0. StoreStep /\ RowsKept /\ StoreInv'
  BY StepsOfTheStore, StoreKept DEF StoreInv, RowTypes
<1>1. \A q \in Requests : BoundTo(q) \subseteq BoundTo(q)'
  <2>1. started \in Nat /\ started' \in Nat /\ 1..started \subseteq AttemptIds
    BY <1>0, StartedRows DEF StoreInv, RowTypes
  <2>2. 1..started \subseteq 1..started'
    BY <1>0, <2>1 DEF RowsKept
  <2>3. \A i \in 1..started : attempt'[i].request = attempt[i].request
    BY <1>0, <2>1 DEF RowsKept
  <2> QED BY <2>2, <2>3 DEF BoundTo
<1>2. ASSUME UNCHANGED <<answers, started>> PROVE RequestsInv'
  <2>1. \A i \in 1..started : attempt'[i].request = attempt[i].request
    BY <1>0, StartedRows DEF RowsKept
  <2> QED BY <1>1, <1>2, <2>1 DEF RequestsInv
<1>3. ASSUME NEW c \in Callers, ClaimAdmitted(c) PROVE RequestsInv'
  <2>0. PICK q \in Requests : q = call[c].request
    BY <1>3, NewRow
  <2>1. started + 1 \in AttemptIds /\ started' = started + 1
    BY <1>3, NewRow
  <2>2. attempt'[started + 1].request = q
    BY <1>3, <2>0, <2>1 DEF ClaimAdmitted, InsertAttempt, StoreInv, RowTypes
  <2>3. BoundTo(q) = {} /\ answers[q] = {}
    BY <1>3, <2>0 DEF ClaimAdmitted, RequestsInv
  <2>4. answers' = [answers EXCEPT ![q] = {started + 1}]
    BY <1>3, <2>0, <2>3 DEF ClaimAdmitted, Answer, RequestsInv
  <2>5. started \in Nat
    BY DEF StoreInv, RowTypes
  <2>6. started + 1 \in BoundTo(q)'
    <3>1. started + 1 \in 1..started'
      BY <2>1, <2>5
    <3> QED BY <2>2, <3>1 DEF BoundTo
  <2>7. answers' \in [Requests -> SUBSET AttemptIds]
    BY <2>1, <2>4 DEF RequestsInv
  <2>8. \A p \in Requests : answers'[p] \subseteq BoundTo(p)'
    BY <1>1, <2>1, <2>4, <2>6 DEF RequestsInv
  <2>9. ASSUME NEW i \in 1..started', NEW j \in 1..started',
               attempt'[i].request = attempt'[j].request
        PROVE  i = j
    <3>1. \A k \in 1..started : attempt'[k].request = attempt[k].request /\ attempt[k].request # q
      BY <1>0, <2>3, StartedRows DEF RowsKept, BoundTo
    <3>2. \A k \in 1..started' : k = started + 1 \/ k \in 1..started
      BY <2>1, <2>5
    <3> QED BY <2>2, <2>9, <3>1, <3>2 DEF RequestsInv
  <2> QED BY <2>7, <2>8, <2>9 DEF RequestsInv
<1>4. ASSUME NEW c \in Callers, ClaimRepeated(c) PROVE RequestsInv'
  <2>1. PICK q \in Requests : q = call[c].request
    BY <1>4 DEF ClaimRepeated, StoreInv, RowTypes, CallTypes
  <2>2. UNCHANGED <<attempt, started>>
    BY <1>4 DEF ClaimRepeated, storeVars
  <2>3. PICK i \in BoundTo(q) : answers' = [answers EXCEPT ![q] = @ \cup {i}] \/ answers' = answers
    BY <1>4, <2>1 DEF ClaimRepeated, Answer
  <2>4. i \in AttemptIds /\ i \in BoundTo(q)'
    BY <2>2, <2>3, StartedRows DEF BoundTo
  <2>5. \A p \in Requests : answers'[p] \subseteq BoundTo(p)'
    BY <1>1, <2>1, <2>3, <2>4 DEF RequestsInv
  <2>6. answers' \in [Requests -> SUBSET AttemptIds]
    BY <2>1, <2>3, <2>4 DEF RequestsInv
  <2> QED BY <2>2, <2>5, <2>6 DEF RequestsInv
<1>5. ASSUME NEW c \in Callers, Returning(c), ~ClaimAdmitted(c), ~ClaimRepeated(c)
      PROVE  RequestsInv'
  BY <1>2, <1>5 DEF Returning, ClaimRefused, RenewCommit, FinalizeCommit, storeVars
<1>6. ASSUME Calling PROVE RequestsInv'
  BY <1>2, <1>6 DEF Calling, ClaimBegin, RenewBegin, FinalizeBegin, storeVars
<1>7. ASSUME Forsaking \/ Aside PROVE RequestsInv'
  BY <1>2, <1>7 DEF Forsaking, Aside
<1> QED BY <1>0, <1>3, <1>4, <1>5, <1>6, <1>7 DEF StoreStep

\* A request id, sent again by whoever, at any time, is answered with one attempt, and an
\* attempt answers one request (ClaimEvaluationJob).
THEOREM RequestsGetOneAttemptAlways == Spec => []RequestsGetOneAttempt
<1>1. Init => StoreInv /\ RequestsInv
  BY InitStore
<1>2. StoreInv /\ RequestsInv /\ [Next]_vars => (StoreInv /\ RequestsInv)'
  BY StoreKept, RequestsKept
<1>3. RequestsInv => RequestsGetOneAttempt
  BY DEF RequestsInv, RequestsGetOneAttempt, BoundTo
<1> QED BY <1>1, <1>2, <1>3, PTL DEF Spec

-----------------------------------------------------------------------------
(* The ledger *)

LEMMA InitLedger == Init => Ledger!LedgerInit
BY EvaluationConstants DEF Init, JobsInit, Ledger!LedgerInit, NoAttempt, AttemptIds

\* Rows that keep their job, request and outcome leave the ledger as it is.
LEMMA LedgerStutters ==
  ASSUME StoreInv, UNCHANGED <<started, current>>,
         attempt' \in [AttemptIds -> Attempts],
         \A i \in AttemptIds :
           /\ attempt'[i].job = attempt[i].job /\ attempt'[i].request = attempt[i].request
           /\ attempt'[i].state = attempt[i].state /\ attempt'[i].exit = attempt[i].exit
  PROVE  UNCHANGED Ledger!ledgerVars
<1>1. \A i \in AttemptIds : Fenced(i)' = Fenced(i)
  BY DEF Fenced
<1> QED BY <1>1 DEF Ledger!ledgerVars

LEMMA LedgerStep ==
  ASSUME StoreInv, [Next]_vars
  PROVE  [Ledger!LedgerNext]_(Ledger!ledgerVars)
<1>0. StoreStep /\ RowsKept /\ StoreInv'
  BY StepsOfTheStore, StoreKept DEF StoreInv, RowTypes
<1> DEFINE out == [i \in AttemptIds |->
                     IF attempt[i].state # "active" THEN attempt[i].exit
                     ELSE IF Fenced(i) THEN "lease_expired" ELSE "open"]
<1>a. \A i \in AttemptIds : attempt[i].state # "none" => i \in 1..started
  BY DEF StoreInv, RowTypes, RowsInOrder, AttemptIds
<1>1. ASSUME UNCHANGED <<attempt, started, current>> PROVE UNCHANGED Ledger!ledgerVars
  BY <1>1, LedgerStutters DEF StoreInv, RowTypes
<1>2. ASSUME NEW c \in Callers, NEW j \in Jobs, NEW q \in Requests, NEW ttl \in LeaseTTLs,
             ClaimBegin(c, j, q, ttl)
      PROVE  [Ledger!LedgerNext]_(Ledger!ledgerVars)
  <2> DEFINE swept == {i \in AttemptIds : Active(i) /\ LeaseExpired(i, now)}
             ending == {i \in swept : ~Fenced(i)}
  <2>1. UNCHANGED <<started, current>>
    BY <1>2 DEF ClaimBegin
  <2>2. \A i \in AttemptIds :
          /\ i \in swept => attempt'[i].state = "expired" /\ attempt'[i].exit = "lease_expired"
          /\ i \notin swept => attempt'[i] = attempt[i]
    BY <1>2, ExpiredRow DEF ClaimBegin, ExpireEvaluationAttempts, StoreInv, RowTypes
  <2>3. \A i \in AttemptIds :
          attempt'[i].job = attempt[i].job /\ attempt'[i].request = attempt[i].request
    BY <1>2, ExpiredRow DEF ClaimBegin, ExpireEvaluationAttempts, StoreInv, RowTypes
  <2>4. \A i \in AttemptIds : Fenced(i)' = Fenced(i)
    BY <2>1, <2>3 DEF Fenced
  <2>5. out' = [i \in AttemptIds |-> IF i \in ending THEN "lease_expired" ELSE out[i]]
    BY <2>2, <2>4 DEF Active
  <2>6. [i \in AttemptIds |-> attempt'[i].job] = [i \in AttemptIds |-> attempt[i].job]
        /\ [i \in AttemptIds |-> attempt'[i].request] = [i \in AttemptIds |-> attempt[i].request]
    BY <2>3
  <2>7. \A i \in ending : out[i] = "open"
    BY DEF Active
  <2>8. ending \in SUBSET (1..started)
    BY <1>a DEF Active
  <2> HIDE DEF ending
  <2>9. CASE ending = {}
    BY <2>1, <2>5, <2>6, <2>9 DEF Ledger!ledgerVars
  <2>10. CASE ending # {}
    <3>1. Ledger!End(ending, "lease_expired")
      BY <2>1, <2>5, <2>6, <2>7, <2>10 DEF Ledger!End, Ledger!Open, AttemptIds
    <3> QED BY <2>8, <3>1 DEF Ledger!LedgerNext, Ledger!Entries
  <2> QED BY <2>9, <2>10
<1>3. ASSUME NEW c \in Callers, ClaimAdmitted(c)
      PROVE  Ledger!LedgerNext
  <2>0. PICK j \in Jobs, q \in Requests, new \in AttemptIds :
          j = call[c].job /\ q = call[c].request /\ new = started + 1
    BY <1>3, NewRow
  <2>1. started' = new
    BY <1>3, <2>0, NewRow
  <2>2. /\ attempt' = [attempt EXCEPT ![new] = attempt'[new]]
        /\ attempt'[new].job = j /\ attempt'[new].request = q /\ attempt'[new].state = "active"
        /\ current' = [current EXCEPT ![j] = new]
    BY <1>3, <2>0 DEF ClaimAdmitted, InsertAttempt, StoreInv, RowTypes
  <2>3. \A i \in 1..started : attempt[i].request # q
    BY <1>3, <2>0 DEF ClaimAdmitted, BoundTo
  <2>4. started \in Nat /\ MaxAttempts \in Nat /\ new # 0 /\ new \notin 1..started /\ new <= MaxAttempts
    BY <2>0, StartedRows DEF AttemptIds
  <2>5. \A i \in AttemptIds \ {new} : attempt'[i] = attempt[i]
    BY <2>2 DEF StoreInv, RowTypes
  <2>6. ~Fenced(new)'
    BY <2>1, <2>2 DEF Fenced, StoreInv, RowTypes
  <2>7. \A i \in AttemptIds \ {new} : Active(i) => i \in 1..started /\ attempt[i].job \in Jobs
    BY <1>a DEF StoreInv, RowsInOrder, Active
  <2>8. \A i \in AttemptIds \ {new} : Active(i) =>
          (Fenced(i)' <=> Fenced(i) \/ attempt[i].job = j)
    BY <2>1, <2>2, <2>5, <2>7 DEF Fenced, StoreInv, RowTypes
  <2>9. out' = [i \in AttemptIds |->
                  IF i = new THEN "open"
                  ELSE IF i \in 1..started /\ attempt[i].job = j /\ out[i] = "open" THEN "lease_expired"
                  ELSE out[i]]
    <3>1. out'[new] = "open"
      BY <2>1, <2>2, <2>6
    <3>2. ASSUME NEW i \in AttemptIds \ {new}
          PROVE  out'[i] = IF i \in 1..started /\ attempt[i].job = j /\ out[i] = "open"
                           THEN "lease_expired" ELSE out[i]
      <4>1. CASE Active(i)
        BY <2>5, <2>7, <2>8, <4>1 DEF Active
      <4>2. CASE ~Active(i)
        <5>1. out[i] = attempt[i].exit /\ out'[i] = out[i]
          BY <2>5, <4>2 DEF Active
        <5>2. attempt[i].exit # "open"
          BY DEF StoreInv, RowTypes, Attempts, Exits
        <5> QED BY <5>1, <5>2
      <4> QED BY <4>1, <4>2
    <3> QED BY <3>1, <3>2
  <2>10. [i \in AttemptIds |-> attempt'[i].job] = [[i \in AttemptIds |-> attempt[i].job] EXCEPT ![new] = j]
         /\ [i \in AttemptIds |-> attempt'[i].request] = [[i \in AttemptIds |-> attempt[i].request] EXCEPT ![new] = q]
    BY <2>1, <2>2, <2>5
  <2>11. \A i \in 1..started : i \in AttemptIds
    BY StartedRows
  <2> HIDE DEF out
  <2>12. Ledger!Start(j, q)
    <3>1. started < MaxAttempts /\ started' = started + 1
      BY <2>0, <2>1, <2>4
    <3> QED
      BY <2>0, <2>3, <2>9, <2>10, <2>11, <3>1
      DEF Ledger!Start, Ledger!Entries, Ledger!Open, AttemptIds, out
  <2> QED BY <2>12 DEF Ledger!LedgerNext
<1>4. ASSUME NEW c \in Callers, RenewCommit(c)
      PROVE  UNCHANGED Ledger!ledgerVars
  <2>1. UNCHANGED <<started, current>> /\ attempt' \in [AttemptIds -> Attempts]
    BY <1>0, <1>4 DEF RenewCommit, StoreInv, RowTypes
  <2>2. \A i \in AttemptIds :
          /\ attempt'[i].job = attempt[i].job /\ attempt'[i].request = attempt[i].request
          /\ attempt'[i].state = attempt[i].state /\ attempt'[i].exit = attempt[i].exit
    BY <1>4 DEF RenewCommit, StoreInv, RowTypes, Attempts
  <2> QED BY <2>1, <2>2, LedgerStutters
<1>5. ASSUME NEW c \in Callers, FinalizeCommit(c)
      PROVE  [Ledger!LedgerNext]_(Ledger!ledgerVars)
  <2>1. UNCHANGED <<started, current>> /\ call[c].exit \in Exits
    BY <1>5 DEF FinalizeCommit, StoreInv, RowTypes, CallTypes
  <2>2. CASE attempt' = attempt
    BY <1>1, <2>1, <2>2
  <2>3. CASE attempt' # attempt
    <3>1. PICK i \in AttemptIds : i = call[c].attempt
      BY <1>5, <2>3 DEF FinalizeCommit, StoreInv, RowTypes
    <3> DEFINE row == Ended(i, call[c].exit, call[c].at)
    <3>2. Active(i) /\ ~Fenced(i) /\ attempt' = [attempt EXCEPT ![i] = row]
      BY <1>5, <2>3, <3>1 DEF FinalizeCommit
    <3>3. attempt[i] \in Attempts
      BY DEF StoreInv, RowTypes
    <3>4. /\ row.state # "active" /\ row.exit \in Exits \cup {"lease_expired"}
          /\ row.job = attempt[i].job /\ row.request = attempt[i].request
      BY <2>1, <3>3, ExpiredRow, FinalizedRow DEF Ended
    <3>5. PICK o \in Exits \cup {"lease_expired"} : o = row.exit
      BY <3>4
    <3> HIDE DEF row
    <3>6. /\ [k \in AttemptIds |-> attempt'[k].job] = [k \in AttemptIds |-> attempt[k].job]
          /\ [k \in AttemptIds |-> attempt'[k].request] = [k \in AttemptIds |-> attempt[k].request]
      BY <3>2, <3>4 DEF StoreInv, RowTypes
    <3>7. \A k \in AttemptIds : Fenced(k)' = Fenced(k)
      BY <2>1, <3>2, <3>4 DEF Fenced, StoreInv, RowTypes
    <3>8. out' = [k \in AttemptIds |-> IF k \in {i} THEN o ELSE out[k]]
      BY <3>2, <3>4, <3>5, <3>7 DEF StoreInv, RowTypes
    <3>9. out[i] = "open" /\ i \in 1..started
      BY <1>a, <3>2 DEF Active
    <3>10. Ledger!End({i}, o)
      BY <2>1, <3>6, <3>8, <3>9 DEF Ledger!End, Ledger!Open, AttemptIds
    <3> QED BY <3>9, <3>10 DEF Ledger!LedgerNext, Ledger!Entries
  <2> QED BY <2>2, <2>3
<1>6. ASSUME NEW c \in Callers, Returning(c)
      PROVE  [Ledger!LedgerNext]_(Ledger!ledgerVars)
  <2>1. CASE ClaimRepeated(c) \/ ClaimRefused(c)
    BY <1>1, <2>1 DEF ClaimRepeated, ClaimRefused, storeVars
  <2> QED BY <1>3, <1>4, <1>5, <1>6, <2>1 DEF Returning
<1>7. CASE Calling
  BY <1>1, <1>2, <1>7 DEF Calling, RenewBegin, FinalizeBegin, storeVars
<1>8. CASE Forsaking \/ Aside
  BY <1>1, <1>8 DEF Forsaking, Aside
<1> HIDE DEF out
<1> QED BY <1>0, <1>6, <1>7, <1>8 DEF StoreStep

\* Attempts are a ledger, whatever runners, callers and the clock do: a job has one open
\* attempt at most, an attempt ends once, with one outcome, and a late result, renewal or
\* sweep changes nothing about it (ClaimEvaluationJob, ExpireEvaluationAttempts,
\* RenewEvaluationAttempt, FinalizeEvaluationAttempt).
THEOREM AttemptsAreALedger == Spec => KeepsTheLedger
<1>1. Init => Ledger!LedgerInit /\ StoreInv
  BY InitLedger, InitStore
<1>2. StoreInv /\ [Next]_vars => StoreInv' /\ [Ledger!LedgerNext]_(Ledger!ledgerVars)
  BY StoreKept, LedgerStep
<1> QED BY <1>1, <1>2, PTL DEF Spec, KeepsTheLedger, Ledger!LedgerSpec

-----------------------------------------------------------------------------
(* Runners *)

\* Where a runner has a job in hand, and where it has an attempt at it.
WithJob == {"claiming", "stage", "validate", "running", "commit", "finalizing", "cleanup"}
WithAttempt == WithJob \ {"claiming"}

RunFields(r) ==
  run[r] = [pc |-> run[r].pc, todo |-> run[r].todo, attempt |-> run[r].attempt,
            tries |-> run[r].tries, deferrals |-> run[r].deferrals, exit |-> run[r].exit,
            finals |-> run[r].finals, held |-> run[r].held, lost |-> run[r].lost,
            cancelled |-> run[r].cancelled]
\* What a runner has in hand is a job and an attempt of it that has a row; the call that
\* records a result is its own; the review it is about to record was written by its own
\* process; and the store holds what it was told.
RunnerInv(r) ==
  /\ RunFields(r)
  /\ run[r].pc \in WithJob => JobOf(r) \in Jobs
  /\ run[r].pc \in WithAttempt => run[r].attempt \in 1..started
  /\ run[r].pc = "finalizing" =>
       /\ call[Main(r)].kind = "finalize"
       /\ call[Main(r)].attempt = run[r].attempt /\ call[Main(r)].exit = run[r].exit
  /\ run[r].pc \in {"commit", "finalizing"} /\ run[r].exit = "completed" =>
       run[r].attempt \in reviewed
  /\ run[r].pc = "cleanup" /\ run[r].held # "unrecorded" =>
       /\ attempt[run[r].attempt].state \in {"finalized", "expired"}
       /\ attempt[run[r].attempt].exit = run[r].held
ResultsInv ==
  /\ result = [j \in Jobs |-> result[j]]
  /\ \A j \in Jobs : result[j] # 0 => result[j] \in reviewed
RunsInv ==
  /\ run = [r \in Runners |-> run[r]]
  /\ \A r \in Runners : RunnerInv(r)
  /\ ResultsInv

LEMMA InitRuns == Init => RunsInv
<1> SUFFICES ASSUME Init PROVE RunsInv
  OBVIOUS
<1>1. run = [r \in Runners |-> run[r]] /\ ResultsInv
  BY DEF Init, ResultsInv
<1>2. ASSUME NEW r \in Runners PROVE RunnerInv(r)
  <2>1. run[r] = FreshRun(env.campaign[r])
    BY DEF Init
  <2>2. RunFields(r) /\ run[r].pc \in {"idle", "claim"}
    BY <2>1 DEF FreshRun, RunFields
  <2> QED BY <2>2 DEF RunnerInv, WithJob, WithAttempt
<1> QED BY <1>1, <1>2 DEF RunsInv

\* The calls of a runner's threads are its own.
LEMMA CallsApart ==
  ASSUME NEW r \in Runners
  PROVE  /\ Main(r) \in Callers /\ Beat(r) \in Callers /\ Main(r) # Beat(r)
         /\ Main(r) \notin ApiCallers
         /\ \A s \in Runners : s # r => Main(s) # Main(r)
         /\ \A s \in Runners : Main(s) # Beat(r)
BY RunnerConstants DEF Main, Beat, ApiCallers

\* A runner is as it was when its place, job, attempt and result are, and its call is:
\* what other runners, callers and the clock do to its attempt does not matter.
LEMMA RunnerUndisturbed ==
  ASSUME StoreInv, StoreInv', RowsKept, NEW r \in Runners, RunnerInv(r),
         reviewed \subseteq reviewed',
         RunFields(r)',
         run'[r].pc = run[r].pc, run'[r].todo = run[r].todo, run'[r].attempt = run[r].attempt,
         run'[r].exit = run[r].exit, run'[r].held = run[r].held,
         call'[Main(r)] = call[Main(r)]
  PROVE  RunnerInv(r)'
<1>1. started \in Nat /\ started' \in Nat /\ 1..started \subseteq AttemptIds
  BY StartedRows DEF StoreInv, RowTypes
<1>2. 1..started \subseteq 1..started'
  BY <1>1 DEF RowsKept
<1>3. \A i \in 1..started : attempt[i].state # "active" => attempt'[i] = attempt[i]
  BY <1>1 DEF RowsKept
<1>4. run[r].pc = "cleanup" => run[r].attempt \in 1..started
  BY DEF RunnerInv, WithAttempt, WithJob
<1> QED BY <1>2, <1>3, <1>4 DEF RunnerInv, JobOf

\* Where the steps of a runner's own threads leave it.
LEMMA RunnerSteps ==
  ASSUME StoreInv, StoreInv', RowsKept, RunsInv, NEW r \in Runners, RunStep(r) \/ FinalizeFails(r)
  PROVE  RunnerInv(r)'
<1> USE DEF Step, At
<1>0. /\ run = [s \in Runners |-> run[s]] /\ RunnerInv(r) /\ RunFields(r)
      /\ Main(r) \in Callers /\ Beat(r) \in Callers
      /\ call = [c \in Callers |-> call[c]]
  BY CallsApart DEF RunsInv, RunnerInv, StoreInv, RowTypes
<1>1. started \in Nat /\ started' \in Nat /\ 1..started \subseteq AttemptIds
  BY StartedRows DEF StoreInv, RowTypes
<1>2. 1..started \subseteq 1..started'
  BY <1>1 DEF RowsKept
<1>3. CASE RunClaim(r)
  <2>1. JobOf(r) \in Jobs /\ run' = [run EXCEPT ![r] = [run[r] EXCEPT !.pc = "claiming"]]
    BY <1>3 DEF RunClaim, ClaimBegin
  <2> QED BY <1>0, <2>1 DEF RunnerInv, RunFields, JobOf, WithJob, WithAttempt
<1>4. CASE RunAdmitted(r)
  <2>1. started' \in 1..started'
    <3>1. started' = started + 1
      BY <1>4 DEF RunAdmitted, ClaimAdmitted, InsertAttempt
    <3> QED BY <1>1, <3>1
  <2>2. run[r].pc = "claiming"
    BY <1>4 DEF RunAdmitted
  <2> QED BY <1>0, <1>4, <2>1, <2>2 DEF RunAdmitted, RunnerInv, RunFields, JobOf, WithJob, WithAttempt
<1>5. ASSUME NEW kind, EndRun(r, kind) PROVE RunnerInv(r)'
  <2>1. PICK todo : run' = [run EXCEPT ![r] = [FreshRun(todo) EXCEPT !.cancelled = run[r].cancelled]]
    BY <1>5 DEF EndRun
  <2>2. run'[r] = [FreshRun(todo) EXCEPT !.cancelled = run[r].cancelled]
    BY <1>0, <2>1
  <2> QED BY <2>2 DEF FreshRun, RunnerInv, RunFields, WithJob, WithAttempt
<1>6. CASE run' = [run EXCEPT ![r] = [run[r] EXCEPT !.pc = "claim"]]
  BY <1>0, <1>6 DEF RunnerInv, RunFields, WithJob, WithAttempt
<1>7. CASE RunRefused(r)
  <2>1. CASE \E kind : EndRun(r, kind)
    BY <1>5, <2>1
  <2>2. CASE run' = [run EXCEPT ![r] = [run[r] EXCEPT !.pc = "claim", !.deferrals = @ + 1]]
    BY <1>0, <2>2 DEF RunnerInv, RunFields, WithJob, WithAttempt
  <2> QED BY <1>7, <2>1, <2>2 DEF RunRefused
<1>8. CASE RunCancelled(r)
  BY <1>5, <1>8 DEF RunCancelled
<1>9. CASE Cleanup(r)
  BY <1>5, <1>6, <1>9 DEF Cleanup
<1>10. ASSUME NEW exit, Abort(r, exit), run[r].pc \in {"stage", "validate", "running"},
              exit = "completed" => run[r].attempt \in reviewed'
       PROVE  RunnerInv(r)'
  <2>1. run'[r] = [run[r] EXCEPT !.pc = "commit", !.exit = exit]
    BY <1>0, <1>10 DEF Abort
  <2> QED BY <1>0, <1>2, <1>10, <2>1 DEF RunnerInv, RunFields, JobOf, WithJob, WithAttempt
<1>11. CASE Stage(r)
  <2>1. CASE Abort(r, "unavailable_snapshot") \/ Abort(r, "cancelled")
    <3>1. run[r].pc = "stage"
      BY <1>11 DEF Stage
    <3> QED BY <1>10, <2>1, <3>1
  <2>2. CASE run' = [run EXCEPT ![r] = [run[r] EXCEPT !.pc = "validate"]]
    <3>1. run[r].pc = "stage"
      BY <1>11 DEF Stage
    <3> QED BY <1>0, <1>2, <2>2, <3>1 DEF RunnerInv, RunFields, JobOf, WithJob, WithAttempt
  <2> QED BY <1>11, <2>1, <2>2 DEF Stage
<1>12. CASE Launch(r)
  <2>1. run[r].pc = "validate"
    BY <1>12 DEF Launch
  <2>2. CASE Abort(r, "unavailable_snapshot")
    BY <1>10, <2>1, <2>2
  <2>3. CASE run' = [run EXCEPT ![r] = [run[r] EXCEPT !.pc = "running"]]
    BY <1>0, <1>2, <2>1, <2>3 DEF RunnerInv, RunFields, JobOf, WithJob, WithAttempt
  <2> QED BY <1>12, <2>2, <2>3 DEF Launch
<1>13. CASE ProcessExits(r)
  <2>1. run[r].pc = "running" /\ reviewed' = reviewed
    BY <1>13 DEF ProcessExits
  <2>2. run[r].attempt # 0 /\ JobOf(r) \in Jobs
    BY <1>0, <1>1, <2>1 DEF RunnerInv, WithJob, WithAttempt
  <2>3. OwnResult(r) => run[r].attempt \in reviewed'
    BY <2>1, <2>2 DEF OwnResult, RunsInv, ResultsInv
  <2>4. \E exit : Abort(r, exit) /\ (exit = "completed" => OwnResult(r))
    BY <1>13 DEF ProcessExits
  <2> QED BY <1>10, <2>1, <2>3, <2>4
<1>14. CASE RunFinalize(r)
  <2>1. /\ run[r].pc = "commit" /\ reviewed' = reviewed
        /\ run'[r] = [run[r] EXCEPT !.pc = "finalizing"]
        /\ call'[Main(r)] = [kind |-> "finalize", attempt |-> run[r].attempt,
                             exit |-> run[r].exit, at |-> now]
    BY <1>0, <1>14 DEF RunFinalize, FinalizeBegin, Begin
  <2> QED BY <1>0, <1>2, <2>1 DEF RunnerInv, RunFields, JobOf, WithJob, WithAttempt
<1>15. CASE RunRecorded(r)
  <2> DEFINE i == run[r].attempt
             x == call[Main(r)]
  <2>1. /\ run[r].pc = "finalizing" /\ FinalizeCommit(Main(r))
        /\ run'[r] = [run[r] EXCEPT !.pc = "cleanup", !.held = Verdict(r)]
    BY <1>0, <1>15 DEF RunRecorded
  <2>2. i \in 1..started /\ i \in AttemptIds /\ JobOf(r) \in Jobs /\ x.attempt = i /\ x.exit = run[r].exit
    BY <1>0, <1>1, <2>1 DEF RunnerInv, WithJob, WithAttempt
  <2>3. attempt[i] \in Attempts /\ attempt[i].state # "none"
        /\ (attempt[i].state = "expired" => attempt[i].exit = "lease_expired")
    BY <1>1, <2>2 DEF StoreInv, RowTypes, RowsInOrder
  <2>4. attempt'[i] = IF Active(i) /\ ~Fenced(i) THEN Ended(i, x.exit, x.at) ELSE attempt[i]
    BY <2>1, <2>2 DEF FinalizeCommit, StoreInv, RowTypes
  <2>5. Verdict(r) # "unrecorded" =>
          attempt'[i].state \in {"finalized", "expired"} /\ attempt'[i].exit = Verdict(r)
    <3>1. CASE attempt[i].state = "finalized"
      BY <3>1 DEF Verdict, Active
    <3>2. CASE attempt[i].state = "expired"
      BY <2>3, <2>4, <3>2 DEF Verdict, Active
    <3>3. CASE Active(i) /\ Fenced(i)
      BY <3>3 DEF Verdict, Active
    <3>4. CASE Active(i) /\ ~Fenced(i)
      <4>1. Verdict(r) = IF LeaseExpired(i, x.at) THEN "lease_expired" ELSE run[r].exit
        BY <3>4 DEF Verdict, Active
      <4>2. x.exit \in Exits
        BY <1>0, <2>1 DEF FinalizeCommit, StoreInv, RowTypes, CallTypes
      <4>3. attempt'[i] = Ended(i, x.exit, x.at)
        BY <2>4, <3>4
      <4>4. CASE LeaseExpired(i, x.at)
        BY <2>3, <4>1, <4>3, <4>4, ExpiredRow DEF Ended
      <4>5. CASE ~LeaseExpired(i, x.at)
        <5>1. attempt'[i] = [attempt[i] EXCEPT !.state = "finalized", !.exit = x.exit]
          BY <4>3, <4>5 DEF Ended
        <5>2. attempt'[i].state = "finalized" /\ attempt'[i].exit = x.exit
          BY <2>3, <5>1 DEF Attempts
        <5> QED BY <2>2, <4>1, <4>5, <5>2
      <4> QED BY <4>4, <4>5
    <3> QED BY <2>3, <3>1, <3>2, <3>3, <3>4 DEF Attempts, Active
  <2> HIDE DEF i, x
  <2>6. run'[r].attempt = run[r].attempt /\ run'[r].held = Verdict(r) /\ run'[r].pc = "cleanup"
        /\ run'[r].todo = run[r].todo /\ RunFields(r)'
    BY <1>0, <2>1 DEF RunFields
  <2> QED BY <1>2, <2>2, <2>5, <2>6 DEF RunnerInv, JobOf, WithJob, WithAttempt, i
<1>16. CASE FinalizeFails(r)
  <2>1. run[r].pc = "finalizing" /\ reviewed' = reviewed
    BY <1>16 DEF FinalizeFails
  <2>2. CASE run' = [run EXCEPT ![r] = [run[r] EXCEPT !.pc = "cleanup", !.held = "unrecorded"]]
    BY <1>0, <1>2, <2>1, <2>2 DEF RunnerInv, RunFields, JobOf, WithJob, WithAttempt
  <2>3. ASSUME NEW exit \in {run[r].exit, "unknown"},
               run' = [run EXCEPT ![r] = [run[r] EXCEPT !.pc = "commit", !.finals = @ + 1, !.exit = exit]]
        PROVE  RunnerInv(r)'
    BY <1>0, <1>2, <2>1, <2>3 DEF RunnerInv, RunFields, JobOf, WithJob, WithAttempt
  <2> QED BY <1>16, <2>2, <2>3 DEF FinalizeFails
<1> QED
  BY <1>3, <1>4, <1>7, <1>8, <1>9, <1>11, <1>12, <1>13, <1>14, <1>15, <1>16 DEF RunStep

LEMMA ResultsKept ==
  ASSUME RunsInv, [Next]_vars
  PROVE  ResultsInv' /\ reviewed \subseteq reviewed'
<1> USE DEF RunsInv, ResultsInv
<1>1. CASE UNCHANGED <<result, reviewed>>
  BY <1>1
<1>2. ASSUME NEW r \in Runners, Stage(r) \/ Launch(r) \/ Cleanup(r)
      PROVE  ResultsInv' /\ reviewed \subseteq reviewed'
  <2>1. result' = result \/ result' = [result EXCEPT ![JobOf(r)] = 0]
    BY <1>2 DEF Stage, Launch, Cleanup
  <2>2. reviewed' = reviewed
    BY <1>2 DEF Stage, Launch, Cleanup
  <2> QED BY <2>1, <2>2
<1>3. ASSUME NEW i \in processes, Review(i) PROVE ResultsInv' /\ reviewed \subseteq reviewed'
  BY <1>3 DEF Review
<1>4. ASSUME NEW r \in Runners, RunStep(r) PROVE ResultsInv' /\ reviewed \subseteq reviewed'
  BY <1>1, <1>2, <1>4
  DEF RunStep, RunClaim, RunCancelled, RunAdmitted, RunRefused, ProcessExits, RunFinalize, RunRecorded
<1>5. ASSUME NEW r \in Runners, Lease(r) \/ FinalizeFails(r) \/ CancelRun(r) \/ Crash(r)
      PROVE  ResultsInv' /\ reviewed \subseteq reviewed'
  BY <1>1, <1>5 DEF Lease, RenewTick, RenewDone, LeaseLost, FinalizeFails, CancelRun, Crash, runVars
<1>6. CASE UNCHANGED vars \/ Api \/ Operator \/ (Tick /\ UNCHANGED runVars)
  BY <1>1, <1>6 DEF vars, Api, Operator, runVars
<1> QED BY <1>3, <1>4, <1>5, <1>6 DEF Next

\* A step of one runner leaves the others where they are; a step of nobody's leaves all.
LEMMA RunsKept ==
  ASSUME StoreInv, RunsInv, [Next]_vars
  PROVE  RunsInv'
<1>0. StoreInv' /\ RowsKept /\ ResultsInv' /\ reviewed \subseteq reviewed'
  BY StoreKept, ResultsKept
<1>a. run = [r \in Runners |-> run[r]] /\ call = [c \in Callers |-> call[c]]
  BY DEF RunsInv, StoreInv, RowTypes
<1>1. ASSUME NEW r \in Runners, run'[r] = run[r], call'[Main(r)] = call[Main(r)]
      PROVE  RunnerInv(r)'
  <2>1. RunnerInv(r) /\ RunFields(r)'
    BY <1>1 DEF RunsInv, RunnerInv, RunFields
  <2> QED BY <1>0, <1>1, <2>1, RunnerUndisturbed
<1>2. ASSUME UNCHANGED run, \A s \in Runners : call'[Main(s)] = call[Main(s)]
      PROVE  RunsInv'
  BY <1>0, <1>1, <1>2, <1>a DEF RunsInv
<1>3. ASSUME NEW r \in Runners, NEW x, run' = [run EXCEPT ![r] = x], RunnerInv(r)',
             \A s \in Runners \ {r} : call'[Main(s)] = call[Main(s)]
      PROVE  RunsInv'
  <2>1. \A s \in Runners \ {r} : run'[s] = run[s]
    BY <1>3, <1>a
  <2>2. \A s \in Runners : RunnerInv(s)'
    BY <1>1, <1>3, <2>1
  <2> QED BY <1>0, <1>3, <1>a, <2>2 DEF RunsInv
<1>4. ASSUME NEW r \in Runners, RunStep(r) \/ FinalizeFails(r) PROVE RunsInv'
  <2>1. RunnerInv(r)'
    BY <1>0, <1>4, RunnerSteps
  <2>2. \E x : run' = [run EXCEPT ![r] = x]
    BY <1>4 DEF RunStep, RunClaim, RunCancelled, RunAdmitted, RunRefused, Stage, Launch,
                ProcessExits, RunFinalize, RunRecorded, Cleanup, FinalizeFails, Step, Abort, EndRun
  <2>3. call' = call \/ \E x : call' = [call EXCEPT ![Main(r)] = x]
    BY <1>4 DEF RunStep, RunClaim, RunCancelled, RunAdmitted, RunRefused, Stage, Launch,
                ProcessExits, RunFinalize, RunRecorded, Cleanup, FinalizeFails, jobVars,
                ClaimBegin, ClaimAdmitted, ClaimRefused, FinalizeBegin, FinalizeCommit, Begin, Return
  <2>4. \A s \in Runners \ {r} : call'[Main(s)] = call[Main(s)]
    BY <1>a, <2>3, CallsApart
  <2> QED BY <1>3, <2>1, <2>2, <2>4
<1>5. ASSUME NEW r \in Runners, Lease(r) \/ CancelRun(r) PROVE RunsInv'
  <2>1. \A s \in Runners : call'[Main(s)] = call[Main(s)]
    <3>1. call' = call \/ \E x : call' = [call EXCEPT ![Beat(r)] = x]
      BY <1>5 DEF Lease, RenewTick, RenewDone, LeaseLost, CancelRun, jobVars,
                  RenewBegin, RenewCommit, Begin, Return
    <3> QED BY <1>a, <3>1, CallsApart
  <2>2. CASE UNCHANGED run
    BY <1>2, <2>1, <2>2
  <2>3. ASSUME NEW x, \/ run' = [run EXCEPT ![r].lost = x]
                      \/ run' = [run EXCEPT ![r].cancelled = x]
        PROVE  RunsInv'
    <3>1. run'[r] = [run[r] EXCEPT !.lost = x] \/ run'[r] = [run[r] EXCEPT !.cancelled = x]
      BY <1>a, <2>3
    <3>2. RunnerInv(r) /\ RunFields(r)
      BY DEF RunsInv, RunnerInv
    <3>3. /\ RunFields(r)' /\ run'[r].pc = run[r].pc /\ run'[r].todo = run[r].todo
          /\ run'[r].attempt = run[r].attempt
          /\ run'[r].exit = run[r].exit /\ run'[r].held = run[r].held
      BY <3>1, <3>2 DEF RunFields
    <3>4. RunnerInv(r)'
      BY <1>0, <2>1, <3>2, <3>3, RunnerUndisturbed
    <3>5. run' = [run EXCEPT ![r] = run'[r]]
      BY <1>a, <2>3
    <3> QED BY <1>3, <2>1, <3>4, <3>5
  <2>4. UNCHANGED run \/ \E x : \/ run' = [run EXCEPT ![r].lost = x]
                                \/ run' = [run EXCEPT ![r].cancelled = x]
    BY <1>5 DEF Lease, RenewTick, RenewDone, LeaseLost, CancelRun, runVars
  <2> QED BY <2>2, <2>3, <2>4
<1>6. ASSUME NEW r \in Runners, Crash(r) PROVE RunsInv'
  <2>1. \A s \in Runners \ {r} : call'[Main(s)] = call[Main(s)]
    BY <1>6, <1>a, CallsApart DEF Crash
  <2>2. run'[r] = [run[r] EXCEPT !.pc = "dead"] /\ run' = [run EXCEPT ![r] = run'[r]]
    BY <1>6, <1>a DEF Crash
  <2>3. RunFields(r)' /\ run'[r].pc = "dead"
    BY <2>2 DEF RunsInv, RunnerInv, RunFields
  <2>4. RunnerInv(r)'
    BY <2>3 DEF RunnerInv, WithJob, WithAttempt
  <2> QED BY <1>3, <2>1, <2>2, <2>4
<1>7. CASE Api
  <2>1. UNCHANGED run
    BY <1>7 DEF Api, runVars
  <2>2. PICK c \in ApiCallers : ApiCall(c) \/ ApiReturn(c)
    BY <1>7 DEF Api
  <2>3. \E x : call' = [call EXCEPT ![c] = x]
    BY <2>2 DEF ApiCall, ApiReturn, ClaimBegin, RenewBegin, FinalizeBegin, ClaimAdmitted,
                ClaimRepeated, ClaimRefused, RenewCommit, FinalizeCommit, Begin, Return
  <2>4. \A s \in Runners : call'[Main(s)] = call[Main(s)]
    BY <1>a, <2>3, CallsApart
  <2> QED BY <1>2, <2>1, <2>4
<1>8. CASE UNCHANGED <<run, call>>
  BY <1>2, <1>8
<1>9. CASE UNCHANGED vars \/ Operator \/ (Tick /\ UNCHANGED runVars) \/ (\E i \in processes : Review(i))
  BY <1>8, <1>9 DEF vars, Operator, Create, PauseEvaluationCampaign, ConfigureEvaluationPool, Tick,
                    Review, jobVars, runVars
<1> QED BY <1>4, <1>5, <1>6, <1>7, <1>9 DEF Next

\* What a runner reports as recorded is what the store holds, for good, when its lease was
\* lost, its result came late or it was offered several times (attemptRun.commit).
THEOREM RecordedIsHeldAlways == Spec => []RecordedIsHeld
<1>1. Init => StoreInv /\ RunsInv
  BY InitStore, InitRuns
<1>2. StoreInv /\ RunsInv /\ [Next]_vars => (StoreInv /\ RunsInv)'
  BY StoreKept, RunsKept
<1>3. RunsInv => RecordedIsHeld
  BY DEF RunsInv, RunnerInv, RecordedIsHeld, At
<1> QED BY <1>1, <1>2, <1>3, PTL DEF Spec

\* A review that is recorded as completed was written by the process of its own attempt,
\* though other attempts of the job use the same file (Pipeline.Execute).
THEOREM ReviewIsOwnAlways == Spec => []ReviewIsOwn
<1>1. Init => StoreInv /\ RunsInv
  BY InitStore, InitRuns
<1>2. StoreInv /\ RunsInv /\ [Next]_vars => (StoreInv /\ RunsInv)'
  BY StoreKept, RunsKept
<1>3. RunsInv => ReviewIsOwn
  BY DEF RunsInv, RunnerInv, ReviewIsOwn
<1> QED BY <1>1, <1>2, <1>3, PTL DEF Spec

-----------------------------------------------------------------------------
(* The lease threads *)

\* Where a runner's lease thread may be at work.
Attending == {"stage", "validate", "running", "commit"}
\* A lease thread works only while its runner has an attempt in hand, and renews that
\* one; the other thread renews nothing.
BeatInv(r) ==
  /\ r \in beating \/ ~Idle(Beat(r)) => run[r].pc \in Attending
  /\ ~Idle(Beat(r)) => call[Beat(r)].kind = "renew" /\ call[Beat(r)].attempt = run[r].attempt
  /\ call[Main(r)].kind # "renew"
BeatsInv == \A r \in Runners : BeatInv(r)

LEMMA InitBeats == Init => BeatsInv
<1> SUFFICES ASSUME Init, NEW r \in Runners PROVE BeatInv(r)
  BY DEF BeatsInv
<1>1. call[Main(r)] = NoCall /\ call[Beat(r)] = NoCall /\ beating = {}
  BY CallsApart DEF Init, JobsInit
<1> QED BY <1>1 DEF BeatInv, Idle, NoCall

LEMMA BeatsApart ==
  ASSUME NEW r \in Runners
  PROVE  /\ Beat(r) \notin ApiCallers
         /\ \A s \in Runners : s # r => Beat(s) # Beat(r)
BY RunnerConstants DEF Main, Beat, ApiCallers

LEMMA BeatsKept ==
  ASSUME StoreInv, RunsInv, BeatsInv, [Next]_vars
  PROVE  BeatsInv'
<1>a. run = [r \in Runners |-> run[r]] /\ call = [c \in Callers |-> call[c]]
  BY DEF RunsInv, StoreInv, RowTypes
\* A runner is as it was when its place, its attempt and both its calls are.
<1>1. ASSUME NEW r \in Runners, run'[r].pc = run[r].pc, run'[r].attempt = run[r].attempt,
             r \in beating' => r \in beating,
             call'[Main(r)] = call[Main(r)], call'[Beat(r)] = call[Beat(r)]
      PROVE  BeatInv(r)'
  <2>1. BeatInv(r)
    BY DEF BeatsInv
  <2> QED BY <1>1, <2>1 DEF BeatInv, Idle
<1>2. ASSUME NEW r \in Runners, NEW s \in Runners \ {r},
             run' = run \/ \E x : run' = [run EXCEPT ![r] = x],
             call' = call \/ (\E x : call' = [call EXCEPT ![Main(r)] = x])
               \/ \E x, y : call' = [call EXCEPT ![Main(r)] = x, ![Beat(r)] = y],
             beating' \subseteq beating \cup {r}
      PROVE  BeatInv(s)'
  <2>1. run'[s] = run[s]
    BY <1>2, <1>a
  <2>2. call'[Main(s)] = call[Main(s)] /\ call'[Beat(s)] = call[Beat(s)]
    BY <1>2, <1>a, CallsApart, BeatsApart
  <2> QED BY <1>1, <1>2, <2>1, <2>2
<1>3. ASSUME NEW r \in Runners, NEW c \in Callers \ {Main(r), Beat(r)}, NEW x,
             run' = run, beating' = beating, call' = [call EXCEPT ![c] = x]
      PROVE  BeatInv(r)'
  <2>1. call'[Main(r)] = call[Main(r)] /\ call'[Beat(r)] = call[Beat(r)]
    BY <1>3, <1>a, CallsApart
  <2> QED BY <1>1, <1>3, <2>1
\* Steps that leave the calls alone.
<1>4. ASSUME NEW r \in Runners,
             RunCancelled(r) \/ Stage(r) \/ Launch(r) \/ ProcessExits(r) \/ Cleanup(r)
      PROVE  BeatsInv'
  <2>1. UNCHANGED <<beating, call>>
    BY <1>4 DEF RunCancelled, Stage, Launch, ProcessExits, Cleanup, jobVars
  <2>2. \E x : run' = [run EXCEPT ![r] = x]
    BY <1>4 DEF RunCancelled, Stage, Launch, ProcessExits, Cleanup, Step, Abort, EndRun
  <2>3. /\ run[r].pc \in Attending => run'[r].pc \in Attending /\ run'[r].attempt = run[r].attempt
    <3>1. RunFields(r)
      BY DEF RunsInv, RunnerInv
    <3>2. CASE run[r].pc \in {"stage", "validate", "running"}
      <4>1. \/ run' = [run EXCEPT ![r] = [run[r] EXCEPT !.pc = "validate"]]
            \/ run' = [run EXCEPT ![r] = [run[r] EXCEPT !.pc = "running"]]
            \/ \E exit : Abort(r, exit)
        BY <1>4, <3>2 DEF RunCancelled, Stage, Launch, ProcessExits, Cleanup, Step, At
      <4>2. \/ run'[r] = [run[r] EXCEPT !.pc = "validate"]
            \/ run'[r] = [run[r] EXCEPT !.pc = "running"]
            \/ \E exit : run'[r] = [run[r] EXCEPT !.pc = "commit", !.exit = exit]
        BY <4>1, <1>a DEF Abort, Step
      <4> QED BY <3>1, <4>2 DEF RunFields, Attending
    <3>3. CASE run[r].pc \notin {"stage", "validate", "running"}
      BY <1>4, <3>3 DEF RunCancelled, Stage, Launch, ProcessExits, Cleanup, At, Attending
    <3> QED BY <3>2, <3>3
  <2>4. BeatInv(r)'
    <3>1. BeatInv(r)
      BY DEF BeatsInv
    <3> QED BY <2>1, <2>3, <3>1 DEF BeatInv, Idle
  <2>5. \A s \in Runners \ {r} : BeatInv(s)'
    BY <1>2, <2>1, <2>2
  <2> QED BY <2>4, <2>5 DEF BeatsInv
\* Steps of the first thread that make or return its call, or give it up.
<1>5. ASSUME NEW r \in Runners,
             RunClaim(r) \/ RunRefused(r) \/ RunRecorded(r) \/ FinalizeFails(r)
      PROVE  BeatsInv'
  <2>1. \E x : run' = [run EXCEPT ![r] = x]
    BY <1>5 DEF RunClaim, RunRefused, RunRecorded, FinalizeFails, Step, EndRun
  <2>2. PICK x : call' = [call EXCEPT ![Main(r)] = x] /\ x.kind # "renew"
    <3>1. CASE call' = [call EXCEPT ![Main(r)] = NoCall]
      <4>1. NoCall.kind # "renew"
        BY DEF NoCall
      <4> QED BY <3>1, <4>1
    <3>2. ASSUME NEW j, NEW q, ClaimBegin(Main(r), j, q, LeaseTTL)
          PROVE  \E x : call' = [call EXCEPT ![Main(r)] = x] /\ x.kind # "renew"
      <4> DEFINE y == [kind |-> "claim", job |-> j, request |-> q, at |-> now, expires |-> now + LeaseTTL]
      <4>1. call' = [call EXCEPT ![Main(r)] = y] /\ y.kind # "renew"
        BY <3>2 DEF ClaimBegin, Begin
      <4> HIDE DEF y
      <4> QED BY <4>1
    <3>3. CASE RunClaim(r)
      <4>1. PICK q : ClaimBegin(Main(r), JobOf(r), q, LeaseTTL)
        BY <3>3 DEF RunClaim
      <4> QED BY <3>2, <4>1
    <3>4. CASE RunRefused(r) \/ RunRecorded(r) \/ FinalizeFails(r)
      BY <3>1, <3>4 DEF RunRefused, RunRecorded, FinalizeFails, ClaimRefused, FinalizeCommit, Return
    <3> QED BY <1>5, <3>3, <3>4
  <2>3. beating' = beating /\ run[r].pc \notin Attending
    BY <1>5 DEF RunClaim, RunRefused, RunRecorded, FinalizeFails, At, Attending
  <2>4. BeatInv(r) /\ call'[Main(r)] = x /\ call'[Beat(r)] = call[Beat(r)]
    BY <1>a, <2>2, CallsApart DEF BeatsInv
  <2>5. BeatInv(r)'
    BY <2>2, <2>3, <2>4 DEF BeatInv, Idle
  <2>6. \A s \in Runners \ {r} : BeatInv(s)'
    BY <1>2, <2>1, <2>2, <2>3
  <2> QED BY <2>5, <2>6 DEF BeatsInv
<1>6. ASSUME NEW r \in Runners, RunAdmitted(r) PROVE BeatsInv'
  <2>1. PICK x : run' = [run EXCEPT ![r] = x] /\ x.pc = "stage"
    <3> DEFINE y == [run[r] EXCEPT !.pc = "stage", !.attempt = started', !.tries = @ + 1,
                                   !.exit = "unknown", !.finals = 0, !.held = "none", !.lost = FALSE]
    <3>1. RunFields(r)
      BY DEF RunsInv, RunnerInv
    <3>2. run' = [run EXCEPT ![r] = y]
      BY <1>6 DEF RunAdmitted, Step
    <3>3. y.pc = "stage"
      BY <3>1 DEF RunFields
    <3> HIDE DEF y
    <3> QED BY <3>2, <3>3
  <2>2. call' = [call EXCEPT ![Main(r)] = NoCall] /\ beating' = beating \cup {r}
    BY <1>6 DEF RunAdmitted, ClaimAdmitted, Return
  <2>3. Idle(Beat(r))
    BY <1>6 DEF RunAdmitted, At, BeatsInv, BeatInv, Attending
  <2>4. run'[r].pc = "stage" /\ call'[Main(r)] = NoCall /\ call'[Beat(r)] = NoCall
    BY <1>a, <2>1, <2>2, <2>3, CallsApart DEF Idle
  <2>5. BeatInv(r)'
    BY <2>4 DEF BeatInv, Idle, Attending, NoCall
  <2>6. \A s \in Runners \ {r} : BeatInv(s)'
    BY <1>2, <2>1, <2>2
  <2> QED BY <2>5, <2>6 DEF BeatsInv
\* The result is written once renewal has stopped and nothing of it is in flight.
<1>7. ASSUME NEW r \in Runners, RunFinalize(r) PROVE BeatsInv'
  <2>1. PICK x : run' = [run EXCEPT ![r] = x]
    BY <1>7 DEF RunFinalize, Step
  <2>2. PICK y : call' = [call EXCEPT ![Main(r)] = y] /\ y.kind = "finalize"
    <3> DEFINE z == [kind |-> "finalize", attempt |-> run[r].attempt, exit |-> run[r].exit, at |-> now]
    <3>1. call' = [call EXCEPT ![Main(r)] = z] /\ z.kind = "finalize"
      BY <1>7 DEF RunFinalize, FinalizeBegin, Begin
    <3> HIDE DEF z
    <3> QED BY <3>1
  <2>3. beating' = beating \ {r} /\ Idle(Beat(r))
    BY <1>7 DEF RunFinalize
  <2>4. call'[Main(r)] = y /\ call'[Beat(r)] = NoCall
    BY <1>a, <2>2, <2>3, CallsApart DEF Idle
  <2>5. BeatInv(r)'
    BY <2>2, <2>3, <2>4 DEF BeatInv, Idle
  <2>6. \A s \in Runners \ {r} : BeatInv(s)'
    BY <1>2, <2>1, <2>2, <2>3
  <2> QED BY <2>5, <2>6 DEF BeatsInv
<1>8. ASSUME NEW r \in Runners, RenewTick(r) PROVE BeatsInv'
  <2>1. PICK x : /\ call' = [call EXCEPT ![Beat(r)] = x]
                 /\ x.kind = "renew" /\ x.attempt = run[r].attempt
    <3> DEFINE y == [kind |-> "renew", attempt |-> run[r].attempt, expires |-> now + LeaseTTL]
    <3>1. /\ call' = [call EXCEPT ![Beat(r)] = y]
          /\ y.kind = "renew" /\ y.attempt = run[r].attempt
      BY <1>8 DEF RenewTick, RenewBegin, Begin
    <3> HIDE DEF y
    <3> QED BY <3>1
  <2>2. r \in beating /\ UNCHANGED <<run, beating>>
    BY <1>8 DEF RenewTick, runVars
  <2>3. BeatInv(r) /\ call'[Beat(r)] = x /\ call'[Main(r)] = call[Main(r)]
    BY <1>a, <2>1, CallsApart DEF BeatsInv
  <2>4. BeatInv(r)'
    BY <2>1, <2>2, <2>3 DEF BeatInv
  <2>5. \A s \in Runners \ {r} : BeatInv(s)'
    BY <1>3, <2>1, <2>2, CallsApart, BeatsApart
  <2> QED BY <2>4, <2>5 DEF BeatsInv
<1>9. ASSUME NEW r \in Runners, RenewDone(r) \/ LeaseLost(r) \/ CancelRun(r) PROVE BeatsInv'
  <2>1. beating' = beating
    BY <1>9 DEF RenewDone, LeaseLost, CancelRun
  <2>2. \E x : run' = [run EXCEPT ![r].lost = x] \/ run' = [run EXCEPT ![r].cancelled = x]
    BY <1>9 DEF RenewDone, LeaseLost, CancelRun
  <2>3. call' = call \/ call' = [call EXCEPT ![Beat(r)] = NoCall]
    BY <1>9 DEF RenewDone, LeaseLost, CancelRun, RenewCommit, Return, jobVars
  <2>4. ASSUME NEW s \in Runners
        PROVE  /\ run'[s].pc = run[s].pc /\ run'[s].attempt = run[s].attempt
               /\ call'[Main(s)] = call[Main(s)]
               /\ call'[Beat(s)] = call[Beat(s)] \/ call'[Beat(s)] = NoCall
    <3>1. RunFields(s)
      BY DEF RunsInv, RunnerInv
    <3>2. run'[s].pc = run[s].pc /\ run'[s].attempt = run[s].attempt
      <4>1. PICK x : run' = [run EXCEPT ![r].lost = x] \/ run' = [run EXCEPT ![r].cancelled = x]
        BY <2>2
      <4>2. \/ run'[s] = run[s] \/ run'[s] = [run[s] EXCEPT !.lost = x]
            \/ run'[s] = [run[s] EXCEPT !.cancelled = x]
        BY <1>a, <4>1
      <4> QED BY <3>1, <4>2 DEF RunFields
    <3>3. /\ call'[Main(s)] = call[Main(s)]
          /\ call'[Beat(s)] = call[Beat(s)] \/ call'[Beat(s)] = NoCall
      BY <1>a, <2>3, CallsApart
    <3> QED BY <3>2, <3>3
  <2>5. ASSUME NEW s \in Runners PROVE BeatInv(s)'
    <3>1. BeatInv(s)
      BY DEF BeatsInv
    <3> QED BY <2>1, <2>4, <3>1 DEF BeatInv, Idle
  <2> QED BY <2>5 DEF BeatsInv
<1>10. ASSUME NEW r \in Runners, Crash(r) PROVE BeatsInv'
  <2>1. /\ call' = [call EXCEPT ![Main(r)] = NoCall, ![Beat(r)] = NoCall]
        /\ run' = [run EXCEPT ![r].pc = "dead"] /\ beating' = beating \ {r}
    BY <1>10 DEF Crash
  <2>2. call'[Main(r)] = NoCall /\ call'[Beat(r)] = NoCall
    BY <1>a, <2>1, CallsApart
  <2>3. BeatInv(r)'
    BY <2>1, <2>2 DEF BeatInv, Idle, NoCall
  <2>4. \A s \in Runners \ {r} : BeatInv(s)'
    BY <1>2, <2>1
  <2> QED BY <2>3, <2>4 DEF BeatsInv
<1>11. CASE Api
  <2>1. UNCHANGED <<run, beating>>
    BY <1>11 DEF Api, runVars
  <2>2. PICK c \in ApiCallers : ApiCall(c) \/ ApiReturn(c)
    BY <1>11 DEF Api
  <2>3. \E x : call' = [call EXCEPT ![c] = x]
    BY <2>2 DEF ApiCall, ApiReturn, ClaimBegin, RenewBegin, FinalizeBegin, ClaimAdmitted,
                ClaimRepeated, ClaimRefused, RenewCommit, FinalizeCommit, Begin, Return
  <2>4. ASSUME NEW r \in Runners PROVE c \in Callers \ {Main(r), Beat(r)}
    BY CallsApart, BeatsApart DEF ApiCallers
  <2> QED BY <1>3, <2>1, <2>3, <2>4 DEF BeatsInv
<1>12. CASE UNCHANGED <<run, call, beating>>
  BY <1>1, <1>12 DEF BeatsInv
<1>13. CASE UNCHANGED vars \/ Operator \/ (Tick /\ UNCHANGED runVars) \/ (\E i \in processes : Review(i))
  BY <1>12, <1>13 DEF vars, Operator, Create, PauseEvaluationCampaign, ConfigureEvaluationPool, Tick,
                      Review, jobVars, runVars
<1>14. ASSUME NEW r \in Runners, RunStep(r) PROVE BeatsInv'
  BY <1>4, <1>5, <1>6, <1>7, <1>14 DEF RunStep
<1>15. ASSUME NEW r \in Runners, Lease(r) PROVE BeatsInv'
  BY <1>8, <1>9, <1>15 DEF Lease
<1> QED BY <1>5, <1>9, <1>10, <1>11, <1>13, <1>14, <1>15 DEF Next

-----------------------------------------------------------------------------
(* Leases *)

\* A renewal of the attempt is in flight.
Racing(i) == \E c \in Callers : call[c].kind = "renew" /\ call[c].attempt = i
\* The attempts whose lease lasts, or is about to be moved.
Hold(i) == Active(i) /\ (Racing(i) \/ ~LeaseExpired(i, now))

\* No step moves a lease back: of two renewals of an attempt, the one that is written last
\* is the later one.
LeasesMoveForward == \A i \in 1..started : attempt'[i].expires >= attempt[i].expires

FlightInv ==
  \A c \in Callers :
    /\ call[c].kind = "claim" => call[c].at \in 0..now
    /\ call[c].kind = "renew" => call[c].attempt \in 1..started
\* A lease that is being renewed outlasts the time every claim in flight swept at: a claim
\* cannot take for overdue what a renewal is about to bring back.
RenewalsAhead ==
  \A i \in 1..started : Active(i) /\ Racing(i) =>
    \A c \in Callers : call[c].kind = "claim" => attempt[i].expires > call[c].at
HoldersAreCurrent == \A i \in 1..started : Hold(i) => current[attempt[i].job] = i
LeaseInv == FlightInv /\ RenewalsAhead /\ HoldersAreCurrent

\* What a step does to the leases, and to the calls that read them: only a renewal in
\* flight moves a lease, and only a live attempt gets one; a claim that begins has swept.
LeaseStep(i) ==
  /\ attempt'[i].job = attempt[i].job /\ attempt'[i].pool = attempt[i].pool
  /\ Active(i)' => Active(i) /\ (attempt'[i].expires = attempt[i].expires \/ Racing(i))
  /\ Racing(i)' => Racing(i) \/ (~LeaseExpired(i, now) /\ now' = now)
CallStep(c) ==
  /\ call'[c].kind = "claim" =>
       \/ call'[c] = call[c]
       \/ /\ call'[c].at = now /\ now' = now
          /\ \A i \in 1..started : Active(i)' => attempt'[i].expires > now
  /\ call'[c].kind = "renew" => call'[c].attempt \in 1..started
LeaseSteps ==
  /\ now' = now \/ now' = now + 1
  /\ \A i \in 1..started : LeaseStep(i)
  /\ \A c \in Callers : CallStep(c)

LEMMA ExpiredLease ==
  ASSUME NEW x \in Attempts
  PROVE  Expired(x).pool = x.pool /\ Expired(x).expires = x.expires
BY DEF Attempts, Expired

LEMMA EndedLease ==
  ASSUME NEW i, attempt[i] \in Attempts, NEW e, NEW t
  PROVE  /\ Ended(i, e, t).job = attempt[i].job /\ Ended(i, e, t).pool = attempt[i].pool
         /\ Ended(i, e, t).expires = attempt[i].expires
         /\ Ended(i, e, t).state # "active"
BY ExpiredRow, ExpiredLease DEF Ended, Attempts

\* What a lease thread renews is an attempt that has a row.
LEMMA RenewableRows ==
  ASSUME RunsInv, BeatsInv, NEW i, Renewable(i)
  PROVE  i \in 1..started
BY DEF RunsInv, RunnerInv, BeatsInv, BeatInv, Renewable, Attending, WithAttempt, WithJob

LEMMA LeaseStepsOfTheStore ==
  ASSUME StoreInv, RunsInv, BeatsInv, FlightInv, [Next]_vars
  PROVE  LeaseSteps
<1>0. StoreStep
  BY StepsOfTheStore DEF StoreInv, RowTypes
<1>a. /\ call = [c \in Callers |-> call[c]] /\ 1..started \subseteq AttemptIds
      /\ attempt \in [AttemptIds -> Attempts] /\ now \in Nat
  BY StartedRows DEF StoreInv, RowTypes
<1>b. \A i \in 1..started : attempt[i] \in Attempts /\ attempt[i].expires \in Nat
  BY <1>a DEF Attempts
\* Steps that leave the rows and the clock alone, and end calls.
<1>1. ASSUME UNCHANGED now,
             \A i \in 1..started :
               /\ attempt'[i].job = attempt[i].job /\ attempt'[i].pool = attempt[i].pool
               /\ Active(i)' => Active(i) /\ (attempt'[i].expires = attempt[i].expires \/ Racing(i)),
             \A c \in Callers : call'[c] = call[c] \/ call'[c] = NoCall
      PROVE  LeaseSteps
  <2>1. ASSUME NEW i \in 1..started PROVE LeaseStep(i)
    <3>1. Racing(i)' => Racing(i)
      BY <1>1 DEF Racing, NoCall
    <3> QED BY <1>1, <3>1 DEF LeaseStep
  <2>2. ASSUME NEW c \in Callers PROVE CallStep(c)
    BY <1>1 DEF CallStep, FlightInv, NoCall
  <2> QED BY <1>1, <2>1, <2>2 DEF LeaseSteps
<1>2. ASSUME UNCHANGED <<now, attempt>>, \A c \in Callers : call'[c] = call[c] \/ call'[c] = NoCall
      PROVE  LeaseSteps
  BY <1>1, <1>2 DEF Active
<1>3. ASSUME NEW c \in Callers, NEW j \in Jobs, NEW q \in Requests, NEW ttl \in LeaseTTLs,
             ClaimBegin(c, j, q, ttl)
      PROVE  LeaseSteps
  <2>1. /\ UNCHANGED now
        /\ call' = [call EXCEPT ![c] = [kind |-> "claim", job |-> j, request |-> q, at |-> now, expires |-> now + ttl]]
    BY <1>3 DEF ClaimBegin, Begin
  <2>2. call'[c].kind = "claim" /\ call'[c].at = now
    BY <1>a, <2>1
  <2>3. \A d \in Callers \ {c} : call'[d] = call[d]
    BY <1>a, <2>1
  <2>4. ASSUME NEW i \in 1..started
        PROVE  /\ attempt'[i].job = attempt[i].job /\ attempt'[i].pool = attempt[i].pool
               /\ attempt'[i].state = "active" =>
                    Active(i) /\ attempt'[i].expires = attempt[i].expires /\ attempt[i].expires > now
    <3>1. attempt'[i] = IF Active(i) /\ LeaseExpired(i, now) THEN Expired(attempt[i]) ELSE attempt[i]
      BY <1>3, <1>a DEF ClaimBegin, ExpireEvaluationAttempts
    <3> QED BY <1>a, <1>b, <3>1, ExpiredRow, ExpiredLease DEF Active, LeaseExpired
  <2>5. ASSUME NEW i \in 1..started PROVE LeaseStep(i)
    <3>1. Racing(i)' => Racing(i)
      BY <2>2, <2>3 DEF Racing
    <3> QED BY <2>4, <3>1 DEF LeaseStep, Active
  <2>6. ASSUME NEW d \in Callers PROVE CallStep(d)
    <3>1. \A i \in 1..started : Active(i)' => attempt'[i].expires > now
      BY <2>4 DEF Active
    <3> QED BY <2>1, <2>2, <2>3, <3>1 DEF CallStep, FlightInv
  <2> QED BY <2>1, <2>5, <2>6 DEF LeaseSteps
<1>4. ASSUME NEW c \in Callers, NEW ttl \in LeaseTTLs, NEW k, Renewable(k), RenewBegin(c, k, ttl)
      PROVE  LeaseSteps
  <2>1. /\ UNCHANGED <<now, attempt>> /\ ~LeaseExpired(k, now)
        /\ call' = [call EXCEPT ![c] = [kind |-> "renew", attempt |-> k, expires |-> now + ttl]]
    BY <1>4 DEF RenewBegin, Begin, storeVars
  <2>2. call'[c].kind = "renew" /\ call'[c].attempt = k /\ k \in 1..started
    BY <1>4, <1>a, <2>1, RenewableRows
  <2>3. \A d \in Callers \ {c} : call'[d] = call[d]
    BY <1>a, <2>1
  <2>4. ASSUME NEW i \in 1..started PROVE LeaseStep(i)
    <3>1. Racing(i)' => Racing(i) \/ i = k
      BY <2>2, <2>3 DEF Racing
    <3> QED BY <2>1, <3>1 DEF LeaseStep, Active
  <2>5. ASSUME NEW d \in Callers PROVE CallStep(d)
    BY <2>2, <2>3 DEF CallStep, FlightInv
  <2> QED BY <2>1, <2>4, <2>5 DEF LeaseSteps
<1>5. ASSUME NEW c \in Callers, NEW exit \in Exits, NEW k, FinalizeBegin(c, k, exit)
      PROVE  LeaseSteps
  <2>1. /\ UNCHANGED <<now, attempt>>
        /\ call' = [call EXCEPT ![c] = [kind |-> "finalize", attempt |-> k, exit |-> exit, at |-> now]]
    BY <1>5 DEF FinalizeBegin, Begin, storeVars
  <2>2. call'[c].kind = "finalize" /\ \A d \in Callers \ {c} : call'[d] = call[d]
    BY <1>a, <2>1
  <2>3. ASSUME NEW i \in 1..started PROVE LeaseStep(i)
    <3>1. Racing(i)' => Racing(i)
      BY <2>2 DEF Racing
    <3> QED BY <2>1, <3>1 DEF LeaseStep, Active
  <2>4. ASSUME NEW d \in Callers PROVE CallStep(d)
    BY <2>2 DEF CallStep, FlightInv
  <2> QED BY <2>1, <2>3, <2>4 DEF LeaseSteps
<1>6. ASSUME NEW c \in Callers, Returning(c) PROVE LeaseSteps
  <2>1. UNCHANGED now /\ \A d \in Callers : call'[d] = call[d] \/ call'[d] = NoCall
    <3>1. UNCHANGED now /\ Return(c)
      BY <1>6 DEF Returning, ClaimAdmitted, ClaimRepeated, ClaimRefused, RenewCommit, FinalizeCommit
    <3> QED BY <1>a, <3>1 DEF Return
  <2>2. CASE ClaimAdmitted(c)
    <3>1. started + 1 \notin 1..started
      BY DEF StoreInv, RowTypes
    <3>2. \A i \in 1..started : attempt'[i] = attempt[i]
      BY <1>a, <2>2, <3>1 DEF ClaimAdmitted, InsertAttempt
    <3> QED BY <1>1, <2>1, <3>2 DEF Active
  <2>3. CASE ClaimRepeated(c) \/ ClaimRefused(c)
    BY <1>2, <2>1, <2>3 DEF ClaimRepeated, ClaimRefused, storeVars
  <2>4. CASE RenewCommit(c)
    <3> DEFINE k == call[c].attempt
    <3>1. k \in 1..started /\ Racing(k)
      BY <2>4 DEF RenewCommit, FlightInv, Racing
    <3>2. /\ \A i \in 1..started \ {k} : attempt'[i] = attempt[i]
          /\ attempt'[k] = attempt[k] \/ attempt'[k] = [attempt[k] EXCEPT !.expires = call[c].expires]
      BY <1>a, <2>4, <3>1 DEF RenewCommit
    <3> HIDE DEF k
    <3>3. /\ attempt'[k].job = attempt[k].job /\ attempt'[k].pool = attempt[k].pool
          /\ attempt'[k].state = attempt[k].state
      BY <1>b, <3>1, <3>2 DEF Attempts
    <3> QED BY <1>1, <2>1, <3>1, <3>2, <3>3 DEF Active
  <2>5. CASE FinalizeCommit(c)
    <3> DEFINE k == call[c].attempt
               row == Ended(k, call[c].exit, call[c].at)
    <3>1. attempt' = attempt \/ attempt' = [attempt EXCEPT ![k] = row]
      BY <2>5 DEF FinalizeCommit
    <3>2. \A i \in 1..started : attempt'[i] = attempt[i] \/ (i = k /\ attempt'[i] = row)
      BY <1>a, <3>1
    <3>3. k \in 1..started => row.job = attempt[k].job /\ row.pool = attempt[k].pool /\ row.state # "active"
      BY <1>b, EndedLease
    <3> HIDE DEF k, row
    <3> QED BY <1>1, <2>1, <3>2, <3>3 DEF Active
  <2> QED BY <1>6, <2>2, <2>3, <2>4, <2>5 DEF Returning
<1>7. CASE Forsaking
  BY <1>2, <1>7 DEF Forsaking
<1>8. CASE Aside
  <2>1. UNCHANGED <<attempt, call>>
    BY <1>8 DEF Aside
  <2>2. ASSUME NEW i \in 1..started PROVE LeaseStep(i)
    <3>1. Racing(i)' <=> Racing(i)
      BY <2>1 DEF Racing
    <3> QED BY <2>1, <3>1 DEF LeaseStep, Active
  <2>3. ASSUME NEW c \in Callers PROVE CallStep(c)
    BY <2>1 DEF CallStep, FlightInv
  <2> QED BY <1>8, <2>2, <2>3 DEF Aside, LeaseSteps
<1>9. CASE Calling
  BY <1>3, <1>4, <1>5, <1>9 DEF Calling
<1> QED BY <1>0, <1>6, <1>7, <1>8, <1>9 DEF StoreStep

\* No attempt comes to hold its job again: what is overdue and not being renewed stays so.
LEMMA HoldsEnd ==
  ASSUME StoreInv, LeaseSteps, NEW i \in 1..started, Hold(i)'
  PROVE  Hold(i)
<1>1. /\ LeaseStep(i) /\ now \in Nat /\ attempt[i].expires \in Nat
      /\ now' = now \/ now' = now + 1
  BY StartedRows DEF LeaseSteps, StoreInv, RowTypes, Attempts
<1>2. Active(i)
  BY <1>1 DEF LeaseStep, Hold
<1>3. CASE Racing(i)
  BY <1>2, <1>3 DEF Hold
<1>4. CASE Racing(i)' /\ ~Racing(i)
  BY <1>1, <1>2, <1>4 DEF LeaseStep, Hold
<1>5. CASE ~Racing(i)' /\ ~Racing(i)
  <2>1. attempt'[i].expires = attempt[i].expires /\ ~(attempt'[i].expires <= now')
    BY <1>1, <1>5 DEF LeaseStep, Hold, LeaseExpired
  <2>2. ~(attempt[i].expires <= now)
    BY <1>1, <2>1
  <2> QED BY <1>2, <2>2 DEF Hold, LeaseExpired
<1> QED BY <1>3, <1>4, <1>5

\* Only an admission starts an attempt and makes it its job's current one.
LEMMA OnlyAdmissionsStart ==
  ASSUME StoreStep
  PROVE  UNCHANGED <<started, current>> \/ \E c \in Callers : ClaimAdmitted(c)
BY DEF StoreStep, Calling, ClaimBegin, RenewBegin, FinalizeBegin, Returning, ClaimRepeated,
       ClaimRefused, RenewCommit, FinalizeCommit, Forsaking, Aside, storeVars

\* A renewal in flight is of an attempt that was started before this step.
LEMMA NewRowsAreNotRaced ==
  ASSUME LeaseSteps, NEW i, Racing(i)'
  PROVE  i \in 1..started
BY DEF LeaseSteps, CallStep, Racing

LEMMA InitLeases == Init => LeaseInv
<1> SUFFICES ASSUME Init PROVE LeaseInv
  OBVIOUS
<1>1. started = 0 /\ \A c \in Callers : call[c] = NoCall
  BY DEF Init, JobsInit
<1> QED BY <1>1 DEF LeaseInv, FlightInv, RenewalsAhead, HoldersAreCurrent, NoCall

LEMMA MoreRows ==
  ASSUME StoreInv, StoreStep
  PROVE  /\ started' = started \/ started' = started + 1
         /\ 1..started \subseteq 1..started' /\ 1..started' \subseteq (1..started) \cup {started + 1}
<1>1. started \in Nat
  BY StartedRows
<1>2. started' = started \/ started' = started + 1
  BY OnlyAdmissionsStart DEF ClaimAdmitted, InsertAttempt
<1> QED BY <1>1, <1>2

LEMMA FlightKept ==
  ASSUME StoreInv, FlightInv, LeaseSteps, StoreStep
  PROVE  FlightInv'
<1>1. ASSUME NEW c \in Callers, call'[c].kind = "claim" PROVE call'[c].at \in 0..now'
  BY <1>1 DEF LeaseSteps, CallStep, FlightInv, StoreInv, RowTypes
<1>2. ASSUME NEW c \in Callers, call'[c].kind = "renew" PROVE call'[c].attempt \in 1..started'
  BY <1>2, MoreRows DEF LeaseSteps, CallStep
<1> QED BY <1>1, <1>2 DEF FlightInv

LEMMA LeasesKept ==
  ASSUME StoreInv, RunsInv, BeatsInv, LeaseInv, [Next]_vars, LeasesMoveForward
  PROVE  LeaseInv'
<1>0. StoreStep /\ StoreInv' /\ LeaseSteps
  BY StepsOfTheStore, StoreKept, LeaseStepsOfTheStore DEF StoreInv, RowTypes, LeaseInv
<1>1. /\ started \in Nat /\ now \in Nat /\ 1..started \subseteq AttemptIds
      /\ current \in [Jobs -> 0..MaxAttempts]
      /\ now' = now \/ now' = now + 1
      /\ UNCHANGED <<started, current>> \/ \E c \in Callers : ClaimAdmitted(c)
  BY <1>0, StartedRows, OnlyAdmissionsStart DEF LeaseSteps, StoreInv, RowTypes
<1>2. /\ started' = started \/ started' = started + 1
      /\ 1..started \subseteq 1..started' /\ 1..started' \subseteq (1..started) \cup {started + 1}
  BY <1>0, MoreRows
<1>3. \A i \in 1..started : attempt[i].expires \in Nat /\ attempt'[i].expires \in Nat
  BY <1>0, <1>1 DEF StoreInv, RowTypes, Attempts
<1>4. FlightInv'
  BY <1>0, FlightKept DEF LeaseInv
<1>5. RenewalsAhead'
  <2>1. SUFFICES ASSUME NEW i \in 1..started', Active(i)', Racing(i)',
                        NEW c \in Callers, call'[c].kind = "claim"
                 PROVE  attempt'[i].expires > call'[c].at
    BY DEF RenewalsAhead
  <2>2. i \in 1..started
    BY <1>0, <2>1, NewRowsAreNotRaced
  <2>3. LeaseStep(i) /\ CallStep(c) /\ attempt'[i].expires >= attempt[i].expires
    BY <1>0, <2>2 DEF LeaseSteps, LeasesMoveForward
  <2>4. CASE call'[c] # call[c]
    BY <2>1, <2>2, <2>3, <2>4 DEF CallStep
  <2>5. CASE call'[c] = call[c]
    <3>1. call[c].kind = "claim" /\ call[c].at \in 0..now
      BY <2>1, <2>5 DEF LeaseInv, FlightInv
    <3>2. attempt[i].expires > call[c].at
      <4>1. CASE Racing(i)
        BY <2>1, <2>2, <2>3, <3>1, <4>1 DEF LeaseInv, RenewalsAhead, LeaseStep
      <4>2. CASE ~Racing(i)
        BY <1>1, <1>3, <2>1, <2>2, <2>3, <3>1, <4>2 DEF LeaseStep, LeaseExpired
      <4> QED BY <4>1, <4>2
    <3> QED BY <1>1, <1>3, <2>2, <2>3, <2>5, <3>1, <3>2
  <2> QED BY <2>4, <2>5
<1>6. HoldersAreCurrent'
  <2>1. SUFFICES ASSUME NEW i \in 1..started', Hold(i)'
                 PROVE  current'[attempt'[i].job] = i
    BY DEF HoldersAreCurrent
  <2>2. ASSUME i \in 1..started
        PROVE  Hold(i) /\ current[attempt[i].job] = i /\ attempt'[i].job = attempt[i].job
    BY <1>0, <2>1, <2>2, HoldsEnd DEF LeaseInv, HoldersAreCurrent, LeaseSteps, LeaseStep
  <2>3. CASE UNCHANGED <<started, current>>
    BY <2>2, <2>3
  <2>4. ASSUME NEW c \in Callers, ClaimAdmitted(c) PROVE current'[attempt'[i].job] = i
    <3>1. PICK j \in Jobs : j = call[c].job
      BY <2>4, NewRow
    <3>2. /\ current' = [current EXCEPT ![j] = started + 1]
          /\ started + 1 \in AttemptIds /\ attempt'[started + 1].job = j
      BY <2>4, <3>1, NewRow DEF ClaimAdmitted, InsertAttempt, StoreInv, RowTypes
    <3>3. CASE i = started + 1
      BY <1>1, <3>2, <3>3
    <3>4. CASE i \in 1..started
      <4>1. Active(i) => LeaseExpired(i, call[c].at) \/ attempt[i].job # j
        BY <2>2, <2>4, <3>1, <3>4 DEF ClaimAdmitted, Admissible, NoLiveAttempt
      <4>2. Active(i) /\ ~LeaseExpired(i, call[c].at)
        <5>1. call[c].kind = "claim" /\ call[c].at \in 0..now
          BY <2>4 DEF ClaimAdmitted, LeaseInv, FlightInv
        <5>2. CASE Racing(i)
          BY <1>1, <1>3, <2>2, <3>4, <5>1, <5>2 DEF Hold, LeaseInv, RenewalsAhead, LeaseExpired
        <5>3. CASE ~Racing(i)
          BY <1>1, <1>3, <2>2, <3>4, <5>1, <5>3 DEF Hold, LeaseExpired
        <5> QED BY <5>2, <5>3
      <4> QED BY <1>1, <2>2, <3>2, <3>4, <4>1, <4>2
    <3> QED BY <1>2, <3>3, <3>4
  <2> QED BY <1>1, <2>3, <2>4
<1> QED BY <1>4, <1>5, <1>6 DEF LeaseInv

LEMMA ForwardOrStill ==
  ASSUME StoreInv, [LeasesMoveForward]_vars
  PROVE  LeasesMoveForward
<1>1. \A i \in 1..started : attempt[i].expires \in Nat
  BY StartedRows DEF StoreInv, RowTypes, Attempts
<1> QED BY <1>1 DEF vars, jobVars, storeVars, LeasesMoveForward

\* A job has one live attempt at most, whichever claims swept, renewals read and the clock
\* moved between two steps of another call, as long as no renewal is overtaken by a later
\* one of the same attempt (ClaimEvaluationJob, RenewEvaluationAttempt).
THEOREM OneLiveAttemptUnlessOvertaken ==
  Spec /\ [][LeasesMoveForward]_vars => []OneLiveAttemptPerJob
<1> DEFINE IInv == StoreInv /\ RunsInv /\ BeatsInv /\ LeaseInv
<1>1. Init => IInv
  BY InitStore, InitRuns, InitBeats, InitLeases
<1>2. IInv /\ [Next]_vars /\ [LeasesMoveForward]_vars => IInv'
  <2>1. SUFFICES ASSUME IInv, [Next]_vars, [LeasesMoveForward]_vars PROVE IInv'
    OBVIOUS
  <2>2. StoreInv' /\ RunsInv' /\ BeatsInv'
    BY <2>1, StoreKept, RunsKept, BeatsKept
  <2>3. LeasesMoveForward
    BY <2>1, ForwardOrStill
  <2>4. LeaseInv'
    BY <2>1, <2>3, LeasesKept
  <2> QED BY <2>2, <2>4
<1>3. IInv => OneLiveAttemptPerJob
  BY DEF LeaseInv, HoldersAreCurrent, OneLiveAttemptPerJob, Live, Hold
<1> HIDE DEF IInv
<1> QED BY <1>1, <1>2, <1>3, PTL DEF Spec

-----------------------------------------------------------------------------
(* Leases that only runners renew *)

\* Nothing but the runners' threads calls the store.
OnlyRunnersCall == \A e \in Environments : "api" \notin e.does

\* Runners have attempts of their own in hand.
AttemptsApart ==
  \A r, s \in Runners :
    run[r].pc \in WithAttempt /\ run[s].pc \in WithAttempt /\ run[r].attempt = run[s].attempt => r = s
\* A renewal in flight is its attempt's only one, and is still ahead of the lease it read.
RenewalsInTurn ==
  \A c \in Callers :
    call[c].kind = "renew" /\ Active(call[c].attempt) =>
      call[c].expires > attempt[call[c].attempt].expires
NoClients == env \in Environments /\ \A c \in ApiCallers : Idle(c)
TurnInv == AttemptsApart /\ RenewalsInTurn /\ NoClients

LEMMA InitTurns == Init => TurnInv
<1> SUFFICES ASSUME Init PROVE TurnInv
  OBVIOUS
<1>1. env \in Environments /\ \A c \in Callers : call[c] = NoCall
  BY DEF Init, JobsInit
<1>2. \A r \in Runners : run[r].pc \in {"idle", "claim"}
  BY DEF Init, FreshRun
<1> QED
  BY <1>1, <1>2 DEF TurnInv, AttemptsApart, RenewalsInTurn, NoClients, WithAttempt, WithJob,
                    NoCall, Idle, ApiCallers

\* Where a runner takes an attempt in hand, and that it keeps it.
LEMMA AttemptsInHand ==
  ASSUME StoreInv, RunsInv, [Next]_vars, NEW r \in Runners, run'[r].pc \in WithAttempt,
         ~RunAdmitted(r)
  PROVE  run[r].pc \in WithAttempt /\ run'[r].attempt = run[r].attempt
<1> DEFINE Kept(x) == run[x].pc \in WithAttempt /\ run'[x].attempt = run[x].attempt
<1>a. run = [s \in Runners |-> run[s]] /\ RunFields(r)
  BY DEF RunsInv, RunnerInv
<1>1. CASE run'[r] = run[r]
  BY <1>1
<1>2. ASSUME NEW s \in Runners \ {r}, NEW x,
             \/ run' = [run EXCEPT ![s] = x]
             \/ run' = [run EXCEPT ![s].lost = x] \/ run' = [run EXCEPT ![s].cancelled = x]
             \/ run' = [run EXCEPT ![s].pc = x]
      PROVE  Kept(r)
  BY <1>1, <1>2, <1>a
<1>3. ASSUME NEW s \in Runners, RunStep(s) \/ FinalizeFails(s), s # r PROVE Kept(r)
  <2>1. \E x : run' = [run EXCEPT ![s] = x]
    BY <1>3 DEF RunStep, RunClaim, RunCancelled, RunAdmitted, RunRefused, Stage, Launch,
                ProcessExits, RunFinalize, RunRecorded, Cleanup, FinalizeFails, Step, Abort, EndRun
  <2> QED BY <1>2, <1>3, <2>1
<1>4. ASSUME NEW s \in Runners, Lease(s) \/ CancelRun(s) PROVE Kept(r)
  <2>1. UNCHANGED run \/ \E x : \/ run' = [run EXCEPT ![s].lost = x]
                                \/ run' = [run EXCEPT ![s].cancelled = x]
    BY <1>4 DEF Lease, RenewTick, RenewDone, LeaseLost, CancelRun, runVars
  <2>2. CASE s # r
    BY <1>1, <1>2, <2>1, <2>2
  <2>3. CASE s = r
    <3>1. PICK x : \/ run'[r] = run[r]
                   \/ run'[r] = [run[r] EXCEPT !.lost = x] \/ run'[r] = [run[r] EXCEPT !.cancelled = x]
      BY <1>a, <2>1, <2>3
    <3> QED BY <1>a, <3>1 DEF RunFields
  <2> QED BY <2>2, <2>3
<1>5. ASSUME NEW s \in Runners, Crash(s) PROVE Kept(r)
  <2>1. run' = [run EXCEPT ![s].pc = "dead"]
    BY <1>5 DEF Crash
  <2>2. s # r
    <3>1. s = r => run'[r].pc = "dead"
      BY <1>a, <2>1 DEF RunFields
    <3> QED BY <3>1 DEF WithAttempt, WithJob
  <2> QED BY <1>1, <1>a, <2>1, <2>2
<1>6. CASE UNCHANGED vars \/ Api \/ Operator \/ (Tick /\ UNCHANGED runVars) \/ (\E i \in processes : Review(i))
  BY <1>1, <1>6 DEF vars, Api, Operator, Review, runVars
\* The runner's own steps.
<1>7. ASSUME NEW kind, EndRun(r, kind) PROVE FALSE
  <2>1. PICK todo : run'[r] = [FreshRun(todo) EXCEPT !.cancelled = run[r].cancelled]
    BY <1>7, <1>a DEF EndRun, Step
  <2> QED BY <2>1 DEF FreshRun, WithAttempt, WithJob
<1>8. CASE RunClaim(r) \/ RunRefused(r) \/ RunCancelled(r) \/ Cleanup(r)
  <2>1. \/ \E kind : EndRun(r, kind)
        \/ run'[r] = [run[r] EXCEPT !.pc = "claiming"]
        \/ run'[r] = [run[r] EXCEPT !.pc = "claim"]
        \/ run'[r] = [run[r] EXCEPT !.pc = "claim", !.deferrals = @ + 1]
    BY <1>8, <1>a DEF RunClaim, RunRefused, RunCancelled, Cleanup, Step
  <2> QED BY <1>7, <1>a, <2>1 DEF RunFields, WithAttempt, WithJob
<1>9. CASE Stage(r) \/ Launch(r) \/ ProcessExits(r)
  <2>1. /\ run[r].pc \in {"stage", "validate", "running"}
        /\ \/ run'[r] = [run[r] EXCEPT !.pc = "validate"]
           \/ run'[r] = [run[r] EXCEPT !.pc = "running"]
           \/ \E exit : run'[r] = [run[r] EXCEPT !.pc = "commit", !.exit = exit]
    BY <1>9, <1>a DEF Stage, Launch, ProcessExits, Abort, Step, At
  <2> QED BY <1>a, <2>1 DEF RunFields, WithAttempt, WithJob
<1>10. CASE RunFinalize(r) \/ RunRecorded(r) \/ FinalizeFails(r)
  <2>1. /\ run[r].pc \in {"commit", "finalizing"}
        /\ \/ run'[r] = [run[r] EXCEPT !.pc = "finalizing"]
           \/ \E held : run'[r] = [run[r] EXCEPT !.pc = "cleanup", !.held = held]
           \/ \E exit : run'[r] = [run[r] EXCEPT !.pc = "commit", !.finals = @ + 1, !.exit = exit]
    BY <1>10, <1>a DEF RunFinalize, RunRecorded, FinalizeFails, Step, At
  <2> QED BY <1>a, <2>1 DEF RunFields, WithAttempt, WithJob
<1>11. ASSUME RunStep(r) \/ FinalizeFails(r) PROVE Kept(r)
  BY <1>8, <1>9, <1>10, <1>11 DEF RunStep
<1> QED BY <1>3, <1>4, <1>5, <1>6, <1>11 DEF Next

LEMMA AttemptsApartKept ==
  ASSUME StoreInv, RunsInv, AttemptsApart, [Next]_vars
  PROVE  AttemptsApart'
<1>1. ASSUME NEW r \in Runners, RunAdmitted(r)
      PROVE  /\ run'[r].attempt = started + 1
             /\ \A s \in Runners \ {r} : ~RunAdmitted(s)
  <2>1. run = [s \in Runners |-> run[s]] /\ RunFields(r)
    BY DEF RunsInv, RunnerInv
  <2>2. /\ run'[r] = [run[r] EXCEPT !.pc = "stage", !.attempt = started', !.tries = @ + 1,
                                    !.exit = "unknown", !.finals = 0, !.held = "none", !.lost = FALSE]
        /\ \A s \in Runners \ {r} : run'[s] = run[s]
        /\ started' = started + 1
    BY <1>1, <2>1 DEF RunAdmitted, Step, ClaimAdmitted, InsertAttempt
  <2>3. run'[r].attempt = started + 1
    BY <2>1, <2>2 DEF RunFields
  <2>4. ASSUME NEW s \in Runners \ {r}, RunAdmitted(s) PROVE FALSE
    <3>1. RunFields(s) /\ run[s].pc = "claiming" /\ run'[s] = run[s]
      BY <2>2, <2>4 DEF RunsInv, RunnerInv, RunAdmitted, At
    <3>2. run'[s] = [run[s] EXCEPT !.pc = "stage", !.attempt = started', !.tries = @ + 1,
                                   !.exit = "unknown", !.finals = 0, !.held = "none", !.lost = FALSE]
      BY <2>1, <2>4 DEF RunAdmitted, Step
    <3>3. run'[s].pc = "stage"
      BY <3>1, <3>2 DEF RunFields
    <3> QED BY <3>1, <3>3
  <2> QED BY <2>3, <2>4
<1>2. \A r \in Runners : run[r].pc \in WithAttempt => run[r].attempt \in 1..started
  BY DEF RunsInv, RunnerInv
<1>3. started + 1 \notin 1..started
  BY DEF StoreInv, RowTypes
<1>4. SUFFICES ASSUME NEW r \in Runners, NEW s \in Runners,
                      run'[r].pc \in WithAttempt, run'[s].pc \in WithAttempt,
                      run'[r].attempt = run'[s].attempt
               PROVE  r = s
  BY DEF AttemptsApart
<1>5. CASE ~RunAdmitted(r) /\ ~RunAdmitted(s)
  BY <1>4, <1>5, AttemptsInHand DEF AttemptsApart
<1>6. CASE RunAdmitted(r) /\ r # s
  BY <1>1, <1>2, <1>3, <1>4, <1>6, AttemptsInHand
<1>7. CASE RunAdmitted(s) /\ r # s
  BY <1>1, <1>2, <1>3, <1>4, <1>7, AttemptsInHand
<1> QED BY <1>5, <1>6, <1>7

LEMMA NoClientsKept ==
  ASSUME StoreInv, OnlyRunnersCall, NoClients, [Next]_vars
  PROVE  NoClients'
<1>a. call = [c \in Callers |-> call[c]]
  BY DEF StoreInv, RowTypes
<1>1. ASSUME env' = env, \A c \in ApiCallers : call'[c] = call[c] PROVE NoClients'
  BY <1>1 DEF NoClients, Idle
<1>2. ASSUME NEW r \in Runners, RunStep(r) \/ Lease(r) \/ FinalizeFails(r) \/ CancelRun(r) \/ Crash(r)
      PROVE  NoClients'
  <2>1. env' = env
    BY <1>2 DEF RunStep, RunClaim, RunCancelled, RunAdmitted, RunRefused, Stage, Launch, ProcessExits,
                RunFinalize, RunRecorded, Cleanup, Lease, RenewTick, RenewDone, LeaseLost, FinalizeFails,
                CancelRun, Crash, jobVars, ClaimBegin, ClaimAdmitted, ClaimRefused, FinalizeBegin,
                FinalizeCommit, RenewBegin, RenewCommit
  <2>2. call' = call \/ \E x, y : \/ call' = [call EXCEPT ![Main(r)] = x]
                                  \/ call' = [call EXCEPT ![Beat(r)] = y]
                                  \/ call' = [call EXCEPT ![Main(r)] = x, ![Beat(r)] = y]
    BY <1>2 DEF RunStep, RunClaim, RunCancelled, RunAdmitted, RunRefused, Stage, Launch, ProcessExits,
                RunFinalize, RunRecorded, Cleanup, Lease, RenewTick, RenewDone, LeaseLost, FinalizeFails,
                CancelRun, Crash, jobVars, ClaimBegin, ClaimAdmitted, ClaimRefused, FinalizeBegin,
                FinalizeCommit, RenewBegin, RenewCommit, Begin, Return
  <2>3. \A c \in ApiCallers : call'[c] = call[c]
    BY <1>a, <2>2, CallsApart, BeatsApart DEF ApiCallers
  <2> QED BY <1>1, <2>1, <2>3
<1>3. CASE Api
  <2>1. PICK c \in ApiCallers : ("api" \in env.does /\ ApiCall(c)) \/ ApiReturn(c)
    BY <1>3 DEF Api
  <2>2. "api" \notin env.does /\ call[c] = NoCall
    BY DEF NoClients, OnlyRunnersCall, Idle
  <2>3. ~ApiReturn(c)
    BY <2>2 DEF ApiReturn, ClaimAdmitted, ClaimRepeated, ClaimRefused, RenewCommit, FinalizeCommit, NoCall
  <2> QED BY <2>1, <2>2, <2>3
<1>4. CASE UNCHANGED vars \/ Operator \/ (Tick /\ UNCHANGED runVars) \/ (\E i \in processes : Review(i))
  BY <1>1, <1>4 DEF vars, Operator, Create, PauseEvaluationCampaign, ConfigureEvaluationPool, Tick,
                    Review, jobVars
<1> QED BY <1>2, <1>3, <1>4 DEF Next

\* A renewal in flight is some lease thread's, and no other one is of its attempt.
LEMMA RenewalsOfRunners ==
  ASSUME RunsInv, BeatsInv, TurnInv, NEW c \in Callers, call[c].kind = "renew"
  PROVE  /\ \E r \in Runners : c = Beat(r)
         /\ \A d \in Callers : call[d].kind = "renew" /\ call[d].attempt = call[c].attempt => d = c
<1>1. ASSUME NEW d \in Callers, call[d].kind = "renew"
      PROVE  \E r \in Runners : d = Beat(r) /\ ~Idle(Beat(r))
  <2>1. ~Idle(d)
    BY <1>1 DEF Idle, NoCall
  <2>2. d \notin ApiCallers
    BY <2>1 DEF TurnInv, NoClients
  <2>3. \E r \in Runners : d = Main(r) \/ d = Beat(r)
    BY <2>2 DEF ApiCallers, Main, Beat
  <2> QED BY <1>1, <2>1, <2>3 DEF BeatsInv, BeatInv
<1>2. ASSUME NEW d \in Callers, call[d].kind = "renew", call[d].attempt = call[c].attempt
      PROVE  d = c
  <2>1. PICK r \in Runners : c = Beat(r) /\ ~Idle(Beat(r))
    BY <1>1
  <2>2. PICK s \in Runners : d = Beat(s) /\ ~Idle(Beat(s))
    BY <1>1, <1>2
  <2>3. /\ run[r].pc \in WithAttempt /\ run[s].pc \in WithAttempt
        /\ run[r].attempt = run[s].attempt
    BY <1>2, <2>1, <2>2 DEF BeatsInv, BeatInv, Attending, WithAttempt, WithJob
  <2>4. r = s
    BY <2>3 DEF TurnInv, AttemptsApart
  <2> QED BY <2>1, <2>2, <2>4
<1> QED BY <1>1, <1>2

\* A step moves the lease of an attempt only by a renewal in flight, which then has ended.
LEMMA LeasesMoved ==
  ASSUME StoreInv, [Next]_vars, NEW i \in 1..started, attempt'[i].expires # attempt[i].expires
  PROVE  \E c \in Callers : /\ call[c].kind = "renew" /\ call[c].attempt = i /\ Active(i)
                            /\ attempt'[i].expires = call[c].expires
                            /\ call' = [call EXCEPT ![c] = NoCall]
<1>0. StoreStep
  BY StepsOfTheStore DEF StoreInv, RowTypes
<1>a. /\ i \in AttemptIds /\ attempt \in [AttemptIds -> Attempts] /\ attempt[i] \in Attempts
  BY StartedRows DEF StoreInv, RowTypes
<1>1. attempt' # attempt
  OBVIOUS
<1>2. ASSUME NEW c \in Callers, NEW j, NEW q, NEW ttl, ClaimBegin(c, j, q, ttl) PROVE FALSE
  BY <1>2, <1>a, ExpiredLease DEF ClaimBegin, ExpireEvaluationAttempts
<1>3. ~Forsaking /\ ~Aside
  BY <1>1 DEF Forsaking, Aside
<1>4. ~Calling
  BY <1>1, <1>2 DEF Calling, RenewBegin, FinalizeBegin, storeVars
<1>5. PICK c \in Callers : Returning(c)
  BY <1>0, <1>3, <1>4 DEF StoreStep
<1>6. ~ClaimRepeated(c) /\ ~ClaimRefused(c)
  BY <1>1 DEF ClaimRepeated, ClaimRefused, storeVars
<1>7. ~ClaimAdmitted(c)
  <2>1. i # started + 1
    BY DEF StoreInv, RowTypes
  <2> QED BY <1>a, <2>1 DEF ClaimAdmitted, InsertAttempt
<1>8. ~FinalizeCommit(c)
  <2>1. ASSUME FinalizeCommit(c) PROVE FALSE
    <3> DEFINE k == call[c].attempt
               row == Ended(k, call[c].exit, call[c].at)
    <3>1. attempt' = [attempt EXCEPT ![k] = row]
      BY <1>1, <2>1 DEF FinalizeCommit
    <3>2. k = i => row.expires = attempt[i].expires
      BY <1>a, EndedLease
    <3> HIDE DEF k, row
    <3> QED BY <1>a, <3>1, <3>2
  <2> QED BY <2>1
<1>9. RenewCommit(c)
  BY <1>5, <1>6, <1>7, <1>8 DEF Returning
<1>10. attempt' = [attempt EXCEPT ![call[c].attempt].expires = call[c].expires] /\ Active(call[c].attempt)
  BY <1>1, <1>9 DEF RenewCommit
<1>11. call[c].attempt = i
  BY <1>a, <1>10
<1>12. attempt'[i].expires = call[c].expires
  BY <1>a, <1>10, <1>11 DEF Attempts
<1> QED BY <1>9, <1>10, <1>11, <1>12 DEF RenewCommit, Return

LEMMA NewRenewals ==
  ASSUME StoreInv, [Next]_vars, NEW c \in Callers, call'[c].kind = "renew", call'[c] # call[c]
  PROVE  attempt' = attempt /\ call'[c].expires > attempt[call'[c].attempt].expires
<1>0. StoreStep
  BY StepsOfTheStore DEF StoreInv, RowTypes
<1>a. call = [d \in Callers |-> call[d]]
  BY DEF StoreInv, RowTypes
<1>1. ASSUME NEW d \in Callers, NEW x, call' = [call EXCEPT ![d] = x] PROVE call'[c] = x
  BY <1>1, <1>a
<1>2. ASSUME NEW d \in Callers, NEW j, NEW q, NEW ttl, ClaimBegin(d, j, q, ttl) PROVE FALSE
  BY <1>1, <1>2 DEF ClaimBegin, Begin
<1>3. ASSUME NEW d \in Callers, NEW exit, NEW i, FinalizeBegin(d, i, exit) PROVE FALSE
  BY <1>1, <1>3 DEF FinalizeBegin, Begin
<1>4. ASSUME NEW d \in Callers, Returning(d) PROVE FALSE
  <2>1. Return(d)
    BY <1>4 DEF Returning, ClaimAdmitted, ClaimRepeated, ClaimRefused, RenewCommit, FinalizeCommit
  <2> QED BY <1>1, <2>1 DEF Return, NoCall
<1>5. ~Forsaking /\ ~Aside
  BY DEF Forsaking, Aside, NoCall
<1>6. PICK d \in Callers, ttl \in LeaseTTLs : \E i : RenewBegin(d, i, ttl)
  BY <1>0, <1>2, <1>3, <1>4, <1>5 DEF StoreStep, Calling
<1>7. PICK i : RenewBegin(d, i, ttl)
  BY <1>6
<1>8. call'[c] = [kind |-> "renew", attempt |-> i, expires |-> now + ttl]
  BY <1>1, <1>7 DEF RenewBegin, Begin
<1>9. call'[c].attempt = i /\ call'[c].expires = now + ttl
  BY <1>8
<1> QED BY <1>7, <1>9 DEF RenewBegin, storeVars

LEMMA ForwardStep ==
  ASSUME StoreInv, TurnInv, [Next]_vars
  PROVE  LeasesMoveForward
<1>1. SUFFICES ASSUME NEW i \in 1..started PROVE attempt'[i].expires >= attempt[i].expires
  BY DEF LeasesMoveForward
<1>2. attempt[i].expires \in Nat
  BY StartedRows DEF StoreInv, RowTypes, Attempts
<1>3. CASE attempt'[i].expires = attempt[i].expires
  BY <1>2, <1>3
<1>4. CASE attempt'[i].expires # attempt[i].expires
  <2>1. PICK c \in Callers : /\ call[c].kind = "renew" /\ call[c].attempt = i /\ Active(i)
                             /\ attempt'[i].expires = call[c].expires
    BY <1>4, LeasesMoved
  <2>2. call[c].expires > attempt[i].expires /\ call[c].expires \in Nat
    BY <2>1 DEF TurnInv, RenewalsInTurn, StoreInv, RowTypes, CallTypes
  <2> QED BY <1>2, <2>1, <2>2
<1> QED BY <1>3, <1>4

LEMMA TurnsKept ==
  ASSUME StoreInv, RunsInv, BeatsInv, LeaseInv, TurnInv, OnlyRunnersCall, [Next]_vars
  PROVE  TurnInv'
<1>1. AttemptsApart' /\ NoClients'
  BY AttemptsApartKept, NoClientsKept DEF TurnInv
<1>2. RenewalsInTurn'
  <2>1. SUFFICES ASSUME NEW c \in Callers, call'[c].kind = "renew",
                        attempt'[call'[c].attempt].state = "active"
                 PROVE  call'[c].expires > attempt'[call'[c].attempt].expires
    BY DEF RenewalsInTurn, Active
  <2>2. PICK i : i = call'[c].attempt
    OBVIOUS
  <2>3. LeaseSteps
    BY LeaseStepsOfTheStore DEF LeaseInv
  <2>4. i \in 1..started
    BY <2>1, <2>2, <2>3 DEF LeaseSteps, CallStep
  <2>5. attempt'[i].state = "active"
    BY <2>1, <2>2 DEF Active
  <2>6. Active(i)
    BY <2>3, <2>4, <2>5 DEF LeaseSteps, LeaseStep, Active
  <2>7. CASE call'[c] # call[c]
    BY <2>1, <2>7, NewRenewals
  <2>8. CASE call'[c] = call[c]
    <3>1. call[c].expires > attempt[i].expires
      BY <2>1, <2>2, <2>6, <2>8 DEF TurnInv, RenewalsInTurn
    <3>2. attempt'[i].expires = attempt[i].expires
      <4>1. SUFFICES ASSUME attempt'[i].expires # attempt[i].expires PROVE FALSE
        OBVIOUS
      <4>2. PICK d \in Callers : /\ call[d].kind = "renew" /\ call[d].attempt = i
                                 /\ call' = [call EXCEPT ![d] = NoCall]
        BY <2>4, <4>1, LeasesMoved
      <4>3. d = c
        BY <2>1, <2>2, <2>8, <4>2, RenewalsOfRunners
      <4>4. call'[c] = NoCall
        BY <4>2, <4>3 DEF StoreInv, RowTypes
      <4> QED BY <2>1, <4>4 DEF NoCall
    <3> QED BY <2>2, <2>8, <3>1, <3>2
  <2> QED BY <2>7, <2>8
<1> QED BY <1>1, <1>2 DEF TurnInv

\* A runner renews its own attempt, one renewal at a time, and has stopped before it takes
\* the next one: with no other clients the lease of an attempt only ever moves forward
\* (attemptRun.renew, attemptRun.commit).
THEOREM RunnersMoveLeasesForward ==
  OnlyRunnersCall => (Spec => [][LeasesMoveForward]_vars)
<1> SUFFICES ASSUME OnlyRunnersCall PROVE Spec => [][LeasesMoveForward]_vars
  OBVIOUS
<1> DEFINE IInv == StoreInv /\ RunsInv /\ BeatsInv /\ LeaseInv /\ TurnInv
<1>1. Init => IInv
  BY InitStore, InitRuns, InitBeats, InitLeases, InitTurns
<1>2. IInv /\ [Next]_vars => IInv' /\ LeasesMoveForward
  <2>1. SUFFICES ASSUME IInv, [Next]_vars PROVE IInv' /\ LeasesMoveForward
    OBVIOUS
  <2>2. LeasesMoveForward
    BY <2>1, ForwardStep
  <2>3. StoreInv' /\ RunsInv' /\ BeatsInv'
    BY <2>1, StoreKept, RunsKept, BeatsKept
  <2>4. LeaseInv' /\ TurnInv'
    BY <2>1, <2>2, LeasesKept, TurnsKept
  <2> QED BY <2>2, <2>3, <2>4
<1> HIDE DEF IInv
<1> QED BY <1>1, <1>2, PTL DEF Spec

\* Where only runners call the store, however they crash, stall, retry and take over from
\* one another, a job never has two live attempts (ClaimEvaluationJob).
THEOREM RunnersHaveOneLiveAttempt ==
  OnlyRunnersCall => (Spec => []OneLiveAttemptPerJob)
<1> SUFFICES ASSUME OnlyRunnersCall PROVE Spec => []OneLiveAttemptPerJob
  OBVIOUS
<1>1. Spec => [][LeasesMoveForward]_vars
  BY RunnersMoveLeasesForward
<1> QED BY <1>1, OneLiveAttemptUnlessOvertaken, PTL

-----------------------------------------------------------------------------
(* Pools *)

\* The attempts that hold a slot of a pool, or are about to have it back.
Holders(p) == {i \in 1..started : attempt[i].pool = p /\ Hold(i)}

\* A pool's clock is never ahead, and a pool that was not configured has no attempts.
PoolTypes ==
  /\ env \in Environments
  /\ configured \in [Pools -> Nat] /\ settledAt \in [Pools -> Nat]
  /\ \A p \in Pools : configured[p] <= Len(env.configs[p]) /\ settledAt[p] <= now
  /\ \A i \in 1..started : attempt[i].pool \in Pools /\ configured[attempt[i].pool] > 0
\* A lease that is being renewed outlasts the time its pool has settled to, unless that
\* was moved on with a new rate: an admission counts it.
RenewalsCounted ==
  \A i \in 1..started :
    Active(i) /\ Racing(i) /\ attempt[i].pool \in RatePools /\ ~RatedAnew(attempt[i].pool) =>
      attempt[i].expires > settledAt[attempt[i].pool]
WithinLimit(p) ==
  ~RatedAnew(p) /\ Holders(p) # {} => \E n \in 1..configured[p] : Cardinality(Holders(p)) <= env.configs[p][n].limit
PoolInv == PoolTypes /\ RenewalsCounted /\ \A p \in Pools : WithinLimit(p)

LEMMA InitPools == Init => PoolInv
<1> SUFFICES ASSUME Init PROVE PoolInv
  OBVIOUS
<1>1. started = 0 /\ now = 0 /\ env \in Environments
      /\ configured = [p \in Pools |-> 0] /\ settledAt = [p \in Pools |-> 0]
  BY DEF Init, JobsInit
<1>2. PoolTypes
  BY <1>1, EvaluationConstants DEF PoolTypes
<1> QED BY <1>1, <1>2 DEF PoolInv, RenewalsCounted, WithinLimit, Holders

\* Only an admission and a configuration settle a pool.
PoolStep ==
  /\ env' = env
  /\ \/ UNCHANGED <<configured, tokens, settledAt>>
     \/ \E c \in Callers : ClaimAdmitted(c)
     \/ \E p \in Pools : ConfigureEvaluationPool(p)

LEMMA StepsOfThePools ==
  ASSUME [Next]_vars
  PROVE  PoolStep
<1>1. ASSUME NEW c \in Callers, ClaimAdmitted(c) PROVE PoolStep
  BY <1>1 DEF PoolStep, ClaimAdmitted
<1>2. ASSUME UNCHANGED <<env, configured, tokens, settledAt>> PROVE PoolStep
  BY <1>2 DEF PoolStep
<1>3. ASSUME NEW r \in Runners, RunStep(r) PROVE PoolStep
  <2>1. CASE RunAdmitted(r)
    BY <1>1, <2>1, CallsApart DEF RunAdmitted
  <2>2. CASE ~RunAdmitted(r)
    BY <1>2, <1>3, <2>2 DEF RunStep, RunClaim, RunCancelled, RunRefused, Stage, Launch, ProcessExits,
                RunFinalize, RunRecorded, Cleanup, jobVars, storeVars, ClaimBegin, ClaimRefused,
                FinalizeBegin, FinalizeCommit
  <2> QED BY <2>1, <2>2
<1>4. ASSUME NEW r \in Runners, Lease(r) \/ FinalizeFails(r) \/ CancelRun(r) \/ Crash(r) PROVE PoolStep
  BY <1>2, <1>4 DEF Lease, RenewTick, RenewDone, LeaseLost, FinalizeFails, CancelRun, Crash, jobVars,
                    storeVars, FinalizeCommit, RenewBegin, RenewCommit
<1>5. CASE Api
  <2>1. PICK c \in ApiCallers : ApiCall(c) \/ ApiReturn(c)
    BY <1>5 DEF Api
  <2>2. CASE ClaimAdmitted(c)
    BY <1>1, <2>2 DEF ApiCallers
  <2>3. CASE ~ClaimAdmitted(c)
    BY <1>2, <2>1, <2>3 DEF ApiCall, ApiReturn, ClaimBegin, RenewBegin, FinalizeBegin, storeVars,
                ClaimRepeated, ClaimRefused, RenewCommit, FinalizeCommit
  <2> QED BY <2>2, <2>3
<1>6. CASE Operator
  BY <1>6 DEF PoolStep, Operator, Create, PauseEvaluationCampaign, ConfigureEvaluationPool
<1>7. CASE UNCHANGED vars \/ (Tick /\ UNCHANGED runVars) \/ (\E i \in processes : Review(i))
  BY <1>2, <1>7 DEF vars, Tick, Review, jobVars, storeVars
<1>8. CASE UNCHANGED vars
  BY <1>7, <1>8
<1> QED BY <1>3, <1>4, <1>5, <1>6, <1>7, <1>8 DEF Next

LEMMA HoldersAreFinite ==
  ASSUME StoreInv, NEW p
  PROVE  IsFiniteSet(Holders(p)) /\ Cardinality(Holders(p)) \in Nat
<1>0. started \in Int /\ 1 \in Int
  BY StartedRows
<1>1. IsFiniteSet(1..started)
  BY <1>0, FS_Interval
<1>2. Holders(p) \in SUBSET (1..started)
  BY DEF Holders
<1> QED BY <1>1, <1>2, FS_Subset, FS_CardinalityType

\* A pool that was within a limit still is when it has no more holders.
LEMMA FewerHolders ==
  ASSUME StoreInv, NEW p \in Pools, WithinLimit(p), PoolTypes, PoolTypes', env' = env,
         Holders(p)' \subseteq Holders(p), configured[p] <= configured'[p]
  PROVE  WithinLimit(p)'
<1>1. SUFFICES ASSUME ~RatedAnew(p)', Holders(p)' # {}
               PROVE  \E n \in 1..configured'[p] : Cardinality(Holders(p)') <= env.configs[p][n].limit
  BY DEF WithinLimit
<1>a. ~RatedAnew(p)
  BY <1>1 DEF RatedAnew, PoolTypes
<1>2. PICK n \in 1..configured[p] : Cardinality(Holders(p)) <= env.configs[p][n].limit
  BY <1>1, <1>a DEF WithinLimit
<1>3. n \in 1..configured'[p]
  BY DEF PoolTypes
<1>4. Cardinality(Holders(p)') <= Cardinality(Holders(p)) /\ Cardinality(Holders(p)') \in Nat
  BY HoldersAreFinite, FS_Subset, FS_CardinalityType
<1>5. env.configs[p][n].limit \in Nat
  BY EvaluationConstants DEF PoolTypes, ValidConfig
<1> QED BY <1>2, <1>3, <1>4, <1>5, HoldersAreFinite

\* What an admission to a pool reads and settles.
LEMMA Admission ==
  ASSUME StoreInv, FlightInv, PoolTypes, NEW c \in Callers, ClaimAdmitted(c)
  PROVE  \E p \in Pools, at \in Nat, s \in Nat, new \in AttemptIds :
           /\ p = PoolOf[call[c].job[2]] /\ at = call[c].at /\ at <= now
           /\ s = settledAt[p] /\ s <= now /\ Later(at, s) \in Nat /\ Later(at, s) <= now
           /\ PoolAdmits(p, at) /\ Debit(p, at)
           /\ new = started + 1 /\ started' = new /\ new \notin 1..started
           /\ 1..new = (1..started) \cup {new}
           /\ attempt'[new].pool = p /\ \A i \in 1..started : attempt'[i] = attempt[i]
           /\ UNCHANGED <<now, configured>>
<1> DEFINE p == PoolOf[call[c].job[2]]
           at == call[c].at
<1>1. call[c].job \in Jobs /\ started + 1 \in AttemptIds /\ started' = started + 1
  BY NewRow
<1>2. p \in Pools
  BY <1>1, EvaluationConstants DEF Jobs
<1>3. at \in Nat /\ at <= now /\ now \in Nat
  BY DEF ClaimAdmitted, FlightInv, StoreInv, RowTypes
<1>4. settledAt[p] \in Nat /\ settledAt[p] <= now
  BY <1>2 DEF PoolTypes
<1>5. PoolAdmits(p, at) /\ Debit(p, at) /\ UNCHANGED <<now, configured>>
  BY DEF ClaimAdmitted, Admissible
<1>6. started + 1 \notin 1..started /\ 1..(started + 1) = (1..started) \cup {started + 1}
  BY StartedRows
<1>7. attempt'[started + 1].pool = p /\ \A i \in 1..started : attempt'[i] = attempt[i]
  BY <1>1, <1>6, StartedRows DEF ClaimAdmitted, InsertAttempt, StoreInv, RowTypes
<1> HIDE DEF p, at
<1>8. Later(at, settledAt[p]) \in Nat /\ Later(at, settledAt[p]) <= now
  BY <1>3, <1>4 DEF Later
<1> QED BY <1>1, <1>2, <1>3, <1>4, <1>5, <1>6, <1>7, <1>8 DEF p, at

LEMMA PoolTypesKept ==
  ASSUME StoreInv, FlightInv, PoolTypes, LeaseSteps, StoreStep, PoolStep
  PROVE  PoolTypes'
<1>1. \A i \in 1..started : attempt'[i].pool = attempt[i].pool
  BY DEF LeaseSteps, LeaseStep
<1>2. now \in Nat /\ now <= now'
  BY DEF LeaseSteps, StoreInv, RowTypes
<1>3. CASE UNCHANGED <<configured, tokens, settledAt>> /\ \A c \in Callers : ~ClaimAdmitted(c)
  <2>1. UNCHANGED started
    BY <1>3, OnlyAdmissionsStart
  <2>2. \A p \in Pools : settledAt[p] <= now'
    BY <1>2 DEF LeaseSteps, PoolTypes
  <2> QED BY <1>1, <1>3, <2>1, <2>2 DEF PoolTypes, PoolStep
<1>4. ASSUME NEW c \in Callers, ClaimAdmitted(c) PROVE PoolTypes'
  <2>1. PICK p \in Pools, at \in Nat, s \in Nat, new \in AttemptIds :
          /\ s = settledAt[p] /\ Later(at, s) \in Nat /\ Later(at, s) <= now
          /\ PoolAdmits(p, at) /\ Debit(p, at)
          /\ started' = new /\ 1..new = (1..started) \cup {new}
          /\ attempt'[new].pool = p
          /\ UNCHANGED <<now, configured>>
    BY <1>4, Admission
  <2>2. settledAt' \in [Pools -> Nat] /\ \A q \in Pools : settledAt'[q] <= now
    BY <2>1 DEF Debit, PoolTypes
  <2>3. configured[p] > 0
    BY <2>1 DEF PoolAdmits
  <2>4. \A i \in 1..started' : attempt'[i].pool \in Pools /\ configured'[attempt'[i].pool] > 0
    BY <1>1, <2>1, <2>3 DEF PoolTypes
  <2> QED BY <2>1, <2>2, <2>4 DEF PoolTypes, PoolStep
<1>5. ASSUME NEW p \in Pools, ConfigureEvaluationPool(p) PROVE PoolTypes'
  <2>1. /\ UNCHANGED <<env, now, attempt, started>>
        /\ configured' = [configured EXCEPT ![p] = @ + 1]
        /\ configured[p] < Len(env.configs[p])
    BY <1>5 DEF ConfigureEvaluationPool
  <2>2. /\ env \in Environments /\ configured \in [Pools -> Nat] /\ settledAt \in [Pools -> Nat]
        /\ Len(env.configs[p]) \in Nat
    BY EvaluationConstants DEF PoolTypes
  <2>3. settledAt[p] \in Nat /\ settledAt[p] <= now /\ Later(now, settledAt[p]) = now
    BY <1>2 DEF PoolTypes, Later
  <2>4. settledAt' = settledAt \/ settledAt' = [settledAt EXCEPT ![p] = now]
    BY <1>5, <2>2, <2>3 DEF ConfigureEvaluationPool
  <2>5. settledAt' \in [Pools -> Nat] /\ \A q \in Pools : settledAt'[q] <= now
    <3>1. \A q \in Pools : settledAt[q] <= now
      BY DEF PoolTypes
    <3>2. settledAt'[p] <= now /\ \A q \in Pools \ {p} : settledAt'[q] = settledAt[q]
      BY <1>2, <2>2, <2>3, <2>4
    <3> QED BY <1>2, <2>2, <2>4, <3>1, <3>2
  <2>6. configured' \in [Pools -> Nat] /\ \A q \in Pools : configured'[q] <= Len(env.configs[q])
    BY <2>1, <2>2 DEF PoolTypes
  <2>7. \A i \in 1..started : attempt[i].pool \in Pools /\ configured'[attempt[i].pool] > 0
    BY <2>1, <2>2 DEF PoolTypes
  <2> QED BY <2>1, <2>2, <2>5, <2>6, <2>7 DEF PoolTypes
<1> QED BY <1>3, <1>4, <1>5 DEF PoolStep

\* Steps that settle no pool and start nothing.
LEMMA QuietStep ==
  ASSUME StoreInv, StoreInv', PoolInv, PoolTypes', LeaseSteps, LeasesMoveForward,
         UNCHANGED <<env, started, configured, settledAt>>
  PROVE  PoolInv'
<1>1. \A i \in 1..started : LeaseStep(i) /\ attempt'[i].pool = attempt[i].pool
  BY DEF LeaseSteps, LeaseStep
<1>2. now \in Nat /\ now <= now' /\ \A i \in 1..started : attempt[i].expires \in Nat /\ attempt'[i].expires \in Nat
  BY StartedRows DEF LeaseSteps, StoreInv, RowTypes, Attempts
<1>3. RenewalsCounted'
  <2>1. SUFFICES ASSUME NEW i \in 1..started, Active(i)', Racing(i)', attempt[i].pool \in RatePools,
                        ~RatedAnew(attempt[i].pool)
                 PROVE  attempt'[i].expires > settledAt[attempt[i].pool]
    BY <1>1 DEF RenewalsCounted, RatedAnew
  <2>2. PICK s \in Nat : s = settledAt[attempt[i].pool] /\ s <= now
    BY DEF PoolInv, PoolTypes
  <2>3. Active(i) /\ attempt'[i].expires >= attempt[i].expires
    BY <1>1, <2>1 DEF LeaseStep, LeasesMoveForward
  <2>4. CASE Racing(i)
    <3>1. attempt[i].expires > s
      BY <2>1, <2>2, <2>3, <2>4 DEF PoolInv, RenewalsCounted
    <3> QED BY <1>2, <2>2, <2>3, <3>1
  <2>5. CASE ~Racing(i)
    <3>1. ~(attempt[i].expires <= now)
      BY <1>1, <2>1, <2>5 DEF LeaseStep, LeaseExpired
    <3> QED BY <1>2, <2>2, <2>3, <3>1
  <2> QED BY <2>4, <2>5
<1>4. ASSUME NEW p \in Pools PROVE WithinLimit(p)'
  <2>1. Holders(p)' \subseteq Holders(p)
    BY <1>1, HoldsEnd DEF Holders
  <2>2. configured[p] <= configured'[p]
    BY DEF PoolInv, PoolTypes
  <2> QED BY <2>1, <2>2, FewerHolders DEF PoolInv
<1> QED BY <1>3, <1>4 DEF PoolInv

\* A pool is configured for the first time, or its slots are: nothing that runs is timed
\* anew.  Or its rate is set anew.
LEMMA ConfigurationStep ==
  ASSUME StoreInv, StoreInv', PoolInv, PoolTypes',
         NEW p \in Pools, ConfigureEvaluationPool(p)
  PROVE  PoolInv'
<1>1. /\ UNCHANGED <<env, now, attempt, started, call>>
      /\ configured' = [configured EXCEPT ![p] = @ + 1]
      /\ configured[p] < Len(env.configs[p])
  BY DEF ConfigureEvaluationPool
<1>2. /\ env \in Environments /\ configured \in [Pools -> Nat] /\ settledAt \in [Pools -> Nat]
      /\ now \in Nat /\ Len(env.configs[p]) \in Nat
  BY EvaluationConstants DEF PoolInv, PoolTypes, StoreInv, RowTypes
<1>3. configured'[p] = configured[p] + 1 /\ \A q \in Pools \ {p} : configured'[q] = configured[q]
  BY <1>1, <1>2
<1>4. /\ \A q \in Pools \ {p} : settledAt'[q] = settledAt[q]
      /\ p \notin RatePools => settledAt' = settledAt
  <2>1. settledAt' = settledAt \/ \E t : settledAt' = [settledAt EXCEPT ![p] = t]
    BY DEF ConfigureEvaluationPool
  <2>2. p \notin RatePools => settledAt' = settledAt
    BY DEF ConfigureEvaluationPool
  <2> QED BY <1>2, <2>1, <2>2
<1>5. p \in RatePools /\ ~RatedAnew(p)' => \A i \in 1..started : attempt[i].pool # p
  <2>1. ASSUME p \in RatePools, ~RatedAnew(p)' PROVE configured[p] = 0
    BY <1>2, <1>3, <2>1 DEF RatedAnew
  <2> QED BY <2>1 DEF PoolInv, PoolTypes
<1>a. \A q \in Pools : ~RatedAnew(q)' => ~RatedAnew(q)
  BY <1>2, <1>3 DEF RatedAnew
<1>6. RenewalsCounted'
  <2>1. \A i \in 1..started : attempt[i].pool \in RatePools /\ ~RatedAnew(attempt[i].pool)' =>
          /\ settledAt'[attempt[i].pool] = settledAt[attempt[i].pool]
          /\ ~RatedAnew(attempt[i].pool)
    <3>1. ASSUME NEW i \in 1..started, attempt[i].pool \in RatePools, ~RatedAnew(attempt[i].pool)'
          PROVE  /\ settledAt'[attempt[i].pool] = settledAt[attempt[i].pool]
                 /\ ~RatedAnew(attempt[i].pool)
      <4>1. attempt[i].pool \in Pools
        BY DEF PoolInv, PoolTypes
      <4>2. attempt[i].pool # p
        BY <1>1, <1>5, <3>1 DEF RatedAnew
      <4>3. ~RatedAnew(attempt[i].pool)
        BY <1>1, <1>3, <3>1, <4>1, <4>2 DEF RatedAnew
      <4> QED BY <1>4, <4>1, <4>2, <4>3
    <3> QED BY <3>1
  <2>2. \A i \in 1..started : Active(i)' /\ Racing(i)' => Active(i) /\ Racing(i)
    BY <1>1 DEF Active, Racing
  <2> QED BY <1>1, <2>1, <2>2 DEF PoolInv, RenewalsCounted, RatedAnew
<1>7. ASSUME NEW q \in Pools PROVE WithinLimit(q)'
  <2>1. Holders(q)' \subseteq Holders(q)
    BY <1>1 DEF Holders, Hold, Active, Racing, LeaseExpired
  <2>2. configured[q] <= configured'[q]
    BY <1>2, <1>3
  <2> QED BY <1>1, <2>1, <2>2, FewerHolders DEF PoolInv
<1> QED BY <1>6, <1>7 DEF PoolInv

\* A claim that is admitted has counted every holder of its pool, and finds one slot free.
LEMMA AdmissionStep ==
  ASSUME StoreInv, StoreInv', LeaseInv, PoolInv, PoolTypes', LeaseSteps, env' = env,
         NEW c \in Callers, ClaimAdmitted(c)
  PROVE  PoolInv'
<1>0. PICK p \in Pools, at \in Nat, s \in Nat, new \in AttemptIds :
        /\ p = PoolOf[call[c].job[2]] /\ at = call[c].at /\ at <= now
        /\ s = settledAt[p] /\ s <= now /\ Later(at, s) \in Nat /\ Later(at, s) <= now
        /\ PoolAdmits(p, at) /\ Debit(p, at)
        /\ new = started + 1 /\ started' = new /\ new \notin 1..started
        /\ 1..new = (1..started) \cup {new}
        /\ attempt'[new].pool = p /\ \A i \in 1..started : attempt'[i] = attempt[i]
        /\ UNCHANGED <<now, configured>>
  BY Admission DEF LeaseInv, PoolInv
<1>1. /\ started \in Nat /\ now \in Nat
      /\ settledAt \in [Pools -> Nat] /\ configured \in [Pools -> Nat] /\ env \in Environments
  BY DEF StoreInv, RowTypes, PoolInv, PoolTypes
<1>2. attempt'[new].pool = p /\ started' = new /\ UNCHANGED <<now, configured>>
  BY <1>0
<1>3. 1..new = (1..started) \cup {new} /\ new \notin 1..started
  BY <1>0
<1>a. at <= now /\ s = settledAt[p] /\ s <= now
  BY <1>0
<1>4. \A i \in 1..started : LeaseStep(i) /\ attempt'[i].pool = attempt[i].pool
  BY DEF LeaseSteps, LeaseStep
<1>5. \A i \in 1..started : attempt[i].expires \in Nat /\ attempt'[i].expires \in Nat
  BY StartedRows DEF StoreInv, RowTypes, Attempts
<1>6. /\ p \in RatePools => settledAt' = [settledAt EXCEPT ![p] = Later(at, s)]
      /\ p \notin RatePools => settledAt' = settledAt
  BY <1>0 DEF Debit
<1>7. Later(at, s) \in Nat /\ Later(at, s) <= now /\ (Later(at, s) = at \/ Later(at, s) = s)
  BY <1>0 DEF Later
<1>8. PoolAdmits(p, at)
  BY <1>0
\* A renewal in flight is of a lease that lasts beyond the time the pool settles to.
<1>9. ASSUME NEW i \in 1..started, Active(i), Racing(i)
       PROVE  /\ attempt[i].expires > at
              /\ attempt[i].pool = p /\ p \in RatePools /\ ~RatedAnew(p) => attempt[i].expires > s
  <2>1. call[c].kind = "claim"
    BY DEF ClaimAdmitted
  <2>2. attempt[i].expires > at
    BY <1>0, <1>9, <2>1 DEF LeaseInv, RenewalsAhead
  <2> QED BY <1>0, <1>9, <2>2 DEF PoolInv, RenewalsCounted
<1>10. \A i \in 1..started : attempt'[i] = attempt[i] /\ (Racing(i)' => Racing(i))
  <2>1. \A i \in 1..started : attempt'[i] = attempt[i]
    BY <1>0
  <2>2. \A d \in Callers : call'[d] = call[d] \/ call'[d] = NoCall
    BY DEF ClaimAdmitted, Return, StoreInv, RowTypes
  <2> QED BY <2>1, <2>2 DEF Racing, NoCall
<1>11. RenewalsCounted'
  <2>1. SUFFICES ASSUME NEW i \in 1..started', Active(i)', Racing(i)', attempt'[i].pool \in RatePools,
                        ~RatedAnew(attempt[i].pool)'
                 PROVE  attempt'[i].expires > settledAt'[attempt'[i].pool]
    BY DEF RenewalsCounted
  <2>2. i \in 1..started
    BY <2>1, NewRowsAreNotRaced
  <2>3. Active(i) /\ Racing(i) /\ attempt'[i] = attempt[i]
    BY <1>10, <2>1, <2>2 DEF Active
  <2>a. ~RatedAnew(attempt[i].pool)
    BY <1>2, <2>1, <2>3 DEF RatedAnew
  <2>4. attempt[i].pool \in Pools /\ attempt[i].expires > settledAt[attempt[i].pool]
    BY <2>1, <2>2, <2>3, <2>a DEF PoolInv, PoolTypes, RenewalsCounted
  <2>5. CASE attempt[i].pool = p
    BY <1>1, <1>6, <1>7, <1>9, <2>1, <2>2, <2>3, <2>5, <2>a
  <2>6. CASE attempt[i].pool # p
    BY <1>1, <1>6, <2>3, <2>4, <2>6
  <2> QED BY <2>5, <2>6
<1>12. \A q \in Pools \ {p} : WithinLimit(q)'
  <2>1. ASSUME NEW q \in Pools \ {p} PROVE WithinLimit(q)'
    <3>1. Holders(q)' \subseteq Holders(q)
      BY <1>1, <1>2, <1>3, <1>4, HoldsEnd DEF Holders
    <3>2. configured[q] <= configured'[q]
      BY <1>1, <1>2
    <3> QED BY <3>1, <3>2, FewerHolders DEF PoolInv
  <2> QED BY <2>1
<1>13. ASSUME ~RatedAnew(p)' PROVE WithinLimit(p)'
  <2>0. ~RatedAnew(p)
    BY <1>2, <1>13 DEF RatedAnew
  <2> DEFINE counted == {i \in 1..started :
                           attempt[i].pool = p /\ Active(i) /\ ~LeaseExpired(i, PoolTime(p, at))}
             n == configured[p]
             limit == env.configs[p][n].limit
  <2>1. Holders(p) \subseteq counted
    <3>1. SUFFICES ASSUME NEW i \in Holders(p) PROVE ~LeaseExpired(i, PoolTime(p, at))
      BY DEF Holders, Hold
    <3>2. i \in 1..started /\ attempt[i].pool = p /\ Active(i)
      BY <3>1 DEF Holders, Hold
    <3>3. PoolTime(p, at) = IF p \in RatePools THEN Later(at, s) ELSE at
      BY <1>0 DEF PoolTime
    <3>4. CASE Racing(i)
      BY <1>a, <1>5, <1>7, <1>9, <2>0, <3>2, <3>3, <3>4 DEF LeaseExpired
    <3>5. CASE ~Racing(i)
      <4>1. ~(attempt[i].expires <= now)
        BY <3>1, <3>5 DEF Holders, Hold, LeaseExpired
      <4> QED BY <1>a, <1>1, <1>5, <1>7, <3>2, <3>3, <4>1 DEF LeaseExpired
    <3> QED BY <3>4, <3>5
  <2>2. IsFiniteSet(counted) /\ Cardinality(counted) \in Nat
    <3>1. started \in Int /\ 1 \in Int
      BY <1>1
    <3>2. IsFiniteSet(1..started)
      BY <3>1, FS_Interval
    <3>3. counted \in SUBSET (1..started)
      OBVIOUS
    <3> QED BY <3>2, <3>3, FS_Subset, FS_CardinalityType
  <2>3. Cardinality(counted) < limit
    BY <1>8 DEF PoolAdmits, Occupancy, Config
  <2>4. n \in 1..configured'[p] /\ limit \in Nat
    <3>1. n \in Nat /\ n > 0 /\ n <= Len(env.configs[p])
      BY <1>1, <1>2, <1>8 DEF PoolAdmits, PoolInv, PoolTypes
    <3>2. n \in DOMAIN env.configs[p]
      BY <1>1, <3>1, EvaluationConstants
    <3> QED BY <1>1, <1>2, <3>1, <3>2, EvaluationConstants DEF ValidConfig
  <2>5. Holders(p)' \subseteq counted \cup {new}
    BY <1>2, <1>3, <1>4, <2>1, HoldsEnd DEF Holders
  <2> HIDE DEF counted, n, limit
  <2>6. IsFiniteSet(counted \cup {new}) /\ Cardinality(counted \cup {new}) <= Cardinality(counted) + 1
    <3>1. /\ IsFiniteSet(counted \cup {new})
          /\ \/ Cardinality(counted \cup {new}) = Cardinality(counted)
             \/ Cardinality(counted \cup {new}) = Cardinality(counted) + 1
      BY <2>2, FS_AddElement, Zenon
    <3> QED BY <2>2, <3>1
  <2>7. Cardinality(Holders(p)') <= Cardinality(counted \cup {new}) /\ Cardinality(Holders(p)') \in Nat
        /\ Cardinality(counted \cup {new}) \in Nat
    BY <2>5, <2>6, FS_Subset, FS_CardinalityType
  <2>8. Cardinality(Holders(p)') <= limit
    BY <2>2, <2>3, <2>4, <2>6, <2>7
  <2> QED BY <2>4, <2>8 DEF WithinLimit, limit
<1>14. WithinLimit(p)'
  BY <1>13 DEF WithinLimit
<1> QED BY <1>11, <1>12, <1>14 DEF PoolInv

LEMMA PoolsKept ==
  ASSUME StoreInv, RunsInv, BeatsInv, LeaseInv, PoolInv,
         [Next]_vars, LeasesMoveForward
  PROVE  PoolInv'
<1>0. StoreInv' /\ LeaseSteps /\ PoolStep /\ StoreStep
  BY StoreKept, LeaseStepsOfTheStore, StepsOfThePools, StepsOfTheStore DEF LeaseInv, StoreInv, RowTypes
<1>1. StoreInv' /\ LeaseSteps /\ PoolStep /\ StoreStep /\ PoolTypes'
  BY <1>0, PoolTypesKept DEF LeaseInv, PoolInv
<1>2. ASSUME NEW c \in Callers, ClaimAdmitted(c) PROVE PoolInv'
  BY <1>1, <1>2, AdmissionStep DEF PoolStep
<1>3. ASSUME NEW p \in Pools, ConfigureEvaluationPool(p) PROVE PoolInv'
  BY <1>1, <1>3, ConfigurationStep
<1>4. ASSUME \A c \in Callers : ~ClaimAdmitted(c), UNCHANGED <<env, configured, tokens, settledAt>>
      PROVE  PoolInv'
  <2>1. UNCHANGED started
    BY <1>1, <1>4, OnlyAdmissionsStart
  <2> QED BY <1>1, <1>4, <2>1, QuietStep
<1> QED BY <1>1, <1>2, <1>3, <1>4 DEF PoolStep

LEMMA HoldersBoundTheLive == StoreInv /\ PoolInv => PoolsKeepTheirLimit
<1> SUFFICES ASSUME StoreInv, PoolInv, NEW p \in Pools, ~RatedAnew(p), LiveIn(p) # {}
             PROVE  \E n \in 1..configured[p] : Cardinality(LiveIn(p)) <= env.configs[p][n].limit
  BY DEF PoolsKeepTheirLimit
<1>1. LiveIn(p) \subseteq Holders(p)
  BY DEF LiveIn, Holders, Hold, Live
<1>2. PICK n \in 1..configured[p] : Cardinality(Holders(p)) <= env.configs[p][n].limit
  BY <1>1 DEF PoolInv, WithinLimit
<1>3. env.configs[p][n].limit \in Nat
  BY EvaluationConstants DEF PoolInv, PoolTypes, ValidConfig
<1>4. Cardinality(LiveIn(p)) <= Cardinality(Holders(p)) /\ Cardinality(LiveIn(p)) \in Nat
      /\ Cardinality(Holders(p)) \in Nat
  BY <1>1, HoldersAreFinite, FS_Subset, FS_CardinalityType
<1> QED BY <1>2, <1>3, <1>4

\* The live attempts of a pool stay within the largest limit it has had, though a claim
\* counts them as of the time it began at, as long as no renewal is overtaken by a later
\* one (admitEvaluationStart, ConfigureEvaluationPool); a pool whose rate was set anew is
\* excepted.
THEOREM PoolsKeepTheirLimitUnlessOvertaken ==
  Spec /\ [][LeasesMoveForward]_vars => []PoolsKeepTheirLimit
<1> DEFINE IInv == StoreInv /\ RunsInv /\ BeatsInv /\ LeaseInv /\ PoolInv
<1>1. Init => IInv
  BY InitStore, InitRuns, InitBeats, InitLeases, InitPools
<1>2. IInv /\ [Next]_vars /\ [LeasesMoveForward]_vars => IInv'
  <2>1. SUFFICES ASSUME IInv, [Next]_vars, [LeasesMoveForward]_vars PROVE IInv'
    OBVIOUS
  <2>2. StoreInv' /\ RunsInv' /\ BeatsInv'
    BY <2>1, StoreKept, RunsKept, BeatsKept
  <2>3. LeasesMoveForward
    BY <2>1, ForwardOrStill
  <2>4. LeaseInv' /\ PoolInv'
    BY <2>1, <2>3, LeasesKept, PoolsKept
  <2> QED BY <2>2, <2>4
<1>3. IInv => PoolsKeepTheirLimit
  BY HoldersBoundTheLive
<1> HIDE DEF IInv
<1> QED BY <1>1, <1>2, <1>3, PTL DEF Spec

\* Where only runners call the store, a pool of slots, or one whose rate was set once, never
\* has more live attempts than the largest limit it has had (admitEvaluationStart).
THEOREM RunnersStayWithinLimits ==
  OnlyRunnersCall => (Spec => []PoolsKeepTheirLimit)
<1> SUFFICES ASSUME OnlyRunnersCall PROVE Spec => []PoolsKeepTheirLimit
  OBVIOUS
<1>1. Spec => [][LeasesMoveForward]_vars
  BY RunnersMoveLeasesForward
<1> QED BY <1>1, PoolsKeepTheirLimitUnlessOvertaken, PTL

-----------------------------------------------------------------------------
(* Starts of a pool *)

StartsOf(p) == {i \in 1..started : attempt[i].pool = p}
\* A rate that no configuration of a pool has exceeded.
Fastest(p, rate) == \A n \in 1..configured[p] : env.configs[p][n].rate <= rate
\* What a pool has been given up to a time: its first burst, and its rate since.
Given(p, rate, time) == StartCost * env.configs[p][1].burst + rate * time

\* The starts of a pool never cost more than its first burst and its fastest rate up to
\* now, whoever starts them and however often the pool is configured.
StartsAreEarned ==
  \A p \in RatePools : configured[p] > 0 =>
    \A rate \in Nat : Fastest(p, rate) =>
      StartCost * Cardinality(StartsOf(p)) <= Given(p, rate, now)
\* What is left counts as well, and time counts up to the mark.
Books(p) ==
  configured[p] > 0 =>
    \A rate \in Nat : Fastest(p, rate) =>
      StartCost * Cardinality(StartsOf(p)) + tokens[p] <= Given(p, rate, settledAt[p])
BooksInv == tokens \in [Pools -> Nat] /\ \A p \in RatePools : Books(p)

LEMMA InitBooks == Init => BooksInv
<1> SUFFICES ASSUME Init PROVE BooksInv
  OBVIOUS
<1>1. tokens = [p \in Pools |-> 0] /\ configured = [p \in Pools |-> 0]
  BY DEF Init, JobsInit
<1>2. \A p \in RatePools : configured[p] = 0
  BY <1>1, EvaluationConstants
<1> QED BY <1>1, <1>2 DEF BooksInv, Books

\* Time that is credited at one rate is within what a faster one gives.
LEMMA Credited ==
  ASSUME NEW spent \in Nat, NEW left \in Nat, NEW more \in Nat, NEW given \in Nat,
         NEW r \in Nat, NEW rate \in Nat, r <= rate,
         NEW mark \in Nat, NEW time \in Nat, mark <= time,
         spent + left <= given + rate * mark, more <= left + r * (time - mark)
  PROVE  spent + more <= given + rate * time
<1>1. PICK d \in Nat : time = mark + d /\ time - mark = d
  OBVIOUS
<1>2. r * d <= rate * d /\ r * d \in Nat /\ rate * d \in Nat /\ rate * mark \in Nat
  <2>1. PICK e \in Nat : rate = r + e
    <3>1. rate - r \in Nat /\ rate = r + (rate - r)
      OBVIOUS
    <3> QED BY <3>1
  <2>2. rate * d = r * d + e * d /\ r * d \in Nat /\ e * d \in Nat
    BY <2>1
  <2> QED BY <2>2
<1>3. rate * time = rate * mark + rate * d
  BY <1>1
<1> QED BY <1>1, <1>2, <1>3

\* Settling never credits more than the rate for the time past the mark.
LEMMA Settling ==
  ASSUME PoolTypes, tokens \in [Pools -> Nat], NEW p \in RatePools, configured[p] > 0, NEW time \in Nat
  PROVE  /\ Allowance(p, time) \in Nat
         /\ Later(time, settledAt[p]) \in Nat /\ settledAt[p] <= Later(time, settledAt[p])
         /\ Allowance(p, time) <= tokens[p] + Config(p).rate * (Later(time, settledAt[p]) - settledAt[p])
         /\ Config(p).rate \in Nat /\ Config(p).burst \in Nat
         /\ \A rate \in Nat : Fastest(p, rate) => Config(p).rate <= rate
<1>0. p \in Pools
  BY EvaluationConstants
<1>1. configured[p] \in Nat /\ configured[p] <= Len(env.configs[p]) /\ env \in Environments
  BY <1>0 DEF PoolTypes
<1>2. configured[p] \in 1..configured[p] /\ configured[p] \in DOMAIN env.configs[p]
  BY <1>0, <1>1, EvaluationConstants
<1>3. Config(p).rate \in Nat /\ Config(p).burst \in Nat
  BY <1>0, <1>1, <1>2, EvaluationConstants DEF Config, ValidConfig
<1>4. PICK mark \in Nat, left \in Nat, r \in Nat, b \in Nat :
        mark = settledAt[p] /\ left = tokens[p] /\ r = Config(p).rate /\ b = Config(p).burst
  BY <1>0, <1>3 DEF PoolTypes
<1>5. b * StartCost \in Nat
  BY StartCostAssumption
<1>6. Later(time, mark) \in Nat /\ mark <= Later(time, mark)
  BY DEF Later
<1>7. r * (Later(time, mark) - mark) \in Nat
  BY <1>6
<1>8. Allowance(p, time) = IF time > mark THEN Lesser(b * StartCost, left + r * (Later(time, mark) - mark))
                           ELSE left
  BY <1>4 DEF Allowance, Refilled, Later
<1>9. Allowance(p, time) \in Nat /\ Allowance(p, time) <= left + r * (Later(time, mark) - mark)
  BY <1>5, <1>7, <1>8 DEF Lesser
<1> QED BY <1>2, <1>3, <1>4, <1>6, <1>9 DEF Fastest, Config

LEMMA StartsAreFinite ==
  ASSUME StoreInv, NEW p
  PROVE  IsFiniteSet(StartsOf(p)) /\ Cardinality(StartsOf(p)) \in Nat
<1>0. started \in Int /\ 1 \in Int
  BY StartedRows
<1>1. IsFiniteSet(1..started)
  BY <1>0, FS_Interval
<1>2. StartsOf(p) \in SUBSET (1..started)
  BY DEF StartsOf
<1> QED BY <1>1, <1>2, FS_Subset, FS_CardinalityType

\* The books of a pool that is settled at its rate and given no start.
LEMMA BooksSettled ==
  ASSUME StoreInv, PoolTypes, BooksInv, NEW p \in RatePools, configured[p] > 0, NEW time \in Nat,
         NEW rate \in Nat, Fastest(p, rate)
  PROVE  /\ StartCost * Cardinality(StartsOf(p)) + Allowance(p, time)
              <= Given(p, rate, Later(time, settledAt[p]))
         /\ StartCost * Cardinality(StartsOf(p)) \in Nat
<1>0. p \in Pools
  BY EvaluationConstants
<1>1. PICK spent \in Nat : spent = StartCost * Cardinality(StartsOf(p))
  <2>1. Cardinality(StartsOf(p)) \in Nat
    BY StartsAreFinite
  <2>2. StartCost * Cardinality(StartsOf(p)) \in Nat
    BY <2>1, StartCostAssumption
  <2> QED BY <2>2
<1>2. PICK given \in Nat : given = StartCost * env.configs[p][1].burst
  <2>1. 1 \in DOMAIN env.configs[p]
    BY <1>0, EvaluationConstants DEF PoolTypes
  <2>2. env.configs[p][1].burst \in Nat
    BY <1>0, <2>1, EvaluationConstants DEF PoolTypes, ValidConfig
  <2>3. StartCost * env.configs[p][1].burst \in Nat
    BY <2>2, StartCostAssumption
  <2> QED BY <2>3
<1>3. PICK left \in Nat, mark \in Nat, r \in Nat, to \in Nat, more \in Nat :
        /\ left = tokens[p] /\ mark = settledAt[p] /\ r = Config(p).rate
        /\ to = Later(time, settledAt[p]) /\ more = Allowance(p, time)
        /\ mark <= to /\ r <= rate /\ more <= left + r * (to - mark)
  BY <1>0, Settling DEF PoolTypes, BooksInv
<1>4. spent + left <= given + rate * mark
  BY <1>1, <1>2, <1>3 DEF BooksInv, Books, Given
<1>5. spent + more <= given + rate * to
  BY <1>3, <1>4, Credited
<1> QED BY <1>1, <1>2, <1>3, <1>5 DEF Given

LEMMA BooksAside ==
  ASSUME NEW p, Books(p), env' = env, configured'[p] = configured[p], tokens'[p] = tokens[p],
         settledAt'[p] = settledAt[p], StartsOf(p)' = StartsOf(p)
  PROVE  Books(p)'
BY DEF Books, Fastest, Given

\* A start is paid for with what the pool has earned.
LEMMA BooksOfAdmissions ==
  ASSUME StoreInv, FlightInv, PoolTypes, BooksInv, LeaseSteps, env' = env,
         NEW c \in Callers, ClaimAdmitted(c)
  PROVE  BooksInv'
<1>0. PICK p \in Pools, at \in Nat, s \in Nat, new \in AttemptIds :
        /\ s = settledAt[p]
        /\ PoolAdmits(p, at) /\ Debit(p, at)
        /\ new = started + 1 /\ started' = new /\ new \notin 1..started
        /\ 1..new = (1..started) \cup {new}
        /\ attempt'[new].pool = p /\ \A i \in 1..started : attempt'[i] = attempt[i]
        /\ UNCHANGED <<now, configured>>
  BY Admission
<1>1. /\ tokens \in [Pools -> Nat] /\ settledAt \in [Pools -> Nat] /\ configured \in [Pools -> Nat]
  BY DEF PoolTypes, BooksInv
<1>2. \A q \in Pools : StartsOf(q)' = IF q = p THEN StartsOf(q) \cup {new} ELSE StartsOf(q)
  BY <1>0 DEF StartsOf
<1>3. configured[p] > 0 /\ configured' = configured
  BY <1>0 DEF PoolAdmits
<1>4. CASE p \notin RatePools
  <2>1. tokens' = tokens /\ settledAt' = settledAt
    BY <1>0, <1>4 DEF Debit
  <2>2. ASSUME NEW q \in RatePools PROVE Books(q)'
    <3>1. q \in Pools /\ q # p
      BY <1>4, EvaluationConstants
    <3>2. StartsOf(q)' = StartsOf(q) /\ Books(q)
      BY <1>2, <3>1 DEF BooksInv
    <3> QED BY <1>3, <2>1, <3>2, BooksAside
  <2> QED BY <1>1, <2>1, <2>2 DEF BooksInv
<1>5. CASE p \in RatePools
  <2>1. PICK to \in Nat, allowance \in Nat :
          to = Later(at, settledAt[p]) /\ allowance = Allowance(p, at)
    BY <1>3, <1>5, Settling DEF BooksInv
  <2>2. /\ allowance >= StartCost
        /\ tokens' = [tokens EXCEPT ![p] = allowance - StartCost]
        /\ settledAt' = [settledAt EXCEPT ![p] = to]
    BY <1>0, <1>5, <2>1 DEF PoolAdmits, Debit
  <2>3. PICK cost \in Nat : cost = StartCost
    BY StartCostAssumption
  <2>4. tokens' \in [Pools -> Nat] /\ tokens'[p] = allowance - cost /\ settledAt'[p] = to
    BY <1>1, <2>2, <2>3
  <2>5. ASSUME NEW rate \in Nat, Fastest(p, rate)'
        PROVE  StartCost * Cardinality(StartsOf(p)') + tokens'[p] <= Given(p, rate, settledAt'[p])
    <3>1. Fastest(p, rate)
      BY <1>3, <2>5 DEF Fastest
    <3>2. /\ StartCost * Cardinality(StartsOf(p)) + allowance <= Given(p, rate, to)
          /\ StartCost * Cardinality(StartsOf(p)) \in Nat
      BY <1>3, <1>5, <2>1, <3>1, BooksSettled
    <3>3. PICK n \in Nat : n = Cardinality(StartsOf(p))
      BY StartsAreFinite
    <3>4. Cardinality(StartsOf(p)') = n + 1
      <4>1. new \notin StartsOf(p)
        BY <1>0 DEF StartsOf
      <4>2. StartsOf(p)' = StartsOf(p) \cup {new}
        BY <1>2
      <4> QED BY <3>3, <4>1, <4>2, StartsAreFinite, FS_AddElement
    <3>5. cost * (n + 1) + (allowance - cost) = cost * n + allowance
      <4>1. cost * (n + 1) = cost * n + cost /\ cost * n \in Nat
        OBVIOUS
      <4> QED BY <4>1
    <3> QED BY <2>3, <2>4, <3>2, <3>3, <3>4, <3>5
  <2>6. Books(p)'
    <3>1. \A rate : Given(p, rate, settledAt'[p]) = StartCost * env.configs[p][1].burst + rate * settledAt'[p]
      BY DEF Given
    <3> QED BY <2>5, <3>1 DEF Books, Given
  <2>7. ASSUME NEW q \in RatePools, q # p PROVE Books(q)'
    <3>1. q \in Pools
      BY EvaluationConstants
    <3>2. StartsOf(q)' = StartsOf(q) /\ Books(q) /\ tokens'[q] = tokens[q] /\ settledAt'[q] = settledAt[q]
      BY <1>1, <1>2, <2>2, <2>7, <3>1 DEF BooksInv
    <3> QED BY <1>3, <3>2, BooksAside
  <2> QED BY <2>4, <2>6, <2>7 DEF BooksInv
<1> QED BY <1>4, <1>5

\* A new pool starts with a full burst; one that is configured again gains nothing.
LEMMA BooksOfConfigurations ==
  ASSUME StoreInv, PoolTypes, BooksInv, NEW p \in Pools, ConfigureEvaluationPool(p)
  PROVE  BooksInv'
<1>1. /\ UNCHANGED <<env, now, attempt, started>>
      /\ configured' = [configured EXCEPT ![p] = @ + 1]
      /\ configured[p] < Len(env.configs[p])
  BY DEF ConfigureEvaluationPool
<1>2. /\ tokens \in [Pools -> Nat] /\ settledAt \in [Pools -> Nat] /\ configured \in [Pools -> Nat]
      /\ env \in Environments /\ Len(env.configs[p]) \in Nat /\ now \in Nat
  BY EvaluationConstants DEF PoolTypes, BooksInv, StoreInv, RowTypes
<1>3. configured'[p] = configured[p] + 1 /\ \A q \in Pools \ {p} : configured'[q] = configured[q]
  BY <1>1, <1>2
<1>4. \A q \in Pools : StartsOf(q)' = StartsOf(q)
  BY <1>1 DEF StartsOf
<1>5. CASE p \notin RatePools
  <2>1. tokens' = tokens /\ settledAt' = settledAt
    BY <1>5 DEF ConfigureEvaluationPool
  <2>2. ASSUME NEW q \in RatePools PROVE Books(q)'
    <3>1. q \in Pools /\ q # p /\ Books(q)
      BY <1>5, EvaluationConstants DEF BooksInv
    <3> QED BY <1>1, <1>3, <1>4, <2>1, <3>1, BooksAside
  <2> QED BY <1>2, <2>1, <2>2 DEF BooksInv
<1>6. CASE p \in RatePools
  <2> DEFINE full == env.configs[p][configured[p] + 1].burst * StartCost
  <2>1. /\ tokens' = [tokens EXCEPT ![p] = IF configured[p] = 0 THEN full ELSE Lesser(Allowance(p, now), full)]
        /\ settledAt' = [settledAt EXCEPT ![p] = IF configured[p] = 0 THEN now ELSE Later(now, @)]
    BY <1>6 DEF ConfigureEvaluationPool
  <2>2. full \in Nat
    <3>1. configured[p] + 1 \in DOMAIN env.configs[p]
      BY <1>1, <1>2, EvaluationConstants
    <3>2. env.configs[p][configured[p] + 1].burst \in Nat
      BY <1>2, <1>6, <3>1, EvaluationConstants DEF ValidConfig
    <3> QED BY <3>2, StartCostAssumption
  <2> HIDE DEF full
  <2>3. ASSUME NEW q \in RatePools, q # p PROVE Books(q)'
    <3>1. q \in Pools
      BY EvaluationConstants
    <3>2. Books(q) /\ tokens'[q] = tokens[q] /\ settledAt'[q] = settledAt[q]
      BY <1>2, <2>1, <2>3, <3>1 DEF BooksInv
    <3> QED BY <1>1, <1>3, <1>4, <2>3, <3>1, <3>2, BooksAside
  <2>4. CASE configured[p] = 0
    <3>1. tokens'[p] = full /\ settledAt'[p] = now /\ tokens' \in [Pools -> Nat]
      BY <1>2, <2>1, <2>2, <2>4
    <3>2. Cardinality(StartsOf(p)') = 0
      <4>1. StartsOf(p) = {}
        BY <2>4 DEF StartsOf, PoolTypes
      <4> QED BY <1>4, <4>1, FS_EmptySet
    <3>3. \A rate \in Nat : StartCost * 0 + full <= Given(p, rate, now)
      <4>1. full = StartCost * env.configs[p][1].burst
        <5>1. PICK b \in Nat : b = env.configs[p][1].burst
          <6>1. 1 \in DOMAIN env.configs[p]
            BY <1>1, <1>2, <2>4, EvaluationConstants
          <6> QED BY <1>2, <1>6, <6>1, EvaluationConstants DEF ValidConfig
        <5>2. configured[p] + 1 = 1
          BY <2>4
        <5>3. full = b * StartCost
          BY <5>1, <5>2 DEF full
        <5> QED BY <5>1, <5>3, StartCostAssumption
      <4>2. ASSUME NEW rate \in Nat PROVE StartCost * 0 + full <= full + rate * now
        <5>1. rate * now \in Nat /\ StartCost * 0 = 0
          BY <1>2, StartCostAssumption
        <5> QED BY <2>2, <5>1
      <4> QED BY <4>1, <4>2 DEF Given
    <3>4. Books(p)'
      BY <1>1, <3>1, <3>2, <3>3 DEF Books, Given
    <3> QED BY <2>3, <3>1, <3>4 DEF BooksInv
  <2>5. CASE configured[p] # 0
    <3>0. configured[p] > 0
      BY <1>2, <2>5
    <3>1. PICK to \in Nat, allowance \in Nat, left \in Nat :
            /\ to = Later(now, settledAt[p]) /\ allowance = Allowance(p, now)
            /\ left = Lesser(allowance, full) /\ left <= allowance
      <4>1. Later(now, settledAt[p]) \in Nat /\ Allowance(p, now) \in Nat
        BY <1>2, <1>6, <3>0, Settling
      <4>2. Lesser(Allowance(p, now), full) \in Nat /\ Lesser(Allowance(p, now), full) <= Allowance(p, now)
        BY <2>2, <4>1 DEF Lesser
      <4> QED BY <4>1, <4>2
    <3>2. tokens'[p] = left /\ settledAt'[p] = to /\ tokens' \in [Pools -> Nat]
      BY <1>2, <2>1, <2>5, <3>1
    <3>3. ASSUME NEW rate \in Nat, Fastest(p, rate)'
          PROVE  StartCost * Cardinality(StartsOf(p)) + left <= Given(p, rate, to)
      <4>1. Fastest(p, rate)
        BY <1>1, <1>2, <1>3, <3>3 DEF Fastest
      <4>2. PICK spent \in Nat : /\ spent = StartCost * Cardinality(StartsOf(p))
                                 /\ spent + allowance <= Given(p, rate, to)
        BY <1>2, <1>6, <3>0, <3>1, <4>1, BooksSettled
      <4>3. Given(p, rate, to) \in Nat
        <5>1. env.configs[p][1].burst \in Nat
          <6>1. 1 \in DOMAIN env.configs[p]
            BY <1>1, <1>2, EvaluationConstants
          <6> QED BY <1>2, <1>6, <6>1, EvaluationConstants DEF ValidConfig
        <5>2. StartCost * env.configs[p][1].burst \in Nat /\ rate * to \in Nat
          BY <5>1, StartCostAssumption
        <5> QED BY <5>2 DEF Given
      <4> QED BY <3>1, <4>2, <4>3
    <3>4. Books(p)'
      BY <1>1, <1>4, <3>2, <3>3 DEF Books, Given
    <3> QED BY <2>3, <3>2, <3>4 DEF BooksInv
  <2> QED BY <2>4, <2>5
<1> QED BY <1>5, <1>6

LEMMA BooksKept ==
  ASSUME StoreInv, FlightInv, PoolTypes, BooksInv, LeaseSteps, StoreStep, PoolStep
  PROVE  BooksInv'
<1>1. CASE UNCHANGED <<configured, tokens, settledAt>> /\ \A c \in Callers : ~ClaimAdmitted(c)
  <2>1. UNCHANGED started /\ env' = env
    BY <1>1, OnlyAdmissionsStart DEF PoolStep
  <2>2. \A p \in RatePools : StartsOf(p)' = StartsOf(p)
    BY <2>1 DEF StartsOf, LeaseSteps, LeaseStep
  <2>3. \A p \in RatePools : Books(p)'
    BY <1>1, <2>1, <2>2, BooksAside DEF BooksInv
  <2> QED BY <1>1, <2>3 DEF BooksInv
<1>2. ASSUME NEW c \in Callers, ClaimAdmitted(c) PROVE BooksInv'
  BY <1>2, BooksOfAdmissions DEF PoolStep
<1>3. ASSUME NEW p \in Pools, ConfigureEvaluationPool(p) PROVE BooksInv'
  BY <1>3, BooksOfConfigurations
<1> QED BY <1>1, <1>2, <1>3 DEF PoolStep

\* Runners and clients of one pool never start more than its first burst and its fastest
\* rate up to now pay for, whatever renewals overlap, claims are admitted late and
\* operators set anew (admitEvaluationStart, ConfigureEvaluationPool).
THEOREM StartsAreEarnedAlways == Spec => []StartsAreEarned
<1> DEFINE IInv == StoreInv /\ RunsInv /\ BeatsInv /\ FlightInv /\ PoolTypes /\ BooksInv
<1>1. Init => IInv
  BY InitStore, InitRuns, InitBeats, InitLeases, InitPools, InitBooks DEF LeaseInv, PoolInv
<1>2. IInv /\ [Next]_vars => IInv'
  <2>1. SUFFICES ASSUME IInv, [Next]_vars PROVE IInv'
    OBVIOUS
  <2>2. StoreInv' /\ RunsInv' /\ BeatsInv'
    BY <2>1, StoreKept, RunsKept, BeatsKept
  <2>3. StoreStep /\ LeaseSteps /\ PoolStep
    BY <2>1, StepsOfTheStore, LeaseStepsOfTheStore, StepsOfThePools DEF StoreInv, RowTypes
  <2>4. FlightInv' /\ PoolTypes' /\ BooksInv'
    BY <2>1, <2>3, FlightKept, PoolTypesKept, BooksKept
  <2> QED BY <2>2, <2>4
<1>3. IInv => StartsAreEarned
  <2> SUFFICES ASSUME StoreInv, PoolTypes, BooksInv, NEW p \in RatePools, configured[p] > 0,
                      NEW rate \in Nat, Fastest(p, rate)
               PROVE  StartCost * Cardinality(StartsOf(p)) <= Given(p, rate, now)
    BY DEF StartsAreEarned
  <2>1. PICK mark \in Nat, left \in Nat : mark = settledAt[p] /\ left = tokens[p] /\ mark <= now
    BY EvaluationConstants DEF PoolTypes, BooksInv
  <2>2. PICK spent \in Nat : spent = StartCost * Cardinality(StartsOf(p))
    <3>1. Cardinality(StartsOf(p)) \in Nat
      BY StartsAreFinite
    <3> QED BY <3>1, StartCostAssumption
  <2>3. PICK given \in Nat : given = StartCost * env.configs[p][1].burst
    <3>1. p \in Pools /\ 1 \in DOMAIN env.configs[p]
      BY EvaluationConstants DEF PoolTypes
    <3>2. env.configs[p][1].burst \in Nat
      BY <3>1, EvaluationConstants DEF PoolTypes, ValidConfig
    <3> QED BY <3>2, StartCostAssumption
  <2>4. now \in Nat /\ spent + left <= given + rate * mark
    BY <2>1, <2>2, <2>3 DEF BooksInv, Books, Given, StoreInv, RowTypes
  <2>5. rate * mark <= rate * now
    <3>1. PICK d \in Nat : now = mark + d
      <4>1. now - mark \in Nat /\ now = mark + (now - mark)
        BY <2>1, <2>4
      <4> QED BY <4>1
    <3>2. rate * d \in Nat
      OBVIOUS
    <3>3. rate * now = rate * mark + rate * d /\ rate * mark \in Nat
      BY <3>1
    <3> QED BY <3>2, <3>3
  <2>6. rate * mark \in Nat /\ rate * now \in Nat
    BY <2>4
  <2>7. spent <= given + rate * now
    BY <2>1, <2>2, <2>3, <2>4, <2>5, <2>6
  <2> QED BY <2>2, <2>3, <2>7 DEF Given
<1> HIDE DEF IInv
<1> QED BY <1>1, <1>2, <1>3, PTL DEF Spec
=============================================================================
