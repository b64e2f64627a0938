---------------------------- MODULE PermitsProofs ----------------------------
(***************************************************************************)
(* What holds of research admission for any policies, tasks, agents,       *)
(* requests and accounts, and any number of attempts and restarts.         *)
(***************************************************************************)
EXTENDS Permits, FiniteSetTheorems, TLAPS

-----------------------------------------------------------------------------
(* The allowance *)

\* Settling never credits more than the rate for the time past the mark, takes nothing
\* away from a bucket, and a bucket below one start is never cut by its burst.
LEMMA RefilledBounds ==
  ASSUME NEW n \in Nat, NEW b \in Nat \ {0}, NEW r \in Nat \ {0}, NEW mark \in Nat, NEW time \in Nat
  PROVE  /\ Refilled(n, b, r, mark, time) \in Nat
         /\ Refilled(n, b, r, mark, time) <= n + r * (Later(time, mark) - mark)
         /\ r * (Later(time, mark) - mark) \in Nat
         /\ Later(time, mark) \in Nat /\ Later(time, mark) >= mark /\ Later(time, mark) >= time
<1>1. Later(time, mark) \in Nat /\ Later(time, mark) >= mark /\ Later(time, mark) >= time
  BY DEF Later
<1> DEFINE credit == r * (Later(time, mark) - mark)
<1>2. credit \in Nat
  BY <1>1
<1>3. time > mark => Later(time, mark) = time
  BY DEF Later
<1>4. b * StartCost \in Nat
  BY StartCostAssumption
<1> DEFINE full == b * StartCost
<1>5. Refilled(n, b, r, mark, time) = IF time > mark THEN Lesser(full, n + credit) ELSE n
  BY <1>3 DEF Refilled
<1> HIDE DEF credit, full
<1>6. full \in Nat
  BY <1>4 DEF full
<1>7. /\ Refilled(n, b, r, mark, time) \in Nat
      /\ Refilled(n, b, r, mark, time) <= n + credit
  BY <1>2, <1>5, <1>6 DEF Lesser
<1> QED BY <1>1, <1>2, <1>7 DEF credit

-----------------------------------------------------------------------------
(* Pools *)

PoolTypes ==
  /\ now \in Nat /\ starts \in Nat
  /\ env \in Environments
  /\ pool \subseteq Accounts
  /\ rate \in [Accounts -> Nat \ {0}] /\ burst \in [Accounts -> Nat \ {0}]
  /\ limit \in [Accounts -> Nat \ {0}] /\ reserved \in [Accounts -> Nat]
  /\ tokens \in [Accounts -> Nat] /\ settledAt \in [Accounts -> Nat]
  /\ earned \in [Accounts -> Nat] /\ spent \in [Accounts -> Nat]
\* Paid starts and what is left come to no more than what was earned; a pool that has no
\* row has paid for nothing.
Books ==
  /\ \A a \in Accounts : spent[a] + tokens[a] <= earned[a]
  /\ \A a \in Accounts \ pool : spent[a] = 0
PoolInv == PoolTypes /\ Books

LEMMA SettledBounds ==
  ASSUME PoolTypes, NEW a \in Accounts
  PROVE  /\ Settled(a) \in Nat /\ EarnedBy(a) \in Nat /\ At(a) \in Nat /\ At(a) >= now
         /\ At(a) >= settledAt[a]
         /\ Settled(a) - tokens[a] <= EarnedBy(a) - earned[a]
<1>1. /\ tokens[a] \in Nat /\ burst[a] \in Nat \ {0} /\ rate[a] \in Nat \ {0}
      /\ settledAt[a] \in Nat /\ now \in Nat /\ earned[a] \in Nat
  BY DEF PoolTypes
<1> DEFINE credit == rate[a] * (Later(now, settledAt[a]) - settledAt[a])
<1>2. /\ Settled(a) \in Nat /\ Settled(a) <= tokens[a] + credit /\ credit \in Nat
      /\ At(a) \in Nat /\ At(a) >= now /\ At(a) >= settledAt[a]
  BY <1>1, RefilledBounds DEF Settled, AllowanceAt, At
<1>3. EarnedBy(a) = earned[a] + credit
  BY DEF EarnedBy, At
<1> HIDE DEF credit
<1> QED BY <1>1, <1>2, <1>3

LEMMA PoliciesAreValid ==
  ASSUME PoolTypes, starts < Len(env.policies)
  PROVE  ValidPolicy(env.policies[starts + 1]) /\ starts + 1 \in DOMAIN env.policies
<1>1. env.policies \in Seq({env.policies[i] : i \in DOMAIN env.policies})
  BY PolicyAssumption DEF PoolTypes
<1>2. DOMAIN env.policies = 1..Len(env.policies) /\ Len(env.policies) \in Nat
  BY <1>1
<1>3. starts + 1 \in DOMAIN env.policies
  BY <1>2 DEF PoolTypes
<1> QED BY <1>3, PolicyAssumption DEF PoolTypes

\* The start of a dispatch is admitted when there is a slot for it and allowance to pay.
LEMMA RunningIsCounted ==
  ASSUME NEW table, NEW a
  PROVE  /\ Cardinality(Running(table, a)) \in Nat /\ IsFiniteSet(Running(table, a))
         /\ Cardinality(FirstPass(table, a)) \in Nat /\ IsFiniteSet(FirstPass(table, a))
<1>1. IsFiniteSet(AttemptIds)
  BY FS_Interval, PermitConstants DEF AttemptIds
<1>2. Running(table, a) \subseteq AttemptIds /\ FirstPass(table, a) \subseteq AttemptIds
  BY DEF Running, FirstPass
<1> QED BY <1>1, <1>2, FS_Subset, FS_CardinalityType

LEMMA NotDenied ==
  ASSUME PoolTypes, NEW a \in Accounts, NEW table, NEW completion \in BOOLEAN,
         Denial(table, a, completion) = "none"
  PROVE  /\ Cardinality(Running(table, a)) < limit[a]
         /\ ~completion => Cardinality(FirstPass(table, a)) < limit[a] - reserved[a]
         /\ Settled(a) >= StartCost
<1> DEFINE n == Cardinality(Running(table, a))
           f == Cardinality(FirstPass(table, a))
<1>1. /\ n \in Nat /\ f \in Nat /\ limit[a] \in Nat /\ reserved[a] \in Nat
      /\ Settled(a) \in Nat /\ StartCost \in Nat
  BY RunningIsCounted, SettledBounds, StartCostAssumption DEF PoolTypes
<1>2. Denial(table, a, completion) =
        CASE n >= limit[a] -> "concurrency"
          [] n < limit[a] /\ ~completion /\ f >= limit[a] - reserved[a] -> "reserved_capacity"
          [] n < limit[a] /\ (completion \/ f < limit[a] - reserved[a]) /\ Settled(a) < StartCost -> "rate"
          [] OTHER -> "none"
  BY DEF Denial
<1> HIDE DEF n, f
<1>3. n < limit[a]
  BY <1>1, <1>2
<1>4. ~completion => f < limit[a] - reserved[a]
  BY <1>1, <1>2, <1>3
<1>5. Settled(a) >= StartCost
  BY <1>1, <1>2, <1>3, <1>4
<1> QED BY <1>3, <1>4, <1>5 DEF n, f

LEMMA InitPools == Init => PoolInv
BY DEF Init, PoolInv, PoolTypes, Books

\* A pool that is configured: a new one is given its burst, an old one is settled under
\* its old rate before the new burst clamps it.
LEMMA Reconfigured ==
  ASSUME PoolInv, starts < Len(env.policies), SetResearchPolicy(env.policies[starts + 1])
  PROVE  PoolInv'
<1> DEFINE p == env.policies[starts + 1]
<1>1. ValidPolicy(p)
  BY PoliciesAreValid DEF PoolInv
<1>2. UNCHANGED <<env, now, spent>> /\ starts' = starts + 1
  BY DEF SetResearchPolicy
<1>3. CASE UNCHANGED <<poolVars, earned>>
  BY <1>2, <1>3 DEF PoolInv, PoolTypes, Books, poolVars
<1>4. CASE ConfigureResearchPools(p)
  <2> PICK q : q = p
    OBVIOUS
  <2> HIDE DEF p
  <2>1. /\ q.pools \subseteq Accounts
        /\ \A a \in q.pools : /\ q.rate[a] \in Nat \ {0} /\ q.burst[a] \in Nat \ {0}
                             /\ q.limit[a] \in Nat \ {0} /\ q.reserved[a] \in Nat
    BY <1>1 DEF ValidPolicy
  <2>2. /\ pool' = pool \cup q.pools
        /\ rate' = Configured(q, rate, q.rate) /\ burst' = Configured(q, burst, q.burst)
        /\ limit' = Configured(q, limit, q.limit) /\ reserved' = Configured(q, reserved, q.reserved)
        /\ tokens' = [a \in Accounts |-> IF a \in q.pools THEN TokensAfter(q, a) ELSE tokens[a]]
        /\ settledAt' = [a \in Accounts |-> IF a \in q.pools
                                            THEN IF a \in pool THEN At(a) ELSE now ELSE settledAt[a]]
        /\ earned' = [a \in Accounts |->
                        IF a \notin q.pools THEN earned[a]
                        ELSE IF a \notin pool THEN q.burst[a] * StartCost ELSE EarnedBy(a)]
    BY <1>4 DEF ConfigureResearchPools, Configured
  <2>3. \A a \in q.pools : q.burst[a] * StartCost \in Nat
    BY <2>1, StartCostAssumption
  <2>4. ASSUME NEW a \in Accounts
        PROVE  /\ tokens'[a] \in Nat /\ settledAt'[a] \in Nat /\ earned'[a] \in Nat
               /\ spent[a] + tokens'[a] <= earned'[a]
    <3>1. /\ tokens[a] \in Nat /\ settledAt[a] \in Nat /\ earned[a] \in Nat /\ now \in Nat
          /\ spent[a] \in Nat
          /\ spent[a] + tokens[a] <= earned[a] /\ (a \notin pool => spent[a] = 0)
      BY DEF PoolInv, PoolTypes, Books
    <3>2. CASE a \notin q.pools
      BY <2>2, <3>1, <3>2
    <3>3. CASE a \in q.pools /\ a \notin pool
      BY <2>2, <2>3, <3>1, <3>3 DEF TokensAfter
    <3>4. CASE a \in q.pools /\ a \in pool
      <4>1. /\ Settled(a) \in Nat /\ EarnedBy(a) \in Nat /\ At(a) \in Nat
            /\ Settled(a) - tokens[a] <= EarnedBy(a) - earned[a]
        BY SettledBounds DEF PoolInv
      <4> DEFINE full == q.burst[a] * StartCost
      <4>2. full \in Nat /\ TokensAfter(q, a) = Lesser(Settled(a), full)
        BY <2>3, <3>4 DEF TokensAfter
      <4> HIDE DEF full
      <4>3. tokens'[a] \in Nat /\ tokens'[a] <= Settled(a)
        BY <2>2, <3>4, <4>1, <4>2 DEF Lesser
      <4>4. earned'[a] = EarnedBy(a) /\ settledAt'[a] = At(a)
        BY <2>2, <3>4
      <4> QED BY <3>1, <4>1, <4>3, <4>4
    <3> QED BY <3>2, <3>3, <3>4
  <2>5. PoolTypes'
    <3>1. /\ rate' \in [Accounts -> Nat \ {0}] /\ burst' \in [Accounts -> Nat \ {0}]
          /\ limit' \in [Accounts -> Nat \ {0}] /\ reserved' \in [Accounts -> Nat]
      BY <2>1, <2>2 DEF Configured, PoolInv, PoolTypes
    <3>2. /\ tokens' \in [Accounts -> Nat] /\ settledAt' \in [Accounts -> Nat]
          /\ earned' \in [Accounts -> Nat]
      <4>1. /\ tokens' = [a \in Accounts |-> tokens'[a]]
            /\ settledAt' = [a \in Accounts |-> settledAt'[a]]
            /\ earned' = [a \in Accounts |-> earned'[a]]
        BY <2>2
      <4> QED BY <2>4, <4>1
    <3> QED BY <1>2, <2>1, <2>2, <3>1, <3>2 DEF PoolInv, PoolTypes
  <2>6. Books'
    BY <1>2, <2>2, <2>4 DEF PoolInv, Books
  <2> QED BY <2>5, <2>6 DEF PoolInv
<1> QED BY <1>3, <1>4 DEF SetResearchPolicy

\* A start that is paid for.
LEMMA Debited ==
  ASSUME PoolInv, NEW a \in Accounts, a \in pool, Settled(a) >= StartCost, Debit(a),
         spent' = [spent EXCEPT ![a] = @ + StartCost], UNCHANGED <<env, starts, now>>
  PROVE  PoolInv'
<1>1. /\ Settled(a) \in Nat /\ EarnedBy(a) \in Nat /\ At(a) \in Nat /\ StartCost \in Nat
      /\ Settled(a) - tokens[a] <= EarnedBy(a) - earned[a]
  BY SettledBounds, StartCostAssumption DEF PoolInv
<1>2. /\ tokens' = [tokens EXCEPT ![a] = Settled(a) - StartCost]
      /\ settledAt' = [settledAt EXCEPT ![a] = At(a)]
      /\ earned' = [earned EXCEPT ![a] = EarnedBy(a)]
      /\ UNCHANGED <<pool, rate, burst, limit, reserved>>
  BY DEF Debit
<1>3. PoolTypes'
  BY <1>1, <1>2 DEF PoolInv, PoolTypes
<1>4. \A x \in Accounts : spent'[x] + tokens'[x] <= earned'[x]
  BY <1>1, <1>2 DEF PoolInv, PoolTypes, Books
<1>5. \A x \in Accounts \ pool' : spent'[x] = 0
  BY <1>2 DEF PoolInv, PoolTypes, Books
<1> QED BY <1>3, <1>4, <1>5 DEF PoolInv, Books

-----------------------------------------------------------------------------
(* The ways a step can change pools, permits and attempts *)

\* An admitted start, and what of it concerns the tables: its row comes after all others.
Admitted(t, a, completion) ==
  /\ completion \in BOOLEAN /\ a \in Accounts /\ UNCHANGED <<env, starts, now>>
  /\ \E previous : StartAdmitted(t, a, completion, previous)
Observed(t, a, completion) ==
  /\ mode = "observe"
  /\ completion \in BOOLEAN /\ a \in Accounts /\ UNCHANGED <<env, starts, now>>
  /\ \E previous : StartObserved(t, a, completion, previous)
\* Attempts are swept, renewed or ended; nothing starts.
Ended(x, y) ==
  \/ y = x
  \/ x.state = "active" /\ \E s \in {"finalized", "expired"} : y = [x EXCEPT !.state = s]
  \/ \E e \in Nat : y = [x EXCEPT !.expires = e]
Worn ==
  /\ UNCHANGED <<env, starts, poolVars, earned, spent, started>>
  /\ now' \in Nat
  /\ attempt' = [i \in AttemptIds |-> attempt'[i]]
  /\ \A i \in AttemptIds : Ended(attempt[i], attempt'[i])
Restarted ==
  /\ starts < Len(env.policies) /\ SetResearchPolicy(env.policies[starts + 1])

\* Rows of attempts are rows 1..started.
RowOK(x) ==
  /\ x = [task |-> x.task, account |-> x.account, completion |-> x.completion,
           state |-> x.state, previous |-> x.previous, expires |-> x.expires]
  /\ x.state \in {"none", "active", "finalized", "expired"}
  /\ x.expires \in Nat
RowsInv ==
  /\ started \in 0..MaxAttempts
  /\ attempt = [i \in AttemptIds |-> attempt[i]]
  /\ \A i \in AttemptIds : RowOK(attempt[i]) /\ (attempt[i].state = "none" <=> i > started)
\* The policy in memory has the pools of the store's.
MappingInv == \A m \in WorkModels : account[m] \in pool \cup {None}
\* Permits and tasks.
PermitOK(x) ==
  /\ x = [task |-> x.task, agent |-> x.agent, model |-> x.model, account |-> x.account,
           completion |-> x.completion, current |-> x.current, order |-> x.order]
  /\ x.completion \in BOOLEAN /\ x.order \in Nat
FlagsInv ==
  /\ submitted \in [Tasks -> BOOLEAN]
  /\ permit = [r \in Requests |-> permit[r]]
  /\ \A r \in Requests : PermitOK(permit[r])
TablesInv == PoolInv /\ RowsInv /\ MappingInv /\ FlagsInv

LEMMA InitTables == Init => TablesInv
<1> SUFFICES ASSUME Init PROVE TablesInv
  OBVIOUS
<1>1. RowOK(NoAttempt) /\ NoAttempt.state = "none"
  BY DEF RowOK, NoAttempt
<1>2. RowsInv
  BY <1>1, PermitConstants DEF Init, RowsInv, AttemptIds
<1>3. PermitOK(NoPermit)
  BY DEF PermitOK, NoPermit
<1>4. MappingInv /\ FlagsInv
  BY <1>3 DEF Init, MappingInv, FlagsInv
<1> QED BY <1>2, <1>4, InitPools DEF TablesInv

LEMMA Starts ==
  ASSUME TablesInv, NEW t \in Tasks
  PROVE  /\ IsCompletion(t) \in BOOLEAN
         /\ PoolOf(t) # None => PoolOf(t) \in Accounts
<1>1. TaskModel[t] \in WorkModels
  BY PermitConstants
<1>2. PoolOf(t) \in pool \cup {None} /\ pool \subseteq Accounts
  BY <1>1 DEF TablesInv, MappingInv, PoolInv, PoolTypes, PoolOf
<1>3. submitted[t] \in BOOLEAN
  BY DEF TablesInv, FlagsInv
<1> QED BY <1>2, <1>3 DEF IsCompletion

\* Rows that a sweep, a renewal or an end leaves.
LEMMA Sweeping ==
  ASSUME RowsInv, NEW time
  PROVE  /\ Swept(time) = [i \in AttemptIds |-> Swept(time)[i]]
         /\ \A i \in AttemptIds : Ended(attempt[i], Swept(time)[i])
         /\ \A i \in AttemptIds : attempt[i].state = "none" => Swept(time)[i] = attempt[i]
BY DEF Swept, Overdue, Expired, Ended

LEMMA Ending ==
  ASSUME RowsInv, NEW i, NEW e \in Nat, NEW s \in {"finalized", "expired"},
         \/ attempt' = attempt
         \/ attempt' = [attempt EXCEPT ![i].expires = e]
         \/ attempt[i].state = "active" /\ attempt' = [attempt EXCEPT ![i].state = s]
  PROVE  /\ attempt' = [j \in AttemptIds |-> attempt'[j]]
         /\ \A j \in AttemptIds : Ended(attempt[j], attempt'[j])
BY DEF RowsInv, Ended

LEMMA Extending ==
  ASSUME RowsInv, now \in Nat, NEW i
  PROVE  \E e \in Nat : Extended(i) = [attempt EXCEPT ![i].expires = e]
<1>1. CASE i \in AttemptIds
  <2>1. attempt[i].expires \in Nat /\ now + LeaseTTL \in Nat
    BY <1>1, PermitConstants DEF RowsInv, RowOK
  <2>2. Later(attempt[i].expires, now + LeaseTTL) \in Nat
    BY <2>1 DEF Later
  <2> QED BY <2>2 DEF Extended
<1>2. CASE i \notin AttemptIds
  <2>1. Extended(i) = attempt /\ attempt = [attempt EXCEPT ![i].expires = 0]
    BY <1>2 DEF Extended, RowsInv
  <2> QED BY <2>1
<1> QED BY <1>1, <1>2

LEMMA WaysToStep ==
  ASSUME TablesInv, [Next]_vars
  PROVE  Restarted \/ Worn \/ \E t, a, completion : Admitted(t, a, completion) \/ Observed(t, a, completion)
<1> DEFINE Ways == Restarted \/ Worn
                   \/ \E t, a, completion : Admitted(t, a, completion) \/ Observed(t, a, completion)
<1> USE DEF Quiet, Answer
<1>0. now \in Nat /\ RowsInv /\ (attempt = [i \in AttemptIds |-> attempt[i]])
  BY DEF TablesInv, PoolInv, PoolTypes, RowsInv
<1>1. ASSUME UNCHANGED <<env, starts, poolVars, earned, spent, started, attempt>>, now' \in Nat
      PROVE  Ways
  BY <1>0, <1>1 DEF Worn, Ended
<1>2. ASSUME UNCHANGED <<env, starts, now, poolVars, earned, spent, started>>,
             NEW i, NEW e \in Nat, NEW s \in {"finalized", "expired"},
             \/ attempt' = attempt
             \/ attempt' = [attempt EXCEPT ![i].expires = e]
             \/ attempt[i].state = "active" /\ attempt' = [attempt EXCEPT ![i].state = s]
      PROVE  Ways
  <2>1. /\ attempt' = [j \in AttemptIds |-> attempt'[j]]
        /\ \A j \in AttemptIds : Ended(attempt[j], attempt'[j])
    BY <1>0, <1>2, Ending
  <2> QED BY <1>0, <1>2, <2>1 DEF Worn
<1>3. ASSUME UNCHANGED <<env, starts, now, poolVars, earned, spent, started>>,
             NEW time, attempt' = Swept(time)
      PROVE  Ways
  <2>1. /\ attempt' = [j \in AttemptIds |-> attempt'[j]]
        /\ \A j \in AttemptIds : Ended(attempt[j], attempt'[j])
    BY <1>0, <1>3, Sweeping
  <2> QED BY <1>0, <1>3, <2>1 DEF Worn
<1>4. CASE UNCHANGED vars
  BY <1>0, <1>1, <1>4 DEF vars, permitVars, ghosts, poolVars
<1>5. CASE Tick \/ ClockSetBack
  BY <1>0, <1>1, <1>5 DEF Tick, ClockSetBack, permitVars, ghosts, poolVars
<1>6. CASE starts < Len(env.policies) /\ SetResearchPolicy(env.policies[starts + 1])
  BY <1>6 DEF Restarted
<1>7. ASSUME NEW t \in Tasks, NEW g \in Agents, Claim(t, g) PROVE Ways
  <2>1. CASE ClaimUnpaced(t, g) \/ ClaimUnmapped(t, g)
    BY <1>0, <1>1, <2>1 DEF ClaimUnpaced, ClaimUnmapped, permitVars, ghosts
  <2>2. ASSUME NEW r \in Requests, ClaimAdmitted(t, g, r) PROVE Ways
    <3>1. Admitted(t, PoolOf(t), IsCompletion(t))
      BY <2>2, Starts DEF ClaimAdmitted, Admitted
    <3> QED BY <3>1
  <2>3. ASSUME NEW r \in Requests, ClaimObserved(t, g, r) PROVE Ways
    <3>1. Observed(t, PoolOf(t), IsCompletion(t))
      BY <2>3, Starts DEF ClaimObserved, Observed
    <3> QED BY <3>1
  <2>4. ASSUME NEW r \in Requests, ClaimDenied(t, g, r) PROVE Ways
    BY <1>3, <2>4 DEF ClaimDenied, StartDenied, ghosts
  <2>5. ASSUME NEW r \in Requests, ClaimReplayed(t, g, r) PROVE Ways
    BY <1>0, <1>1, <2>5 DEF ClaimReplayed, permitVars, ghosts
  <2> QED BY <1>7, <2>1, <2>2, <2>3, <2>4, <2>5 DEF Claim
<1>8. ASSUME NEW t \in Tasks, NEW g \in Agents, NEW i, HeartbeatTask(t, g, i) PROVE Ways
  <2>1. PICK e \in Nat : Extended(LatestAttempt(t)) = [attempt EXCEPT ![LatestAttempt(t)].expires = e]
    BY <1>0, Extending
  <2>2. attempt' = attempt \/ attempt' = [attempt EXCEPT ![LatestAttempt(t)].expires = e]
    BY <1>8, <2>1 DEF HeartbeatTask
  <2>3. UNCHANGED <<env, starts, now, poolVars, earned, spent, started>>
    BY <1>8 DEF HeartbeatTask, ghosts
  <2> QED BY <1>2, <2>2, <2>3
<1>9. ASSUME NEW t \in Tasks, NEW g \in Agents, NEW i, SubmitTask(t, g, i) PROVE Ways
  BY <1>0, <1>1, <1>9 DEF SubmitTask, permitVars, ghosts
<1>10. ASSUME NEW t \in Tasks, NEW g \in Agents, NEW i, UnclaimTask(t, g, i) PROVE Ways
  <2>1. \/ attempt' = attempt
        \/ \E s \in {"finalized", "expired"} :
             /\ attempt[LatestAttempt(t)].state = "active"
             /\ attempt' = [attempt EXCEPT ![LatestAttempt(t)].state = s]
    BY <1>10 DEF UnclaimTask
  <2>2. UNCHANGED <<env, starts, now, poolVars, earned, spent, started>>
    BY <1>10 DEF UnclaimTask, ghosts
  <2> QED BY <1>2, <2>1, <2>2
<1>11. ASSUME NEW i, Expire(i) PROVE attempt' = [attempt EXCEPT ![i].state = "expired"]
  BY <1>11 DEF Expire, Expired
<1>12. ASSUME NEW r \in Requests, RenewResearchAttempt(r) PROVE Ways
  <2> DEFINE i == permit[r].current
  <2>1. PICK e \in Nat : Extended(i) = [attempt EXCEPT ![i].expires = e]
    BY <1>0, Extending
  <2>2. \/ attempt' = [attempt EXCEPT ![i].expires = e]
        \/ attempt[i].state = "active" /\ attempt' = [attempt EXCEPT ![i].state = "expired"]
    BY <1>11, <1>12, <2>1 DEF RenewResearchAttempt
  <2>3. UNCHANGED <<env, starts, now, poolVars, earned, spent, started>>
    BY <1>12 DEF RenewResearchAttempt, ghosts
  <2> QED BY <1>2, <2>2, <2>3
<1>13. ASSUME NEW r \in Requests, FinalizeResearchAttempt(r) PROVE Ways
  <2> DEFINE i == permit[r].current
  <2>1. \E s \in {"finalized", "expired"} :
          attempt[i].state = "active" /\ attempt' = [attempt EXCEPT ![i].state = s]
    BY <1>11, <1>13 DEF FinalizeResearchAttempt
  <2>2. UNCHANGED <<env, starts, now, poolVars, earned, spent, started>>
    BY <1>13 DEF FinalizeResearchAttempt, ghosts
  <2> QED BY <1>2, <2>1, <2>2
<1>14. CASE \E t \in Tasks : SendBack(t) \/ TakeAway(t)
  BY <1>0, <1>1, <1>14 DEF SendBack, TakeAway, permitVars, ghosts
<1>15. CASE Interface
  <2>1. ASSUME NEW t \in Tasks, NEW g \in Agents, NEW m \in WorkModels, NEW a \in Accounts,
               NEW c \in BOOLEAN, NEW r \in Requests, RequestResearchPermit(t, g, m, a, c, r)
        PROVE  Ways
    <3>1. CASE StartAdmitted(t, a, c, 0)
      <4>1. Admitted(t, a, c)
        BY <2>1, <3>1 DEF RequestResearchPermit, Admitted
      <4> QED BY <4>1
    <3>2. CASE StartDenied(t, a, c) /\ UNCHANGED ghosts
      BY <1>3, <2>1, <3>2 DEF RequestResearchPermit, StartDenied, ghosts
    <3> QED BY <2>1, <3>1, <3>2 DEF RequestResearchPermit
  <2>2. ASSUME NEW r \in Requests, StartNextResearchAttempt(r) PROVE Ways
    <3> DEFINE q == permit[r]
    <3>1. CASE StartAdmitted(q.task, q.account, q.completion, q.current)
      <4>1. q.account \in Accounts /\ q.completion \in BOOLEAN
        BY <3>1 DEF StartAdmitted, TablesInv, PoolInv, PoolTypes, FlagsInv, PermitOK
      <4>2. Admitted(q.task, q.account, q.completion)
        BY <2>2, <3>1, <4>1 DEF StartNextResearchAttempt, Admitted
      <4> QED BY <4>2
    <3>2. CASE StartDenied(q.task, q.account, q.completion) /\ UNCHANGED ghosts
      BY <1>3, <2>2, <3>2 DEF StartNextResearchAttempt, StartDenied, ghosts
    <3> QED BY <2>2, <3>1, <3>2 DEF StartNextResearchAttempt
  <2>3. CASE ExpireResearchAttempts
    BY <1>3, <2>3 DEF ExpireResearchAttempts, ghosts
  <2> QED BY <1>15, <2>1, <2>2, <2>3 DEF Interface
<1> QED
  BY <1>4, <1>5, <1>6, <1>7, <1>8, <1>9, <1>10, <1>12, <1>13, <1>14, <1>15 DEF Next, Work

-----------------------------------------------------------------------------
(* The tables *)

\* The row of an admitted start, on a table that was swept.
NewRow(table, t, a, completion) ==
  /\ started + 1 \in AttemptIds /\ started' = started + 1
  /\ \E previous :
       attempt' = [table EXCEPT ![started + 1] =
                     [task |-> t, account |-> a, completion |-> completion, state |-> "active",
                      previous |-> previous, expires |-> At(a) + LeaseTTL]]

LEMMA Inserted ==
  ASSUME TablesInv, NEW table, NEW t, NEW a, NEW completion, NEW previous,
         InsertAttempt(table, t, a, completion, previous)
  PROVE  NewRow(table, t, a, completion)
<1>1. started \in Nat /\ started + 1 \in AttemptIds
  BY PermitConstants DEF TablesInv, RowsInv, InsertAttempt, AttemptIds
<1> QED BY <1>1 DEF InsertAttempt, NewRow

LEMMA EndedRow ==
  ASSUME NEW x, NEW y, RowOK(x), Ended(x, y)
  PROVE  /\ RowOK(y)
         /\ y.task = x.task /\ y.account = x.account /\ y.completion = x.completion
         /\ y.state = "active" => x.state = "active"
         /\ y.state = "none" <=> x.state = "none"
BY DEF RowOK, Ended

\* What admitted and observed starts leave in the table before their row is added.
LEMMA SweptRows ==
  ASSUME RowsInv, NEW time
  PROVE  /\ Swept(time) = [i \in AttemptIds |-> Swept(time)[i]]
         /\ \A i \in AttemptIds :
              /\ RowOK(Swept(time)[i])
              /\ Swept(time)[i].task = attempt[i].task
              /\ Swept(time)[i].state = "active" => attempt[i].state = "active"
              /\ Swept(time)[i].state = "none" <=> attempt[i].state = "none"
BY Sweeping, EndedRow DEF RowsInv

LEMMA SupersededRows ==
  ASSUME RowsInv, NEW time, NEW t
  PROVE  LET table == Superseded(Swept(time), t)
         IN /\ table = [i \in AttemptIds |-> table[i]]
            /\ \A i \in AttemptIds :
                 /\ RowOK(table[i])
                 /\ table[i].task = attempt[i].task
                 /\ table[i].state = "active" => attempt[i].state = "active" /\ table[i].task # t
                 /\ table[i].state = "none" <=> attempt[i].state = "none"
<1> DEFINE table == Superseded(Swept(time), t)
<1>1. table = [i \in AttemptIds |-> table[i]]
  BY DEF Superseded
<1>2. ASSUME NEW i \in AttemptIds
      PROVE  /\ RowOK(table[i])
             /\ table[i].task = attempt[i].task
             /\ table[i].state = "active" => attempt[i].state = "active" /\ table[i].task # t
             /\ table[i].state = "none" <=> attempt[i].state = "none"
  <2> DEFINE x == Swept(time)[i]
  <2>1. /\ RowOK(x) /\ x.task = attempt[i].task
        /\ x.state = "active" => attempt[i].state = "active"
        /\ x.state = "none" <=> attempt[i].state = "none"
    BY SweptRows
  <2>2. table[i] = IF x.state = "active" /\ x.task = t THEN [x EXCEPT !.state = "expired"] ELSE x
    BY DEF Superseded, Expired
  <2> HIDE DEF x, table
  <2> QED BY <2>1, <2>2 DEF RowOK
<1> QED BY <1>1, <1>2

\* A row that is added to such a table.
LEMMA RowAdded ==
  ASSUME TablesInv, NEW table, NEW t, NEW a \in Accounts, NEW completion, NewRow(table, t, a, completion),
         table = [i \in AttemptIds |-> table[i]],
         \A i \in AttemptIds : RowOK(table[i]) /\ (table[i].state = "none" <=> attempt[i].state = "none")
  PROVE  /\ RowsInv'
         /\ \A i \in AttemptIds \ {started + 1} : attempt'[i] = table[i]
         /\ attempt'[started + 1].task = t /\ attempt'[started + 1].account = a
         /\ attempt'[started + 1].completion = completion
         /\ attempt'[started + 1].state = "active"
         /\ attempt'[started + 1].expires = At(a) + LeaseTTL
         /\ table[started + 1].state = "none"
<1>1. PICK previous :
        attempt' = [table EXCEPT ![started + 1] =
                      [task |-> t, account |-> a, completion |-> completion, state |-> "active",
                       previous |-> previous, expires |-> At(a) + LeaseTTL]]
  BY DEF NewRow
<1>2. At(a) + LeaseTTL \in Nat
  BY SettledBounds, PermitConstants DEF TablesInv, PoolInv
<1>3. started \in Nat /\ MaxAttempts \in Nat /\ started + 1 \in AttemptIds /\ started' = started + 1
  BY PermitConstants DEF TablesInv, RowsInv, NewRow
<1>4. /\ \A i \in AttemptIds \ {started + 1} : attempt'[i] = table[i]
      /\ attempt'[started + 1] =
           [task |-> t, account |-> a, completion |-> completion, state |-> "active",
            previous |-> previous, expires |-> At(a) + LeaseTTL]
      /\ attempt' = [i \in AttemptIds |-> attempt'[i]]
  BY <1>1, <1>3
<1>5. RowOK(attempt'[started + 1]) /\ attempt'[started + 1].state = "active"
  BY <1>2, <1>4 DEF RowOK
<1>6. table[started + 1].state = "none"
  BY <1>3 DEF TablesInv, RowsInv
<1>7. \A i \in AttemptIds : RowOK(attempt'[i]) /\ (attempt'[i].state = "none" <=> i > started')
  <2>1. \A i \in AttemptIds : i \in Nat /\ (table[i].state = "none" <=> i > started)
    BY DEF TablesInv, RowsInv, AttemptIds
  <2> QED BY <1>3, <1>4, <1>5, <2>1
<1>8. started' \in 0..MaxAttempts
  BY <1>3 DEF AttemptIds
<1> QED BY <1>4, <1>6, <1>7, <1>8 DEF RowsInv

\* What a step may do to the permits: nothing, one more, newer than the others, or a new
\* attempt of one.
UsedRequests == {q \in Requests : Used(q)}
PermitAdded(r, t, g) ==
  /\ ~Used(r)
  /\ \E m, a : \E c \in BOOLEAN :
       permit' = [permit EXCEPT ![r] =
                    [task |-> t, agent |-> g, model |-> m, account |-> a, completion |-> c,
                     current |-> started + 1, order |-> Cardinality(UsedRequests) + 1]]
PermitMoved(r) == \E n : permit' = [permit EXCEPT ![r].current = n]

LEMMA WaysOfPermits ==
  ASSUME TablesInv, [Next]_vars
  PROVE  /\ \/ permit' = permit
            \/ \E r \in Requests : PermitMoved(r)
            \/ \E r \in Requests, t \in Tasks, g \in Agents : PermitAdded(r, t, g)
         /\ submitted' \in [Tasks -> BOOLEAN]
<1> USE DEF Quiet, Answer
<1> DEFINE Ways == \/ permit' = permit
                   \/ \E r \in Requests : PermitMoved(r)
                   \/ \E r \in Requests, t \in Tasks, g \in Agents : PermitAdded(r, t, g)
           Flags == submitted' \in [Tasks -> BOOLEAN]
<1>0. submitted \in [Tasks -> BOOLEAN]
  BY DEF TablesInv, FlagsInv
<1>1. ASSUME NEW r \in Requests, NEW t \in Tasks, NEW g \in Agents, NEW m, NEW a,
             NEW c \in BOOLEAN, ~Used(r), InsertPermit(r, t, g, m, a, c)
      PROVE  Ways
  <2>1. PermitAdded(r, t, g)
    BY <1>1 DEF InsertPermit, PermitAdded, UsedRequests
  <2> QED BY <2>1
<1>2. CASE UNCHANGED vars
  BY <1>0, <1>2 DEF vars, permitVars, taskVars
<1>3. CASE Tick \/ ClockSetBack
  BY <1>0, <1>3 DEF Tick, ClockSetBack, permitVars, taskVars
<1>4. CASE starts < Len(env.policies) /\ SetResearchPolicy(env.policies[starts + 1])
  BY <1>0, <1>4 DEF SetResearchPolicy, permitVars, taskVars
<1>5. ASSUME NEW t \in Tasks, NEW g \in Agents, Claim(t, g) PROVE Ways /\ Flags
  <2>1. CASE ClaimUnpaced(t, g) \/ ClaimUnmapped(t, g)
    BY <1>0, <2>1 DEF ClaimUnpaced, ClaimUnmapped, ClaimTask, permitVars, taskVars
  <2>2. ASSUME NEW r \in Requests, ClaimAdmitted(t, g, r) \/ ClaimObserved(t, g, r) PROVE Ways /\ Flags
    <3>1. ~Used(r) /\ InsertPermit(r, t, g, TaskModel[t], PoolOf(t), IsCompletion(t)) /\ UNCHANGED submitted
      BY <2>2 DEF ClaimAdmitted, ClaimObserved, ClaimTask
    <3>2. Ways
      BY <1>1, <3>1, Starts
    <3> QED BY <1>0, <3>1, <3>2
  <2>3. ASSUME NEW r \in Requests, ClaimDenied(t, g, r) \/ ClaimReplayed(t, g, r) PROVE Ways /\ Flags
    BY <1>0, <2>3 DEF ClaimDenied, ClaimReplayed, StartDenied, permitVars, taskVars
  <2> QED BY <1>5, <2>1, <2>2, <2>3 DEF Claim
<1>6. ASSUME NEW t \in Tasks, NEW g \in Agents, Work(t, g) PROVE Ways /\ Flags
  BY <1>0, <1>6 DEF Work, HeartbeatTask, SubmitTask, UnclaimTask, permitVars
<1>7. CASE \E r \in Requests : RenewResearchAttempt(r) \/ FinalizeResearchAttempt(r)
  BY <1>0, <1>7 DEF RenewResearchAttempt, FinalizeResearchAttempt, taskVars
<1>8. CASE \E t \in Tasks : SendBack(t) \/ TakeAway(t)
  BY <1>0, <1>8 DEF SendBack, TakeAway, permitVars
<1>9. CASE Interface
  <2>1. UNCHANGED submitted
    BY <1>9 DEF Interface, RequestResearchPermit, StartNextResearchAttempt, ExpireResearchAttempts, taskVars
  <2>2. ASSUME NEW t \in Tasks, NEW g \in Agents, NEW m \in WorkModels, NEW a \in Accounts,
               NEW c \in BOOLEAN, NEW r \in Requests, RequestResearchPermit(t, g, m, a, c, r)
        PROVE  Ways
    <3>1. CASE InsertPermit(r, t, g, m, a, c)
      BY <1>1, <2>2, <3>1 DEF RequestResearchPermit
    <3>2. CASE StartDenied(t, a, c)
      BY <3>2 DEF StartDenied
    <3> QED BY <2>2, <3>1, <3>2 DEF RequestResearchPermit
  <2>3. ASSUME NEW r \in Requests, StartNextResearchAttempt(r) PROVE Ways
    <3>1. permit' = permit \/ permit' = [permit EXCEPT ![r].current = started + 1]
      BY <2>3 DEF StartNextResearchAttempt, StartDenied
    <3>2. permit' = permit \/ PermitMoved(r)
      BY <3>1 DEF PermitMoved
    <3> QED BY <3>2
  <2>4. ASSUME ExpireResearchAttempts PROVE Ways
    BY <2>4 DEF ExpireResearchAttempts
  <2>5. Ways
    BY <1>9, <2>2, <2>3, <2>4 DEF Interface
  <2> QED BY <1>0, <2>1, <2>5
<1> QED BY <1>2, <1>3, <1>4, <1>5, <1>6, <1>7, <1>8, <1>9 DEF Next

LEMMA FlagsKept ==
  ASSUME TablesInv, [Next]_vars
  PROVE  FlagsInv'
<1> USE DEF TablesInv, FlagsInv, PermitOK
<1>1. submitted' \in [Tasks -> BOOLEAN]
  BY WaysOfPermits
<1>2. CASE permit' = permit
  BY <1>1, <1>2
<1>3. ASSUME NEW r \in Requests, PermitMoved(r) PROVE FlagsInv'
  BY <1>1, <1>3 DEF PermitMoved
<1>4. ASSUME NEW r \in Requests, NEW t \in Tasks, NEW g \in Agents, PermitAdded(r, t, g) PROVE FlagsInv'
  <2>1. Cardinality(UsedRequests) + 1 \in Nat
    BY PermitConstants, FS_Subset, FS_CardinalityType DEF UsedRequests
  <2> QED BY <1>1, <1>4, <2>1 DEF PermitAdded
<1> QED BY <1>2, <1>3, <1>4, WaysOfPermits

LEMMA TablesKept ==
  ASSUME TablesInv, [Next]_vars
  PROVE  TablesInv'
<1>1. FlagsInv'
  BY FlagsKept
<1>2. MappingInv'
  <2>1. pool \subseteq pool'
    <3>1. CASE Restarted
      BY <3>1 DEF Restarted, SetResearchPolicy, ConfigureResearchPools, poolVars
    <3>2. CASE Worn
      BY <3>2 DEF Worn, poolVars
    <3>3. ASSUME NEW t, NEW a, NEW c, Admitted(t, a, c) PROVE pool' = pool
      BY <3>3 DEF Admitted, StartAdmitted, Debit
    <3>4. ASSUME NEW t, NEW a, NEW c, Observed(t, a, c) PROVE pool' = pool
      BY <3>4 DEF Observed, StartObserved, Debit, poolVars
    <3> QED BY <3>1, <3>2, <3>3, <3>4, WaysToStep
  <2>2. account' = account \/ Restarted
    <3>1. CASE UNCHANGED vars \/ Tick \/ ClockSetBack
      BY <3>1 DEF vars, Tick, ClockSetBack
    <3>2. CASE \E t \in Tasks, g \in Agents : Claim(t, g)
      BY <3>2 DEF Claim, ClaimUnpaced, ClaimUnmapped, ClaimAdmitted, ClaimDenied, ClaimObserved, ClaimReplayed
    <3>3. CASE \E t \in Tasks, g \in Agents : Work(t, g)
      BY <3>3 DEF Work, HeartbeatTask, SubmitTask, UnclaimTask
    <3>4. CASE \/ \E r \in Requests : RenewResearchAttempt(r) \/ FinalizeResearchAttempt(r)
               \/ \E t \in Tasks : SendBack(t) \/ TakeAway(t)
      BY <3>4 DEF RenewResearchAttempt, FinalizeResearchAttempt, SendBack, TakeAway
    <3>5. CASE Interface
      BY <3>5 DEF Interface, RequestResearchPermit, StartNextResearchAttempt, ExpireResearchAttempts
    <3> QED BY <3>1, <3>2, <3>3, <3>4, <3>5 DEF Next, Restarted
  <2>3. CASE account' = account
    BY <2>1, <2>3 DEF TablesInv, MappingInv
  <2>4. CASE Restarted
    <3>1. ValidPolicy(env.policies[starts + 1])
      BY <2>4, PoliciesAreValid DEF Restarted, TablesInv, PoolInv
    <3> QED BY <2>4, <3>1 DEF Restarted, SetResearchPolicy, ConfigureResearchPools, ValidPolicy, MappingInv
  <2> QED BY <2>2, <2>3, <2>4
<1>3. CASE Restarted
  <2>1. PoolInv'
    BY <1>3, Reconfigured DEF Restarted, TablesInv
  <2>2. RowsInv'
    BY <1>3 DEF Restarted, SetResearchPolicy, permitVars, TablesInv, RowsInv
  <2> QED BY <1>1, <1>2, <2>1, <2>2 DEF TablesInv
<1>4. CASE Worn
  <2>1. PoolInv'
    BY <1>4 DEF Worn, poolVars, TablesInv, PoolInv, PoolTypes, Books
  <2>2. RowsInv'
    BY <1>4, EndedRow DEF Worn, TablesInv, RowsInv
  <2> QED BY <1>1, <1>2, <2>1, <2>2 DEF TablesInv
<1>5. ASSUME NEW t, NEW a, NEW c, Admitted(t, a, c) PROVE TablesInv'
  <2>0. PICK previous : StartAdmitted(t, a, c, previous)
    BY <1>5 DEF Admitted
  <2>1. Settled(a) >= StartCost
    BY <1>5, <2>0, NotDenied DEF Admitted, StartAdmitted, TablesInv, PoolInv
  <2>2. PoolInv'
    BY <1>5, <2>0, <2>1, Debited DEF Admitted, StartAdmitted, TablesInv
  <2>3. NewRow(Swept(At(a)), t, a, c)
    BY <2>0, Inserted DEF StartAdmitted
  <2>4. RowsInv'
    BY <1>5, <2>3, SweptRows, RowAdded DEF TablesInv, Admitted
  <2> QED BY <1>1, <1>2, <2>2, <2>4 DEF TablesInv
<1>6. ASSUME NEW t, NEW a, NEW c, Observed(t, a, c) PROVE TablesInv'
  <2>0. PICK previous : StartObserved(t, a, c, previous)
    BY <1>6 DEF Observed
  <2> DEFINE table == Superseded(Swept(At(a)), t)
  <2>1. PoolInv'
    <3>1. CASE Denial(table, a, c) = "none"
      <4>1. Settled(a) >= StartCost
        BY <1>6, <3>1, NotDenied DEF Observed, TablesInv, PoolInv
      <4> QED BY <1>6, <2>0, <3>1, <4>1, Debited DEF Observed, StartObserved, TablesInv
    <3>2. CASE Denial(table, a, c) # "none"
      <4>1. UNCHANGED <<poolVars, earned, env, starts, now>>
        BY <1>6, <2>0, <3>2 DEF Observed, StartObserved
      <4>2. spent' = [spent EXCEPT ![a] = spent[a]]
        BY <2>0, <3>2 DEF StartObserved
      <4> QED BY <4>1, <4>2 DEF poolVars, TablesInv, PoolInv, PoolTypes, Books
    <3> QED BY <3>1, <3>2
  <2>2. NewRow(table, t, a, c)
    BY <2>0, Inserted DEF StartObserved
  <2>3. RowsInv /\ a \in Accounts
    BY <1>6 DEF TablesInv, Observed
  <2>4. /\ table = [i \in AttemptIds |-> table[i]]
        /\ \A i \in AttemptIds : RowOK(table[i]) /\ (table[i].state = "none" <=> attempt[i].state = "none")
    BY <2>3, SupersededRows
  <2> HIDE DEF table
  <2>5. RowsInv'
    BY <2>2, <2>3, <2>4, RowAdded
  <2> QED BY <1>1, <1>2, <2>1, <2>5 DEF TablesInv
<1> QED BY <1>3, <1>4, <1>5, <1>6, WaysToStep

\* No restart, change of policy or clock that is set back mints a start: what a pool's
\* starts cost never exceeds its first burst and what its rates came to (settle, admit,
\* ConfigureResearchPool).
THEOREM StartsArePacedAlways == Spec => []StartsArePaced
<1>1. TablesInv => StartsArePaced
  <2> SUFFICES ASSUME TablesInv, NEW a \in Accounts PROVE spent[a] <= earned[a]
    BY DEF StartsArePaced
  <2>1. spent[a] + tokens[a] <= earned[a] /\ spent[a] \in Nat /\ tokens[a] \in Nat /\ earned[a] \in Nat
    BY DEF TablesInv, PoolInv, PoolTypes, Books
  <2> QED BY <2>1
<1> QED BY InitTables, TablesKept, <1>1, PTL DEF Spec

-----------------------------------------------------------------------------
(* Attempts *)

LEMMA OneLiveKept ==
  ASSUME TablesInv, OneLiveAttemptPerTask, [Next]_vars
  PROVE  OneLiveAttemptPerTask'
<1>1. CASE Restarted
  BY <1>1 DEF Restarted, SetResearchPolicy, permitVars, OneLiveAttemptPerTask
<1>2. CASE Worn
  <2>1. \A i \in AttemptIds : /\ attempt'[i].state = "active" => attempt[i].state = "active"
                             /\ attempt'[i].task = attempt[i].task
    BY <1>2, EndedRow DEF Worn, TablesInv, RowsInv
  <2> QED BY <2>1 DEF OneLiveAttemptPerTask
<1>3. ASSUME NEW t, NEW a \in Accounts, NEW c, NEW table, NewRow(table, t, a, c),
             table = [i \in AttemptIds |-> table[i]],
             \A i \in AttemptIds :
               /\ RowOK(table[i]) /\ (table[i].state = "none" <=> attempt[i].state = "none")
               /\ table[i].task = attempt[i].task
               /\ table[i].state = "active" => attempt[i].state = "active" /\ table[i].task # t
      PROVE  OneLiveAttemptPerTask'
  <2>1. /\ \A i \in AttemptIds \ {started + 1} : attempt'[i] = table[i]
        /\ attempt'[started + 1].task = t
    BY <1>3, RowAdded
  <2>2. \A i \in AttemptIds : i = started + 1 \/
          (/\ attempt'[i].task = attempt[i].task
           /\ attempt'[i].state = "active" => attempt[i].state = "active" /\ attempt'[i].task # t)
    BY <1>3, <2>1
  <2> QED BY <2>1, <2>2 DEF OneLiveAttemptPerTask
<1>4. ASSUME NEW t, NEW a, NEW c, Admitted(t, a, c) PROVE OneLiveAttemptPerTask'
  <2>0. PICK previous : StartAdmitted(t, a, c, previous)
    BY <1>4 DEF Admitted
  <2>1. NewRow(Swept(At(a)), t, a, c) /\ a \in Accounts
    BY <1>4, <2>0, Inserted DEF StartAdmitted, Admitted
  <2>2. \A i \in AttemptIds : Swept(At(a))[i].state = "active" => Swept(At(a))[i].task # t
    BY <2>0 DEF StartAdmitted, Busy
  <2>3. RowsInv
    BY DEF TablesInv
  <2> QED BY <1>3, <2>1, <2>2, <2>3, SweptRows
<1>5. ASSUME NEW t, NEW a, NEW c, Observed(t, a, c) PROVE OneLiveAttemptPerTask'
  <2>0. PICK previous : StartObserved(t, a, c, previous)
    BY <1>5 DEF Observed
  <2>1. NewRow(Superseded(Swept(At(a)), t), t, a, c) /\ a \in Accounts
    BY <1>5, <2>0, Inserted DEF StartObserved, Observed
  <2>2. RowsInv
    BY DEF TablesInv
  <2> QED BY <1>3, <2>1, <2>2, SupersededRows
<1> QED BY <1>1, <1>2, <1>4, <1>5, WaysToStep

\* Two dispatches of a task are never live at once, whatever modes it was claimed under
\* and whatever the clock did (reserveAttempt, supersedeTaskAttempts).
THEOREM OneLiveAttemptPerTaskAlways == Spec => []OneLiveAttemptPerTask
<1>1. Init => OneLiveAttemptPerTask
  BY DEF Init, NoAttempt, OneLiveAttemptPerTask
<1>2. TablesInv /\ OneLiveAttemptPerTask /\ [Next]_vars => (TablesInv /\ OneLiveAttemptPerTask)'
  BY TablesKept, OneLiveKept
<1> QED BY InitTables, <1>1, <1>2, PTL DEF Spec

\* No start goes beyond the slots of its pool or takes a reserved one for first-pass work
\* (admit, after sweepOverdue).
THEOREM StartsWithinSlotsAlways == Spec => StartsWithinSlots
<1> DEFINE Within(a) ==
      mode = "enforce" /\ started' # started /\ attempt'[started'].account = a =>
        /\ Cardinality(Running(attempt', a)) <= limit[a]
        /\ ~attempt'[started'].completion =>
             Cardinality(FirstPass(attempt', a)) <= limit[a] - reserved[a]
<1>1. ASSUME TablesInv, [Next]_vars, NEW b \in Accounts PROVE Within(b)
  <2>1. CASE Restarted \/ Worn
    BY <2>1 DEF Restarted, SetResearchPolicy, permitVars, Worn
  <2>2. ASSUME NEW t, NEW a, NEW c, Observed(t, a, c) PROVE Within(b)
    BY <2>2 DEF Observed
  <2>3. ASSUME NEW t, NEW a, NEW c, Admitted(t, a, c) PROVE Within(b)
    <3> DEFINE table == Swept(At(a))
               new == started + 1
    <3>0. PICK previous : StartAdmitted(t, a, c, previous)
      BY <2>3 DEF Admitted
    <3>1. NewRow(table, t, a, c) /\ a \in Accounts /\ c \in BOOLEAN /\ RowsInv /\ PoolTypes
      BY <1>1, <2>3, <3>0, Inserted DEF StartAdmitted, Admitted, TablesInv, PoolInv
    <3>2. /\ table = [i \in AttemptIds |-> table[i]]
          /\ \A i \in AttemptIds : RowOK(table[i]) /\ (table[i].state = "none" <=> attempt[i].state = "none")
      BY <3>1, SweptRows
    <3>3. Denial(table, a, c) = "none"
      BY <3>0 DEF StartAdmitted
    <3>4. /\ Cardinality(Running(table, a)) < limit[a]
          /\ ~c => Cardinality(FirstPass(table, a)) < limit[a] - reserved[a]
      BY <3>1, <3>3, NotDenied
    <3> HIDE DEF table
    <3>5. /\ \A i \in AttemptIds \ {new} : attempt'[i] = table[i]
          /\ attempt'[new].account = a /\ attempt'[new].completion = c /\ attempt'[new].state = "active"
          /\ table[new].state = "none"
      BY <1>1, <3>1, <3>2, RowAdded
    <3>a. new \in AttemptIds /\ started' = new
      BY <3>1 DEF NewRow
    <3> HIDE DEF new
    <3>6. Running(attempt', a) = Running(table, a) \cup {new} /\ new \notin Running(table, a)
      BY <3>5, <3>a DEF Running
    <3>7. ~c => FirstPass(attempt', a) = FirstPass(table, a) \cup {new} /\ new \notin FirstPass(table, a)
      <4> SUFFICES ASSUME ~c
                   PROVE  FirstPass(attempt', a) = FirstPass(table, a) \cup {new} /\ new \notin FirstPass(table, a)
        OBVIOUS
      <4>1. \A i \in Running(table, a) : attempt'[i] = table[i]
        BY <3>5, <3>6 DEF Running
      <4> QED BY <3>5, <3>6, <4>1 DEF FirstPass
    <3>8. Cardinality(Running(attempt', a)) = Cardinality(Running(table, a)) + 1
      BY <3>6, RunningIsCounted, FS_AddElement
    <3>9. ~c => Cardinality(FirstPass(attempt', a)) = Cardinality(FirstPass(table, a)) + 1
      BY <3>7, RunningIsCounted, FS_AddElement
    <3>10. limit[a] \in Nat /\ reserved[a] \in Nat
      BY <3>1 DEF PoolTypes
    <3>11. Cardinality(Running(table, a)) \in Nat /\ Cardinality(FirstPass(table, a)) \in Nat
      BY RunningIsCounted
    <3> QED BY <3>4, <3>5, <3>a, <3>8, <3>9, <3>10, <3>11
  <2> QED BY <1>1, <2>1, <2>2, <2>3, WaysToStep
<1>2. TablesInv /\ [Next]_vars => [\A a \in Accounts : Within(a)]_vars
  BY <1>1
<1> QED BY InitTables, TablesKept, <1>2, PTL DEF Spec, StartsWithinSlots

-----------------------------------------------------------------------------
(* Permits *)

\* Permits are ordered as they are made, so that a task has one newest permit at most.
OrdersInv ==
  /\ \A q \in Requests : permit[q].order <= Cardinality(UsedRequests)
  /\ \A q, r \in UsedRequests : permit[q].order = permit[r].order => q = r

LEMMA UsedAreCounted == IsFiniteSet(UsedRequests) /\ Cardinality(UsedRequests) \in Nat
BY PermitConstants, FS_Subset, FS_CardinalityType DEF UsedRequests

LEMMA PermitMoves ==
  ASSUME TablesInv, NEW r, PermitMoved(r)
  PROVE  /\ UsedRequests' = UsedRequests
         /\ \A q \in Requests : /\ permit'[q].order = permit[q].order
                               /\ permit'[q].task = permit[q].task
                               /\ permit'[q].agent = permit[q].agent
<1>1. \A q \in Requests : /\ permit'[q].order = permit[q].order
                          /\ permit'[q].task = permit[q].task
                          /\ permit'[q].agent = permit[q].agent
  BY DEF PermitMoved, TablesInv, FlagsInv, PermitOK
<1> QED BY <1>1 DEF UsedRequests, Used

LEMMA PermitAdds ==
  ASSUME TablesInv, NEW r \in Requests, NEW t, NEW g, PermitAdded(r, t, g)
  PROVE  /\ UsedRequests' = UsedRequests \cup {r} /\ r \notin UsedRequests
         /\ Cardinality(UsedRequests') = Cardinality(UsedRequests) + 1
         /\ permit'[r].order = Cardinality(UsedRequests) + 1
         /\ permit'[r].task = t /\ permit'[r].agent = g /\ permit'[r].current = started + 1
         /\ \A q \in Requests \ {r} : permit'[q] = permit[q]
<1>1. /\ permit'[r].order = Cardinality(UsedRequests) + 1
      /\ permit'[r].task = t /\ permit'[r].agent = g /\ permit'[r].current = started + 1
      /\ \A q \in Requests \ {r} : permit'[q] = permit[q]
  BY DEF PermitAdded, TablesInv, FlagsInv
<1>2. r \notin UsedRequests
  BY DEF PermitAdded, UsedRequests
<1>3. permit'[r].order # 0
  BY <1>1, UsedAreCounted
<1>4. UsedRequests' = UsedRequests \cup {r}
  BY <1>1, <1>3 DEF UsedRequests, Used
<1>5. Cardinality(UsedRequests') = Cardinality(UsedRequests) + 1
  BY <1>2, <1>4, UsedAreCounted, FS_AddElement
<1> QED BY <1>1, <1>2, <1>4, <1>5

LEMMA OrdersKept ==
  ASSUME TablesInv, OrdersInv, [Next]_vars
  PROVE  OrdersInv'
<1>1. CASE permit' = permit
  BY <1>1 DEF OrdersInv, UsedRequests, Used
<1>2. ASSUME NEW r \in Requests, PermitMoved(r) PROVE OrdersInv'
  BY <1>2, PermitMoves DEF OrdersInv, UsedRequests
<1>3. ASSUME NEW r \in Requests, NEW t \in Tasks, NEW g \in Agents, PermitAdded(r, t, g) PROVE OrdersInv'
  <2> PICK n \in Nat : n = Cardinality(UsedRequests)
    BY UsedAreCounted
  <2>1. /\ UsedRequests' = UsedRequests \cup {r} /\ Cardinality(UsedRequests') = n + 1
        /\ permit'[r].order = n + 1
        /\ \A q \in Requests \ {r} : permit'[q] = permit[q]
    BY <1>3, PermitAdds
  <2>2. \A q \in Requests : permit[q].order \in Nat /\ permit[q].order <= n
    BY DEF OrdersInv, TablesInv, FlagsInv, PermitOK
  <2>3. \A q \in Requests : permit'[q].order <= n + 1 /\ (q # r => permit'[q].order # n + 1)
    BY <2>1, <2>2
  <2>4. \A q \in UsedRequests : q \in Requests
    BY DEF UsedRequests
  <2>5. \A q, s \in UsedRequests \cup {r} : permit'[q].order = permit'[s].order => q = s
    BY <2>1, <2>3, <2>4 DEF OrdersInv
  <2> QED BY <2>1, <2>3, <2>5 DEF OrdersInv
<1> QED BY <1>1, <1>2, <1>3, WaysOfPermits

\* A new permit is its task's newest; a newest permit is the only one.
LEMMA NewestAfterAdding ==
  ASSUME TablesInv, OrdersInv, NEW r \in Requests, NEW t, NEW g, PermitAdded(r, t, g)
  PROVE  /\ NewestOf(t, r)'
         /\ \A u, q : u # t /\ NewestOf(u, q) => NewestOf(u, q)' /\ permit'[q] = permit[q]
<1>1. /\ UsedRequests' = UsedRequests \cup {r} /\ r \notin UsedRequests
      /\ permit'[r].order = Cardinality(UsedRequests) + 1
      /\ permit'[r].task = t
      /\ \A q \in Requests \ {r} : permit'[q] = permit[q]
  BY PermitAdds
<1>2. \A u : PermitsOf(u) = {q \in UsedRequests : permit[q].task = u}
  BY DEF PermitsOf, UsedRequests
<1>3. \A u : PermitsOf(u)' = {q \in UsedRequests' : permit'[q].task = u}
  BY DEF PermitsOf, UsedRequests
<1>4. UsedRequests \subseteq Requests
  BY DEF UsedRequests
<1>5. \A q \in Requests : permit[q].order \in Nat /\ permit[q].order <= Cardinality(UsedRequests)
  BY DEF OrdersInv, TablesInv, FlagsInv, PermitOK
<1>6. NewestOf(t, r)'
  <2>1. r \in PermitsOf(t)'
    BY <1>1, <1>3
  <2>2. \A q \in PermitsOf(t)' : permit'[q].order <= permit'[r].order
    <3>1. \A q \in UsedRequests' : q = r \/ permit'[q].order <= Cardinality(UsedRequests)
      BY <1>1, <1>4, <1>5
    <3>2. \A q \in Requests \ {r} : permit'[q].order \in Nat
      BY <1>1, <1>5
    <3> QED BY <1>1, <1>3, <1>4, <3>1, <3>2, UsedAreCounted
  <2> QED BY <2>1, <2>2 DEF NewestOf
<1>7. \A u : u # t => PermitsOf(u)' = PermitsOf(u) /\ \A q \in PermitsOf(u) : permit'[q] = permit[q]
  BY <1>1, <1>2, <1>3, <1>4
<1>8. \A u, q : u # t /\ NewestOf(u, q) => NewestOf(u, q)' /\ permit'[q] = permit[q]
  BY <1>7 DEF NewestOf
<1> QED BY <1>6, <1>8

LEMMA NewestIsOne ==
  ASSUME TablesInv, OrdersInv, NEW t, NEW r, NewestOf(t, r)
  PROVE  AgentOfLatest(t) = permit[r].agent
<1>1. r \in PermitsOf(t) /\ PermitsOf(t) \subseteq UsedRequests /\ PermitsOf(t) \subseteq Requests
  BY DEF NewestOf, PermitsOf, UsedRequests
<1> DEFINE q == CHOOSE x \in PermitsOf(t) : NewestOf(t, x)
<1>2. q \in PermitsOf(t) /\ NewestOf(t, q)
  BY <1>1
<1>3. AgentOfLatest(t) = permit[q].agent
  BY <1>1 DEF AgentOfLatest
<1> HIDE DEF q
<1>4. permit[q].order <= permit[r].order /\ permit[r].order <= permit[q].order
  BY <1>1, <1>2 DEF NewestOf
<1>5. permit[q].order \in Nat /\ permit[r].order \in Nat
  BY <1>1, <1>2 DEF TablesInv, FlagsInv, PermitOK
<1>6. q = r
  BY <1>1, <1>2, <1>4, <1>5 DEF OrdersInv
<1> QED BY <1>3, <1>6

-----------------------------------------------------------------------------
(* Grants *)

GrantInv ==
  /\ TablesInv /\ OrdersInv
  /\ state = [t \in Tasks |-> state[t]] /\ assignee = [t \in Tasks |-> assignee[t]]

LEMMA InitGrants == Init => GrantInv /\ GrantsAreOwned
<1> SUFFICES ASSUME Init PROVE GrantInv /\ GrantsAreOwned
  OBVIOUS
<1>1. \A q \in Requests : permit[q].order = 0
  BY DEF Init, NoPermit
<1>2. UsedRequests = {}
  BY <1>1 DEF UsedRequests, Used
<1>3. OrdersInv
  BY <1>1, <1>2, FS_EmptySet DEF OrdersInv
<1>4. GrantsAreOwned
  BY DEF Init, GrantsAreOwned
<1> QED BY <1>3, <1>4, InitTables DEF GrantInv, Init

LEMMA GrantInvKept ==
  ASSUME GrantInv, [Next]_vars
  PROVE  GrantInv'
<1>1. TablesInv' /\ OrdersInv'
  BY TablesKept, OrdersKept DEF GrantInv
<1> DEFINE Typed == state' = [t \in Tasks |-> state'[t]] /\ assignee' = [t \in Tasks |-> assignee'[t]]
<1> USE DEF GrantInv
<1>2. CASE UNCHANGED <<state, assignee>>
  BY <1>1, <1>2
<1>3. ASSUME NEW t \in Tasks, NEW g \in Agents, ClaimTask(t, g) PROVE Typed
  BY <1>3 DEF ClaimTask
<1>4. ASSUME NEW t \in Tasks, NEW g \in Agents, Claim(t, g) PROVE Typed \/ UNCHANGED taskVars
  BY <1>3, <1>4 DEF Claim, ClaimUnpaced, ClaimUnmapped, ClaimAdmitted, ClaimDenied, ClaimObserved, ClaimReplayed
<1>5. ASSUME NEW t \in Tasks, NEW g \in Agents, Work(t, g) PROVE Typed
  BY <1>5 DEF Work, HeartbeatTask, SubmitTask, UnclaimTask
<1>6. ASSUME NEW t \in Tasks, SendBack(t) \/ TakeAway(t) PROVE Typed
  BY <1>6 DEF SendBack, TakeAway
<1>7. CASE \/ UNCHANGED vars \/ Tick \/ ClockSetBack \/ Interface
           \/ SetResearchPolicy(env.policies[starts + 1])
           \/ \E r \in Requests : RenewResearchAttempt(r) \/ FinalizeResearchAttempt(r)
  BY <1>2, <1>7 DEF vars, Tick, ClockSetBack, Interface, SetResearchPolicy, RequestResearchPermit,
     StartNextResearchAttempt, ExpireResearchAttempts, RenewResearchAttempt, FinalizeResearchAttempt, taskVars
<1> QED BY <1>1, <1>2, <1>4, <1>5, <1>6, <1>7 DEF Next, taskVars

\* A claim that is given a start is given the task, under its newest permit.
LEMMA GrantedByClaim ==
  ASSUME GrantInv, NEW t \in Tasks, NEW g \in Agents, NEW r \in Requests,
         ClaimAdmitted(t, g, r) \/ ClaimObserved(t, g, r)
  PROVE  GrantsAreOwned' /\ PermitAdded(r, t, g)
<1> DEFINE a == PoolOf(t)
           c == IsCompletion(t)
<1>1. /\ ClaimTask(t, g) /\ ~Used(r) /\ a # None /\ answer' = <<r, started + 1>>
      /\ UNCHANGED now /\ InsertPermit(r, t, g, TaskModel[t], a, c)
  BY DEF ClaimAdmitted, ClaimObserved, Answer
<1>2. a \in Accounts /\ c \in BOOLEAN
  BY <1>1, Starts DEF GrantInv
<1>3. \E table :
        /\ NewRow(table, t, a, c)
        /\ table = [i \in AttemptIds |-> table[i]]
        /\ \A i \in AttemptIds : RowOK(table[i]) /\ (table[i].state = "none" <=> attempt[i].state = "none")
  <2>1. TablesInv /\ RowsInv
    BY DEF GrantInv, TablesInv
  <2>2. CASE ClaimAdmitted(t, g, r)
    <3>1. NewRow(Swept(At(a)), t, a, c)
      BY <2>1, <2>2, Inserted DEF ClaimAdmitted, StartAdmitted
    <3> QED BY <2>1, <3>1, SweptRows
  <2>3. CASE ClaimObserved(t, g, r)
    <3>1. NewRow(Superseded(Swept(At(a)), t), t, a, c)
      BY <2>1, <2>3, Inserted DEF ClaimObserved, StartObserved
    <3> QED BY <2>1, <3>1, SupersededRows
  <2> QED BY <2>2, <2>3
<1> HIDE DEF c
<1>4. PermitAdded(r, t, g)
  BY <1>1, <1>2 DEF InsertPermit, PermitAdded, UsedRequests
<1> HIDE DEF a
<1>5. /\ permit'[r].task = t /\ permit'[r].agent = g /\ permit'[r].current = started + 1
      /\ NewestOf(t, r)'
  BY <1>4, PermitAdds, NewestAfterAdding DEF GrantInv
<1>6. attempt'[started + 1].state = "active" /\ attempt'[started + 1].expires = At(a) + LeaseTTL
  BY <1>2, <1>3, RowAdded DEF GrantInv
<1>7. At(a) \in Nat /\ At(a) >= now /\ now \in Nat
  BY <1>2, SettledBounds DEF GrantInv, TablesInv, PoolInv, PoolTypes
<1>8. attempt'[started + 1].expires > now'
  BY <1>1, <1>6, <1>7, PermitConstants
<1>9. state'[t] = "in_progress" /\ assignee'[t] = g
  BY <1>1 DEF ClaimTask, GrantInv
<1>10. GrantsAreOwned'
  <2>1. answer'[1] = r /\ answer'[2] = started + 1
    BY <1>1
  <2> QED BY <1>5, <1>6, <1>8, <1>9, <2>1 DEF GrantsAreOwned, Live
<1> QED BY <1>4, <1>10

\* A claim that is answered with an attempt owns the task, however often its request is
\* repeated: the attempt runs, it is the task's newest, and the task is its agent's
\* (ClaimResearchTask, replayClaim).
THEOREM GrantsAreOwnedAlways == Spec => []GrantsAreOwned
<1>1. ASSUME GrantInv, GrantsAreOwned, [Next]_vars PROVE GrantsAreOwned'
  <2>1. CASE UNCHANGED vars
    BY <1>1, <2>1 DEF vars, taskVars, permitVars, GrantsAreOwned, NewestOf, PermitsOf, Used, Live
  <2>2. CASE answer' = NoAnswer
    BY <2>2 DEF GrantsAreOwned, NoAnswer
  <2>3. ASSUME NEW t \in Tasks, NEW g \in Agents, Claim(t, g) PROVE GrantsAreOwned'
    <3>1. CASE ClaimUnpaced(t, g) \/ ClaimUnmapped(t, g)
      BY <2>2, <3>1 DEF ClaimUnpaced, ClaimUnmapped, Quiet
    <3>2. ASSUME NEW r \in Requests, ClaimAdmitted(t, g, r) \/ ClaimObserved(t, g, r) PROVE GrantsAreOwned'
      BY <1>1, <3>2, GrantedByClaim
    <3>3. ASSUME NEW r \in Requests, ClaimDenied(t, g, r) PROVE GrantsAreOwned'
      BY <2>2, <3>3 DEF ClaimDenied, Quiet
    <3>4. ASSUME NEW r \in Requests, ClaimReplayed(t, g, r) PROVE GrantsAreOwned'
      <4>1. /\ answer' = <<r, permit[r].current>> /\ StillOwns(r, t, g)
            /\ UNCHANGED <<now, permit, attempt, state, assignee>>
            /\ permit[r].task = t /\ permit[r].agent = g
        BY <3>4 DEF ClaimReplayed, BoundTo, Answer, permitVars, taskVars
      <4>2. answer'[1] = r /\ answer'[2] = permit[r].current
        BY <4>1
      <4> QED BY <4>1, <4>2 DEF GrantsAreOwned, StillOwns, Live, NewestOf, PermitsOf, Used
    <3> QED BY <2>3, <3>1, <3>2, <3>3, <3>4 DEF Claim
  <2>4. CASE \/ Tick \/ ClockSetBack \/ Interface \/ SetResearchPolicy(env.policies[starts + 1])
             \/ \E t \in Tasks, g \in Agents : Work(t, g)
             \/ \E r \in Requests : RenewResearchAttempt(r) \/ FinalizeResearchAttempt(r)
             \/ \E t \in Tasks : SendBack(t) \/ TakeAway(t)
    <3>1. answer' = NoAnswer
      BY <2>4 DEF Tick, ClockSetBack, Interface, SetResearchPolicy, RequestResearchPermit,
         StartNextResearchAttempt, ExpireResearchAttempts, Work, HeartbeatTask, SubmitTask, UnclaimTask,
         RenewResearchAttempt, FinalizeResearchAttempt, SendBack, TakeAway, Quiet
    <3> QED BY <2>2, <3>1
  <2> QED BY <1>1, <2>1, <2>3, <2>4 DEF Next
<1> QED BY InitGrants, GrantInvKept, <1>1, PTL DEF Spec

-----------------------------------------------------------------------------
(* Tasks and their agents *)

\* Where every policy enforces and only agents ask for starts, what holds of the assignees.
Enforced == (\A i \in DOMAIN env.policies : env.policies[i].mode = "enforce") /\ "interface" \notin env.does
NewestHolds ==
  /\ mode \in {"off", "enforce"}
  /\ \A t \in Tasks : state[t] = "in_progress" =>
       \E r : NewestOf(t, r) /\ permit[r].agent = assignee[t]
AssigneeInv == Enforced => NewestHolds

LEMMA AssigneeKept ==
  ASSUME GrantInv, AssigneeInv, [Next]_vars
  PROVE  AssigneeInv'
<1>0. UNCHANGED env
  BY WaysToStep DEF GrantInv, Restarted, SetResearchPolicy, Worn, Admitted, Observed
<1> SUFFICES ASSUME Enforced PROVE NewestHolds'
  BY <1>0 DEF AssigneeInv, Enforced
<1> DEFINE Goal == /\ mode' \in {"off", "enforce"}
                   /\ \A t \in Tasks : state'[t] = "in_progress" =>
                        \E r : NewestOf(t, r)' /\ permit'[r].agent = assignee'[t]
<1>1. /\ mode \in {"off", "enforce"}
      /\ \A t \in Tasks : state[t] = "in_progress" =>
           \E r : NewestOf(t, r) /\ permit[r].agent = assignee[t]
  BY DEF AssigneeInv, NewestHolds
<1>2. ASSUME permit' = permit, mode' \in {"off", "enforce"},
             \A t \in Tasks : state'[t] = "in_progress" => state[t] = "in_progress" /\ assignee'[t] = assignee[t]
      PROVE  Goal
  BY <1>1, <1>2 DEF NewestOf, PermitsOf, Used
<1>3. ASSUME UNCHANGED vars \/ Tick \/ ClockSetBack PROVE Goal
  BY <1>1, <1>2, <1>3 DEF vars, Tick, ClockSetBack, permitVars, taskVars
<1>4. ASSUME starts < Len(env.policies), SetResearchPolicy(env.policies[starts + 1]) PROVE Goal
  <2>1. mode' = "enforce"
    BY <1>4, PoliciesAreValid DEF SetResearchPolicy, Enforced, GrantInv, TablesInv, PoolInv
  <2> QED BY <1>2, <1>4, <2>1 DEF SetResearchPolicy, permitVars, taskVars
<1>5. ASSUME NEW t \in Tasks, NEW g \in Agents, Claim(t, g) PROVE Goal
  <2>1. CASE ClaimUnmapped(t, g)
    BY <1>1, <1>2, <2>1 DEF ClaimUnmapped, permitVars, taskVars
  <2>2. ASSUME NEW r \in Requests, ClaimAdmitted(t, g, r) PROVE Goal
    <3>1. PermitAdded(r, t, g)
      BY <2>2, GrantedByClaim
    <3>2. NewestOf(t, r)' /\ permit'[r].agent = g
      BY <3>1, NewestAfterAdding, PermitAdds DEF GrantInv
    <3>3. \A u, q : u # t /\ NewestOf(u, q) => NewestOf(u, q)' /\ permit'[q] = permit[q]
      BY <3>1, NewestAfterAdding DEF GrantInv
    <3>4. /\ assignee'[t] = g /\ UNCHANGED mode
          /\ \A u \in Tasks \ {t} : state'[u] = state[u] /\ assignee'[u] = assignee[u]
      BY <2>2 DEF ClaimAdmitted, ClaimTask, GrantInv
    <3> QED BY <1>1, <3>2, <3>3, <3>4
  <2>3. ASSUME NEW r \in Requests, ClaimDenied(t, g, r) \/ ClaimReplayed(t, g, r) PROVE Goal
    BY <1>1, <1>2, <2>3 DEF ClaimDenied, ClaimReplayed, StartDenied, permitVars, taskVars
  <2> QED BY <1>1, <1>5, <2>1, <2>2, <2>3 DEF Claim, ClaimUnpaced, ClaimObserved
<1>6. ASSUME NEW t \in Tasks, NEW g \in Agents, Work(t, g) PROVE Goal
  <2>1. permit' = permit /\ mode' = mode
    BY <1>6 DEF Work, HeartbeatTask, SubmitTask, UnclaimTask, permitVars
  <2>2. \A u \in Tasks : state'[u] = "in_progress" => state[u] = "in_progress" /\ assignee'[u] = assignee[u]
    BY <1>6 DEF Work, HeartbeatTask, SubmitTask, UnclaimTask, GrantInv
  <2> QED BY <1>1, <1>2, <2>1, <2>2
<1>7. ASSUME \E r \in Requests : RenewResearchAttempt(r) \/ FinalizeResearchAttempt(r) PROVE Goal
  BY <1>1, <1>2, <1>7 DEF RenewResearchAttempt, FinalizeResearchAttempt, taskVars
<1>8. ASSUME NEW t \in Tasks, SendBack(t) \/ TakeAway(t) PROVE Goal
  <2>1. permit' = permit /\ mode' = mode
    BY <1>8 DEF SendBack, TakeAway, permitVars
  <2>2. \A u \in Tasks : state'[u] = "in_progress" => state[u] = "in_progress" /\ assignee'[u] = assignee[u]
    BY <1>8 DEF SendBack, TakeAway, GrantInv
  <2> QED BY <1>1, <1>2, <2>1, <2>2
<1>9. ~Interface
  BY DEF Enforced, Interface
<1> HIDE DEF Goal
<1>10. Goal
  BY <1>3, <1>4, <1>5, <1>6, <1>7, <1>8, <1>9 DEF Next
<1> QED BY <1>10 DEF Goal, NewestHolds

\* Where the server enforces, whoever the fence turns away has lost the task as well: the
\* agent a task is assigned to is that of its newest permit (ClaimResearchTask,
\* fenceResearchAttempt).
THEOREM AssigneeHoldsNewestPermitAlways == Spec => []AssigneeHoldsNewestPermit
<1>1. Init => AssigneeInv
  BY DEF Init, AssigneeInv, NewestHolds
<1>2. GrantInv /\ AssigneeInv /\ [Next]_vars => (GrantInv /\ AssigneeInv)'
  BY GrantInvKept, AssigneeKept
<1>3. GrantInv /\ AssigneeInv => AssigneeHoldsNewestPermit
  <2>1. ASSUME GrantInv, AssigneeInv, Enforced, NEW t \in Tasks, state[t] = "in_progress"
        PROVE  AgentOfLatest(t) = assignee[t]
    <3>1. PICK r : NewestOf(t, r) /\ permit[r].agent = assignee[t]
      BY <2>1 DEF AssigneeInv, NewestHolds
    <3> QED BY <2>1, <3>1, NewestIsOne DEF GrantInv
  <2> QED BY <2>1 DEF AssigneeHoldsNewestPermit, Enforced
<1> QED BY InitGrants, <1>1, <1>2, <1>3, PTL DEF Spec

\* Under enforcement a task whose dispatch is renewed is not given to another agent,
\* although its own lease has run out (reserveAttempt).
THEOREM LiveDispatchKeepsTaskAlways == Spec => LiveDispatchKeepsTask
<1> DEFINE Kept(t, i) ==
      /\ mode = "enforce"
      /\ attempt[i].task = t /\ attempt[i].state = "active"
      /\ \A a \in Accounts : attempt[i].expires > At(a)
      /\ state[t] = "in_progress" /\ state'[t] = "in_progress"
      => assignee'[t] = assignee[t]
<1>1. ASSUME GrantInv, [Next]_vars, NEW t \in Tasks, NEW i \in AttemptIds PROVE Kept(t, i)
  <2> USE DEF GrantInv
  <2>1. ASSUME NEW u \in Tasks, NEW g \in Agents, Claim(u, g) PROVE Kept(t, i)
    <3>1. CASE ClaimUnpaced(u, g) \/ ClaimUnmapped(u, g)
      BY <1>1, <3>1 DEF ClaimUnpaced, ClaimUnmapped, taskVars
    <3>2. ASSUME NEW r \in Requests, ClaimAdmitted(u, g, r) PROVE Kept(t, i)
      <4> DEFINE a == PoolOf(u)
      <4>1. a \in Accounts
        BY <1>1, <3>2, Starts DEF ClaimAdmitted
      <4>2. ~Busy(Swept(At(a)), u) /\ ClaimTask(u, g)
        BY <3>2 DEF ClaimAdmitted, StartAdmitted
      <4>3. CASE u # t
        BY <1>1, <4>2, <4>3 DEF ClaimTask
      <4>4. CASE u = t
        <5> HIDE DEF a
        <5>1. SUFFICES ASSUME attempt[i].task = t, attempt[i].state = "active", attempt[i].expires > At(a)
                       PROVE  FALSE
          BY <4>1
        <5>2. attempt[i].expires \in Nat /\ At(a) \in Nat
          BY <1>1, <4>1, SettledBounds DEF TablesInv, RowsInv, RowOK, PoolInv
        <5>3. Swept(At(a))[i] = attempt[i]
          BY <5>1, <5>2 DEF Swept, Overdue
        <5> QED BY <4>2, <4>4, <5>1, <5>3 DEF Busy
      <4> QED BY <4>3, <4>4
    <3>3. ASSUME NEW r \in Requests, ClaimDenied(u, g, r) \/ ClaimReplayed(u, g, r) PROVE Kept(t, i)
      BY <3>3 DEF ClaimDenied, ClaimReplayed, taskVars
    <3> QED BY <2>1, <3>1, <3>2, <3>3 DEF Claim, ClaimObserved
  <2>2. ASSUME NEW u \in Tasks, NEW g \in Agents, Work(u, g) PROVE Kept(t, i)
    BY <1>1, <2>2 DEF Work, HeartbeatTask, SubmitTask, UnclaimTask
  <2>3. ASSUME NEW u \in Tasks, SendBack(u) \/ TakeAway(u) PROVE Kept(t, i)
    BY <1>1, <2>3 DEF SendBack, TakeAway
  <2>4. CASE \/ UNCHANGED vars \/ Tick \/ ClockSetBack \/ Interface
             \/ SetResearchPolicy(env.policies[starts + 1])
             \/ \E r \in Requests : RenewResearchAttempt(r) \/ FinalizeResearchAttempt(r)
    BY <2>4 DEF vars, Tick, ClockSetBack, Interface, SetResearchPolicy, RequestResearchPermit,
       StartNextResearchAttempt, ExpireResearchAttempts, RenewResearchAttempt, FinalizeResearchAttempt, taskVars
  <2> QED BY <1>1, <2>1, <2>2, <2>3, <2>4 DEF Next
<1>2. GrantInv /\ [Next]_vars => [\A t \in Tasks, i \in AttemptIds : Kept(t, i)]_vars
  BY <1>1
<1> QED BY InitGrants, GrantInvKept, <1>2, PTL DEF Spec, LiveDispatchKeepsTask

-----------------------------------------------------------------------------
(* Deferrals *)

\* The quotient that rounds up.
LEMMA RoundedUp ==
  ASSUME NEW x \in Nat \ {0}, NEW r \in Nat \ {0}
  PROVE  LET q == (x + r - 1) \div r
         IN q \in Nat \ {0} /\ r * q >= x /\ r * (q - 1) < x
<1> DEFINE y == x + r - 1
           q == y \div r
<1>1. y \in Nat /\ q \in Int
  OBVIOUS
<1>2. y = r * q + (y % r) /\ y % r \in 0..(r - 1)
  BY <1>1, SMTT(60)
<1> QED BY <1>1, <1>2, SMTT(60)

\* Multiplication distributes over addition.
LEMMA Distributes ==
  \A r \in Nat, x, y \in Int : r * (x + y) = r * x + r * y
OBVIOUS

\* A start that is denied for its rate alone is told to come back when the pool will hold
\* one start again, and not a tick later, if nobody else starts (NotBefore of admit).
THEOREM DeferralIsExactAlways == Spec => []DeferralIsExact
<1>1. ASSUME TablesInv, NEW a \in pool, Settled(a) < StartCost
      PROVE  /\ AllowanceAt(a, NotBefore(a)) >= StartCost
             /\ AllowanceAt(a, NotBefore(a) - 1) < StartCost
  <2> DEFINE n == tokens[a]
             b == burst[a]
             r == rate[a]
             m == settledAt[a]
             h == At(a)
             q == (StartCost - Settled(a) + r - 1) \div r
  <2>1. /\ a \in Accounts
        /\ n \in Nat /\ b \in Nat \ {0} /\ r \in Nat \ {0} /\ m \in Nat /\ now \in Nat
        /\ StartCost \in Nat \ {0}
    BY <1>1, StartCostAssumption DEF TablesInv, PoolInv, PoolTypes
  <2>2. Settled(a) \in Nat /\ h \in Nat /\ h >= m /\ h >= now
    BY <1>1, <2>1, SettledBounds DEF TablesInv, PoolInv
  <2>3. b * StartCost \in Nat /\ b * StartCost >= StartCost
    <3> PICK k \in Nat : b = k + 1
      BY <2>1
    <3>1. b * StartCost = k * StartCost + StartCost /\ k * StartCost \in Nat
      BY <2>1
    <3> QED BY <2>1, <3>1
  <2>4. Settled(a) = n + r * (h - m)
    <3>1. CASE now > m
      <4>1. h = now /\ Settled(a) = Lesser(b * StartCost, n + r * (now - m))
        BY <3>1 DEF At, Later, Settled, AllowanceAt, Refilled
      <4>2. r * (now - m) \in Nat
        BY <2>1, <3>1
      <4> DEFINE full == b * StartCost
                 credit == r * (now - m)
      <4>3. Settled(a) = Lesser(full, n + credit) /\ full \in Nat /\ full >= StartCost /\ credit \in Nat
        BY <2>3, <4>1, <4>2
      <4> HIDE DEF full, credit
      <4>4. Settled(a) = n + credit
        BY <1>1, <2>1, <4>3 DEF Lesser
      <4> QED BY <4>1, <4>4 DEF credit
    <3>2. CASE ~(now > m)
      <4>1. h = m /\ Settled(a) = n
        BY <3>2 DEF At, Later, Settled, AllowanceAt, Refilled
      <4>2. r * (h - m) = 0
        BY <2>1, <4>1
      <4> QED BY <2>1, <4>1, <4>2
    <3> QED BY <3>1, <3>2
  <2>5. q \in Nat \ {0} /\ r * q >= StartCost - Settled(a) /\ r * (q - 1) < StartCost - Settled(a)
    <3>1. StartCost - Settled(a) \in Nat \ {0}
      BY <1>1, <2>1, <2>2
    <3> HIDE DEF r
    <3> QED BY <2>1, <3>1, RoundedUp
  <2>6. NotBefore(a) = h + q
    BY DEF NotBefore, ShortUntil
  <2> HIDE DEF q
  <2>7. r * ((h + q) - m) = r * (h - m) + r * q /\ r * ((h + q - 1) - m) = r * (h - m) + r * (q - 1)
    <3>1. h - m \in Int /\ q - 1 \in Int /\ (h + q) - m = (h - m) + q /\ (h + q - 1) - m = (h - m) + (q - 1)
      BY <2>1, <2>2, <2>5
    <3> HIDE DEF h, m, r
    <3> QED BY <2>1, <2>5, <3>1, Distributes
  <2>8. r * (h - m) \in Int /\ r * q \in Int /\ r * (q - 1) \in Int
    BY <2>1, <2>2, <2>5
  <2> DEFINE full == b * StartCost
             held == r * (h - m)
             refilled == r * q
             short == r * (q - 1)
  <2>9. AllowanceAt(a, h + q) >= StartCost
    <3>1. h + q > m
      BY <2>1, <2>2, <2>5
    <3>2. AllowanceAt(a, h + q) = Lesser(full, n + (held + refilled))
      BY <2>7, <3>1 DEF AllowanceAt, Refilled
    <3>3. Settled(a) = n + held /\ refilled >= StartCost - Settled(a)
      BY <2>4, <2>5
    <3>4. full \in Nat /\ full >= StartCost /\ held \in Int /\ refilled \in Int
      BY <2>3, <2>8
    <3> HIDE DEF full, held, refilled, n
    <3>5. n + (held + refilled) >= StartCost
      BY <2>1, <2>2, <3>3, <3>4
    <3> QED BY <3>2, <3>4, <3>5 DEF Lesser
  <2>10. AllowanceAt(a, h + q - 1) < StartCost
    <3>1. CASE h + q - 1 > m
      <4>1. AllowanceAt(a, h + q - 1) = Lesser(full, n + (held + short))
        BY <2>7, <3>1 DEF AllowanceAt, Refilled
      <4>2. Settled(a) = n + held /\ short < StartCost - Settled(a)
        BY <2>4, <2>5
      <4>3. full \in Nat /\ full >= StartCost /\ held \in Int /\ short \in Int
        BY <2>3, <2>8
      <4>4. n + (held + short) < StartCost
        <5> HIDE DEF full, held, short, n
        <5> QED BY <2>1, <2>2, <4>2, <4>3
      <4>5. AllowanceAt(a, h + q - 1) = n + (held + short)
        <5> HIDE DEF full, held, short, n
        <5> QED BY <4>1, <4>3, <4>4, <2>1 DEF Lesser
      <4> HIDE DEF full, held, short, n
      <4> QED BY <4>4, <4>5
    <3>2. CASE ~(h + q - 1 > m)
      <4>1. h = m
        <5>1. h \in Nat /\ m \in Nat /\ h >= m /\ q \in Nat \ {0}
          BY <2>1, <2>2, <2>5
        <5> HIDE DEF h, m, r
        <5> QED BY <5>1, <3>2
      <4>2. AllowanceAt(a, h + q - 1) = n
        BY <3>2 DEF AllowanceAt, Refilled
      <4>3. held = 0
        BY <2>1, <4>1
      <4>4. Settled(a) = n + held
        BY <2>4
      <4>5. n < StartCost
        <5> HIDE DEF held, n
        <5> QED BY <1>1, <2>1, <4>3, <4>4
      <4> QED BY <4>2, <4>5
    <3> QED BY <3>1, <3>2
  <2>11. NotBefore(a) - 1 = h + q - 1
    <3>1. h \in Nat /\ q \in Nat
      BY <2>1, <2>2, <2>5
    <3> HIDE DEF h
    <3> QED BY <3>1, <2>6
  <2> HIDE DEF h
  <2>12. AllowanceAt(a, NotBefore(a)) >= StartCost
    BY <2>6, <2>9, Zenon
  <2>13. AllowanceAt(a, NotBefore(a) - 1) < StartCost
    BY <2>10, <2>11, Zenon
  <2> QED BY <2>12, <2>13
<1>2. TablesInv => DeferralIsExact
  BY <1>1 DEF DeferralIsExact
<1> QED BY InitTables, TablesKept, <1>2, PTL DEF Spec
=============================================================================
