----------------------------- MODULE BoardProofs ------------------------------
(***************************************************************************)
(* What holds of the task board for any models, ladder, agents and number  *)
(* of tasks and rounds.                                                    *)
(***************************************************************************)
EXTENDS Board, WellFoundedInduction, TLAPS

\* A model that is on the ladder and not its last has a next tier, and that is a
\* model: the first place of a model named twice is defined (nextTier).
LEMMA NextTierIsModel ==
  ASSUME NEW m, HasNextTier(m)
  PROVE  NextTier(m) \in Models
<1> DEFINE At == {i \in DOMAIN Ladder : Ladder[i] = m}
<1>1. Ladder \in Seq(Models) /\ DOMAIN Ladder = 1..Len(Ladder) /\ Len(Ladder) \in Nat
  BY LadderAssumption
<1>2. At \subseteq Nat /\ At # {}
  BY <1>1 DEF HasNextTier
<1>3. PICK j \in At : \A k \in At : ~(<<k, j>> \in OpToRel(<, Nat))
  BY <1>2, NatLessThanWellFounded, WFMin
<1>4. \A k \in At : ~(k < j)
  BY <1>2, <1>3 DEF OpToRel
<1>5. \E i \in DOMAIN Ladder : Ladder[i] = m /\ \A k \in 1..(i - 1) : Ladder[k] # m
  <2>1. \A k \in 1..(j - 1) : Ladder[k] # m
    BY <1>1, <1>4
  <2> QED BY <2>1
<1> DEFINE i == CHOOSE x \in DOMAIN Ladder :
                  Ladder[x] = m /\ \A k \in 1..(x - 1) : Ladder[k] # m
<1>6. i \in DOMAIN Ladder /\ Ladder[i] = m
  BY <1>5
<1>7. i + 1 \in 1..Len(Ladder)
  <2>1. i # Len(Ladder)
    BY <1>6 DEF HasNextTier
  <2> HIDE DEF i
  <2> QED BY <1>1, <1>6, <2>1
<1>8. Ladder[i + 1] \in Models
  BY <1>1, <1>7
<1> QED BY <1>8 DEF NextTier

-----------------------------------------------------------------------------
(* Types *)

\* The part of TypeOK that deciding a round and replacing a row can write.
RowTypes ==
  /\ used \in 0..MaxTasks
  /\ state \in [TaskIds -> States \cup {"absent"}]
  /\ kind \in [TaskIds -> Kinds]
  /\ target \in [TaskIds -> 0..MaxTasks]
  /\ round \in [TaskIds -> 0..MaxRound]
  /\ model \in [TaskIds -> Models]
  /\ reviewModels \in [TaskIds -> Seq(Models)]
  /\ escalate \in [TaskIds -> BOOLEAN]
  /\ deps \in [TaskIds -> SUBSET TaskIds]
  /\ successor \in [TaskIds -> 0..MaxTasks]

\* The rest of it.
OtherTypes ==
  /\ verdict \in [TaskIds -> {"none", "approve", "reject"}]
  /\ assignee \in [TaskIds -> Agents \cup {None}]
  /\ lease \in [TaskIds -> {"none", "live", "expired"}]
  /\ held \in [TaskIds -> BOOLEAN]
  /\ links \in [TaskIds -> SUBSET LinkKinds]
  /\ hasPR \in [TaskIds -> BOOLEAN]
  /\ landingRound \in [TaskIds -> 0..MaxRound]
  /\ landingBy \in [TaskIds -> Attempts \cup {None}]
  /\ \A t \in TaskIds : landingRound[t] = 0 <=> landingBy[t] = None

\* The two parts are the whole of it, before a step and after.
LEMMA TypeParts == (TypeOK <=> RowTypes /\ OtherTypes) /\ (TypeOK' <=> RowTypes' /\ OtherTypes')
BY DEF TypeOK, RowTypes, OtherTypes

\* Replacing a row keeps the types (supersedeTaskTx).
LEMMA SupersedeKeepsTypes ==
  ASSUME RowTypes, NEW p \in TaskIds, NEW st \in [TaskIds -> States \cup {"absent"}],
         NEW m \in Models, NEW rms \in [TaskIds -> Seq(Models)], NEW rm \in Seq(Models),
         NEW first \in States, Supersede(p, st, m, rms, rm, first)
  PROVE  RowTypes'
<1> DEFINE n == used + 1
<1>1. n \in TaskIds /\ used' = n
  BY BoundsAssumption DEF Supersede, RowTypes, TaskIds
<1>2. state' \in [TaskIds -> States \cup {"absent"}] /\ kind' \in [TaskIds -> Kinds]
  BY <1>1 DEF Supersede, RowTypes, States
<1>3. model' \in [TaskIds -> Models] /\ reviewModels' \in [TaskIds -> Seq(Models)]
  BY <1>1 DEF Supersede, RowTypes
<1>4. /\ target' \in [TaskIds -> 0..MaxTasks] /\ round' \in [TaskIds -> 0..MaxRound]
      /\ escalate' \in [TaskIds -> BOOLEAN]
  BY <1>1 DEF Supersede, RowTypes
<1>5. successor' \in [TaskIds -> 0..MaxTasks]
  <2>1. successor' = [successor EXCEPT ![p] = n] /\ n \in 0..MaxTasks
    BY <1>1 DEF Supersede, RowTypes, TaskIds
  <2> QED BY <2>1 DEF RowTypes
<1>6. deps' \in [TaskIds -> SUBSET TaskIds]
  <2> DEFINE own(t) == IF t = n THEN deps[p] ELSE deps[t]
             new(t) == IF p \in own(t) THEN (own(t) \ {p}) \cup {n} ELSE own(t)
  <2>1. deps' = [t \in TaskIds |-> new(t)]
    BY DEF Supersede
  <2>2. \A t \in TaskIds : own(t) \in SUBSET TaskIds
    BY DEF RowTypes
  <2>3. \A t \in TaskIds : new(t) \in SUBSET TaskIds
    BY <1>1, <2>2
  <2> QED BY <2>1, <2>3
<1> QED
  BY <1>1, <1>2, <1>3, <1>4, <1>5, <1>6 DEF RowTypes, TaskIds

\* Deciding a round keeps the types, whatever it decides (aggregateReviewRound).
LEMMA AggregateKeepsTypes ==
  ASSUME RowTypes, NEW p \in TaskIds, NEW st \in [TaskIds -> States \cup {"absent"}],
         NEW vd, NEW hd, NEW rms \in [TaskIds -> Seq(Models)], Aggregate(p, st, vd, hd, rms)
  PROVE  RowTypes'
<1> DEFINE Same == reviewModels' = rms /\ UNCHANGED shapeVars
           Outcomes == {"approved", "done", "ready", "blocked"}
<1>1. \A new \in Outcomes : Settle(p, st, new) \in [TaskIds -> States \cup {"absent"}]
  BY DEF Settle, States
<1>2. CASE Same /\ (state' = st \/ \E new \in Outcomes : state' = Settle(p, st, new))
  BY <1>1, <1>2 DEF RowTypes, shapeVars
<1>3. CASE SpawnMerge(p, st, rms)
  <2> DEFINE n == used + 1
  <2>1. n \in TaskIds /\ used' = n /\ used' \in 0..MaxTasks
    BY <1>3, BoundsAssumption DEF SpawnMerge, RowTypes, TaskIds
  <2>2. state' \in [TaskIds -> States \cup {"absent"}]
    BY <1>1, <1>3, <2>1 DEF SpawnMerge, States
  <2>3. kind' \in [TaskIds -> Kinds] /\ target' \in [TaskIds -> 0..MaxTasks]
    BY <1>3, <2>1 DEF SpawnMerge, RowTypes, Kinds, TaskIds
  <2> QED BY <1>3, <2>1, <2>2, <2>3 DEF SpawnMerge, RowTypes
<1>4. CASE CanEscalate(p) /\ Supersede(p, st, NextTier(model[p]), rms, rms[p], "ready")
  BY <1>4, NextTierIsModel, SupersedeKeepsTypes DEF CanEscalate, States
<1> QED
  BY <1>2, <1>3, <1>4 DEF Aggregate, ApproveRound, RejectRound

\* The initial board has its types.
LEMMA InitTypes == Init => TypeOK
<1>1. /\ DefaultReviewModels[1] \in Models /\ <<>> \in Seq(Models)
      /\ 0 \in 0..MaxTasks /\ 0 \in 0..MaxRound
  BY ReviewersAssumption, BoundsAssumption
<1>2. None \notin Attempts
  BY NullAssumption
<1> QED
  BY <1>1, <1>2 DEF Init, TypeOK, Kinds, States, LinkKinds

\* Every operation of the board keeps the types, and none forgets a column of a
\* landing reservation.
LEMMA NextKeepsTypes == ASSUME TypeOK, [Next]_vars PROVE TypeOK'
<1> USE DEF Rows
<1>a. RowTypes /\ OtherTypes
  BY TypeParts
<1>b. used \in Nat /\ used <= MaxTasks /\ MaxTasks \in Nat /\ MaxRound \in Nat
  BY BoundsAssumption DEF TypeOK
<1>c. Rows \subseteq TaskIds
  BY <1>b DEF TaskIds
<1>0. RowTypes /\ OtherTypes /\ Rows \subseteq TaskIds
  BY <1>a, <1>c
<1>1. CASE Create
  <2>1. PICK b \in Batches, m \in Models, rm \in ReviewLists \cup {<<>>},
             older \in SUBSET Existing : CreateTasks(b, m, rm, older)
    BY <1>1 DEF Create
  <2>2. b \in Seq(SUBSET Nat) /\ \A i \in DOMAIN b : b[i] \subseteq DOMAIN b
    BY InputAssumption
  <2> DEFINE new == {used + i : i \in DOMAIN b}
             named(t) == {used + j : j \in b[t - used]} \cup older
  <2>3. Len(b) \in Nat /\ DOMAIN b = 1..Len(b) /\ used' = used + Len(b) /\ used' \in 0..MaxTasks
    BY <2>1, <2>2, BoundsAssumption DEF CreateTasks, TypeOK
  <2>4. new \subseteq TaskIds /\ older \subseteq TaskIds
    <3>1. \A i \in DOMAIN b : used + i \in 1..MaxTasks
      BY <2>3, <1>b
    <3> QED BY <3>1, <1>c DEF TaskIds, Existing
  <2>5. \A t \in new : named(t) \subseteq TaskIds
    <3> SUFFICES ASSUME NEW t \in new PROVE {used + j : j \in b[t - used]} \subseteq new
      BY <2>4
    <3>1. t - used \in DOMAIN b
      BY <2>3 DEF TypeOK
    <3> QED BY <3>1, <2>2
  <2>6. deps' \in [TaskIds -> SUBSET TaskIds]
    <3>1. deps' = [t \in TaskIds |-> IF t \in new THEN named(t) ELSE deps[t]]
      BY <2>1 DEF CreateTasks
    <3> HIDE DEF new, named
    <3> QED BY <3>1, <2>5 DEF TypeOK
  <2>7. rm \in Seq(Models)
    <3>1. <<>> \in Seq(Models)
      OBVIOUS
    <3> QED BY <3>1, ReviewersAssumption
  <2>8. /\ state' \in [TaskIds -> States \cup {"absent"}] /\ model' \in [TaskIds -> Models]
        /\ reviewModels' \in [TaskIds -> Seq(Models)]
    BY <2>1, <2>7 DEF CreateTasks, TypeOK, States
  <2> QED
    BY <2>1, <2>3, <2>6, <2>8 DEF CreateTasks, TypeOK, claimVars, linkVars, landingVars
<1>2. ASSUME NEW t \in Rows, NEW a \in Agents, Agent(a, t) PROVE TypeOK'
  <2> t \in TaskIds
    BY <1>0
  <2>1. CASE ClaimTask(t, a) \/ HeartbeatTask(t, a) \/ UnclaimTask(t, a) \/ SubmitMerge(t, a)
    <3>1. RowTypes'
      BY <2>1, <1>0 DEF ClaimTask, HeartbeatTask, UnclaimTask, SubmitMerge, RowTypes, States,
         rowVars, shapeVars
    <3>2. OtherTypes'
      BY <2>1, <1>0 DEF ClaimTask, HeartbeatTask, UnclaimTask, SubmitMerge, OtherTypes,
         linkVars, landingVars
    <3> QED BY <3>1, <3>2, TypeParts
  <2>2. ASSUME NEW ls \in Submissions, SubmitWork(t, a, ls) PROVE TypeOK'
    <3> DEFINE rv == Reviewers(t)
               new == (used + 1)..(used + Len(rv))
    <3>1. rv \in Seq(Models)
      BY ReviewersAssumption DEF Reviewers, TypeOK
    <3>2. Len(rv) \in Nat /\ used' = used + Len(rv) /\ used' \in 0..MaxTasks
      BY <2>2, <3>1, BoundsAssumption DEF SubmitWork, TypeOK
    <3>3. \A x \in new : rv[x - used] \in Models
      BY <3>1, <3>2 DEF TypeOK
    <3>4. model' \in [TaskIds -> Models]
      <4>1. model' = [x \in TaskIds |-> IF x \in new THEN rv[x - used] ELSE model[x]]
        BY <2>2 DEF SubmitWork
      <4> HIDE DEF new, rv
      <4> QED BY <4>1, <3>3 DEF TypeOK
    <3>5. /\ round' \in [TaskIds -> 0..MaxRound]
          /\ target' \in [TaskIds -> 0..MaxTasks] /\ kind' \in [TaskIds -> Kinds]
          /\ state' \in [TaskIds -> States \cup {"absent"}]
      <4>1. round[t] + 1 \in 0..MaxRound /\ t \in 0..MaxTasks
        BY <2>2, <1>b DEF SubmitWork, TypeOK
      <4>2. /\ round' = [x \in TaskIds |-> IF x \in new \cup {t} THEN round[t] + 1 ELSE round[x]]
            /\ target' = [x \in TaskIds |-> IF x \in new THEN t ELSE target[x]]
            /\ kind' = [x \in TaskIds |-> IF x \in new THEN "review" ELSE kind[x]]
            /\ state' = [x \in TaskIds |-> IF x \in new THEN "ready"
                                           ELSE IF x = t THEN "review" ELSE state[x]]
        BY <2>2 DEF SubmitWork
      <4> HIDE DEF new, rv
      <4> QED BY <4>1, <4>2 DEF TypeOK, Kinds, States
    <3>6. ls \in SUBSET LinkKinds
      BY InputAssumption
    <3>7. /\ links' \in [TaskIds -> SUBSET LinkKinds] /\ hasPR' \in [TaskIds -> BOOLEAN]
          /\ lease' \in [TaskIds -> {"none", "live", "expired"}]
      BY <2>2, <3>6 DEF SubmitWork, TypeOK
    <3> QED
      BY <2>2, <3>2, <3>4, <3>5, <3>7 DEF SubmitWork, TypeOK, landingVars
  <2>3. ASSUME NEW v \in {"approve", "reject"}, SubmitReview(t, a, v) PROVE TypeOK'
    <3> DEFINE st == [state EXCEPT ![t] = "done"]
               vd == [verdict EXCEPT ![t] = v]
    <3>1. st \in [TaskIds -> States \cup {"absent"}]
      BY <1>0 DEF RowTypes, States
    <3>2. RowTypes'
      <4>1. CASE target[t] # 0 /\ Aggregate(target[t], st, vd, held, reviewModels)
        <5>1. target[t] \in TaskIds
          BY <4>1 DEF TypeOK, TaskIds
        <5> QED BY <4>1, <5>1, <3>1, <1>0, AggregateKeepsTypes DEF RowTypes
      <4>2. CASE state' = st /\ UNCHANGED rowVars
        BY <4>2, <3>1, <1>0 DEF RowTypes, rowVars, shapeVars
      <4> QED BY <2>3, <4>1, <4>2 DEF SubmitReview
    <3>3. OtherTypes'
      BY <2>3, <1>0 DEF SubmitReview, OtherTypes, linkVars, landingVars
    <3> QED BY <3>2, <3>3, TypeParts
  <2> QED BY <1>2, <2>1, <2>2, <2>3 DEF Agent
<1>3. ASSUME NEW t \in Rows, NEW to \in States, MoveTo(t, to) PROVE TypeOK'
  <2>1. t \in TaskIds /\ 0 \in 0..MaxRound
    BY <1>b, <1>c
  <2>2. RowTypes'
    BY <1>3, <1>a, <2>1 DEF MoveTo, RowTypes, rowVars, shapeVars
  <2>3. OtherTypes'
    BY <1>3, <1>a, <2>1 DEF MoveTo, OtherTypes, linkVars
  <2> QED BY <2>2, <2>3, TypeParts
<1>4. ASSUME NEW t \in Rows, Operator(t) PROVE TypeOK'
  <2> t \in TaskIds
    BY <1>0
  <2>1. CASE PromoteTask(t) \/ HoldTask(t)
    BY <2>1 DEF PromoteTask, HoldTask, TypeOK, States, rowVars, shapeVars, claimVars,
       linkVars, landingVars
  <2>2. CASE \E to \in States : TransitionTask(t, to)
    BY <2>2, <1>3 DEF TransitionTask
  <2>3. ASSUME NEW m \in Models, NEW rm \in {reviewModels[t]} \cup ReviewLists, SupersedeTask(t, m, rm)
        PROVE  TypeOK'
    <3>1. rm \in Seq(Models)
      BY ReviewersAssumption DEF TypeOK
    <3>2. RowTypes'
      BY <2>3, <3>1, <1>0, SupersedeKeepsTypes DEF SupersedeTask, RowTypes, States
    <3>3. OtherTypes'
      BY <2>3, <1>0 DEF SupersedeTask, OtherTypes, claimVars, linkVars, landingVars
    <3> QED BY <3>2, <3>3, TypeParts
  <2>4. CASE ReleaseTask(t)
    <3>1. RowTypes'
      <4>1. CASE Aggregate(t, state, verdict, [held EXCEPT ![t] = FALSE], reviewModels)
        BY <4>1, <1>0, AggregateKeepsTypes DEF RowTypes
      <4>2. CASE UNCHANGED <<rowVars, state>>
        BY <4>2, <1>0 DEF RowTypes, rowVars, shapeVars
      <4> QED BY <2>4, <4>1, <4>2 DEF ReleaseTask
    <3>2. OtherTypes'
      BY <2>4, <1>0 DEF ReleaseTask, OtherTypes, claimVars, linkVars, landingVars
    <3> QED BY <3>1, <3>2, TypeParts
  <2>5. ASSUME NEW e \in BOOLEAN, UpdateTaskEscalate(t, e) PROVE TypeOK'
    BY <2>5 DEF UpdateTaskEscalate, TypeOK, claimVars, linkVars, landingVars
  <2>6. ASSUME NEW ds \in SUBSET Existing, UpdateTaskDependsOn(t, ds) PROVE TypeOK'
    BY <2>6, <1>0 DEF UpdateTaskDependsOn, TypeOK, Existing, claimVars, linkVars, landingVars
  <2>7. ASSUME NEW ms \in ReviewLists, UpdateTaskReviewModels(t, ms) PROVE TypeOK'
    <3> DEFINE rms == [reviewModels EXCEPT ![t] = ms]
    <3>1. ms \in Seq(Models)
      BY ReviewersAssumption
    <3>2. rms \in [TaskIds -> Seq(Models)]
      BY <3>1, <1>0 DEF RowTypes
    <3>3. CASE reviewModels' = rms /\ UNCHANGED <<shapeVars, state, claimVars>>
      BY <2>7, <3>2, <3>3 DEF UpdateTaskReviewModels, TypeOK, shapeVars, claimVars, linkVars, landingVars
    <3>4. CASE ReshapeRound(t, ms, rms)
      <4> DEFINE new == {used + i : i \in Missing(t, ms)}
                 st == [x \in TaskIds |-> IF x \in RetiredBy(t, ms) THEN "abandoned"
                                          ELSE IF x \in new THEN "ready" ELSE state[x]]
                 Grow == /\ state' = st
                         /\ used' = used + Len(ms)
                         /\ kind' = [x \in TaskIds |-> IF x \in new THEN "review" ELSE kind[x]]
                         /\ target' = [x \in TaskIds |-> IF x \in new THEN t ELSE target[x]]
                         /\ round' = [x \in TaskIds |-> IF x \in new THEN round[t] ELSE round[x]]
                         /\ model' = [x \in TaskIds |-> IF x \in new THEN ms[x - used] ELSE model[x]]
                         /\ reviewModels' = rms
                         /\ UNCHANGED <<escalate, deps, successor>>
      <4>1. st \in [TaskIds -> States \cup {"absent"}]
        BY <1>0 DEF RowTypes, States
      <4> HIDE DEF st
      <4>2. ASSUME Aggregate(t, st, verdict, held, rms) PROVE RowTypes'
        BY <4>1, <4>2, <3>2, <1>0, AggregateKeepsTypes
      <4>3. ASSUME Grow PROVE RowTypes'
        <5>1. Len(ms) \in Nat /\ used' \in 0..MaxTasks
          BY <3>1, <3>4, <4>3, BoundsAssumption DEF ReshapeRound, TypeOK
        <5>2. \A x \in new : ms[x - used] \in Models
          <6> SUFFICES ASSUME NEW i \in Missing(t, ms) PROVE ms[(used + i) - used] \in Models
            OBVIOUS
          <6>1. i \in DOMAIN ms /\ i \in Nat
            BY <3>1 DEF Missing
          <6>2. (used + i) - used = i
            BY <6>1 DEF TypeOK
          <6> QED BY <6>1, <6>2, <3>1
        <5> HIDE DEF new
        <5>3. model' \in [TaskIds -> Models]
          BY <4>3, <5>2 DEF TypeOK
        <5>4. /\ kind' \in [TaskIds -> Kinds] /\ target' \in [TaskIds -> 0..MaxTasks]
              /\ round' \in [TaskIds -> 0..MaxRound]
          <6>1. t \in 0..MaxTasks
            BY <1>b
          <6> QED BY <4>3, <6>1 DEF TypeOK, Kinds
        <5> QED BY <3>2, <4>1, <4>3, <5>1, <5>3, <5>4, <1>0 DEF RowTypes
      <4>4. RowTypes'
        BY <3>4, <4>2, <4>3 DEF ReshapeRound, st
      <4>5. /\ assignee' \in [TaskIds -> Agents \cup {None}]
            /\ lease' \in [TaskIds -> {"none", "live", "expired"}]
        BY <3>4 DEF ReshapeRound, TypeOK
      <4>6. OtherTypes'
        BY <2>7, <4>5, <1>0 DEF UpdateTaskReviewModels, OtherTypes, linkVars, landingVars
      <4> QED BY <4>4, <4>6, TypeParts
    <3> QED BY <2>7, <3>3, <3>4 DEF UpdateTaskReviewModels
  <2> QED BY <1>4, <2>1, <2>2, <2>3, <2>4, <2>5, <2>6, <2>7 DEF Operator
<1>5. ASSUME NEW t \in Rows, Converge(t) \/ LeaseExpires(t) PROVE TypeOK'
  <2>1. t \in TaskIds /\ 0 \in 0..MaxRound
    BY <1>b, <1>c
  <2>2. RowTypes'
    BY <1>5, <1>a, <2>1 DEF Converge, LeaseExpires, RowTypes, States, rowVars, shapeVars
  <2>3. OtherTypes'
    BY <1>5, <1>a, <2>1 DEF Converge, LeaseExpires, OtherTypes, rowVars, shapeVars, linkVars, landingVars
  <2> QED BY <2>2, <2>3, TypeParts
<1>6. ASSUME NEW t \in Rows, NEW x \in Attempts, Approve(t, x) PROVE TypeOK'
  <2>1. ASSUME NEW r \in 1..MaxRound, BeginLanding(t, r, x) PROVE TypeOK'
    BY <2>1, <1>0, NullAssumption, BoundsAssumption DEF BeginLanding, Reserve, TypeOK, rowVars,
       shapeVars, claimVars, linkVars
  <2>2. CASE CancelLanding(t, x)
    BY <2>2, <1>0, BoundsAssumption DEF CancelLanding, TypeOK, rowVars, shapeVars, claimVars, linkVars
  <2>3. CASE CompleteLanding(t, x)
    BY <2>3, <1>3 DEF CompleteLanding, States
  <2> QED BY <1>6, <2>1, <2>2, <2>3 DEF Approve
<1>7. CASE UNCHANGED vars
  BY <1>7 DEF vars, TypeOK
<1> QED
  BY <1>1, <1>2, <1>4, <1>5, <1>6, <1>7 DEF Next, Users

\* In every reachable state every column has its type, and a row with no landing
\* reservation names no owner of one.
THEOREM TypesHold == Spec => []TypeOK
BY InitTypes, NextKeepsTypes, PTL DEF Spec

-----------------------------------------------------------------------------
(* What a step may do to approved work *)

\* The rows that make up p's round do not change once they are done or withdrawn,
\* and no other row joins them.
RoundKept(p) ==
  /\ round'[p] = round[p]
  /\ \A c \in TaskIds :
       /\ target'[c] = p /\ round'[c] = round[p] => target[c] = p /\ round[c] = round[p]
       /\ target[c] = p /\ state[c] \in {"done", "abandoned"} =>
            /\ target'[c] = target[c] /\ round'[c] = round[c]
            /\ state'[c] = state[c] /\ verdict'[c] = verdict[c]

\* A unanimous round whose rows are kept stays unanimous.
LEMMA UnanimousKept ==
  ASSUME NEW p \in TaskIds, Unanimous(p), RoundKept(p)
  PROVE  Unanimous(p)'
<1>1. PICK d \in TaskIds : target[d] = p /\ round[d] = round[p] /\ state[d] # "abandoned"
  BY DEF Unanimous, RoundTasks
<1>2. state[d] = "done"
  BY <1>1 DEF Unanimous, RoundTasks
<1>3. d \in RoundTasks(p, state)'
  BY <1>1, <1>2 DEF RoundKept, RoundTasks
<1>4. ASSUME NEW c \in RoundTasks(p, state)' PROVE (state[c] = "done" /\ verdict[c] = "approve")'
  <2>1. c \in TaskIds /\ target[c] = p /\ round[c] = round[p] /\ state'[c] # "abandoned"
    BY <1>4 DEF RoundKept, RoundTasks
  <2>2. state[c] # "abandoned"
    BY <2>1 DEF RoundKept
  <2>3. state[c] = "done" /\ verdict[c] = "approve"
    BY <2>1, <2>2 DEF Unanimous, RoundTasks
  <2> QED BY <2>1, <2>3 DEF RoundKept
<1> QED BY <1>3, <1>4 DEF Unanimous

\* An operation that inserts no row, submits no work and decides no round keeps
\* the invariant if it keeps what it says of reservations and claims.
LEMMA QuietStep ==
  ASSUME TypeOK, BoardInv, UNCHANGED <<used, kind, target, round, links>>,
         \A x \in TaskIds : state'[x] = "absent" <=> state[x] = "absent",
         \A x \in TaskIds : state'[x] = "approved" => state[x] = "approved",
         \A x \in TaskIds : state[x] \in {"done", "abandoned"} =>
                              state'[x] = state[x] /\ verdict'[x] = verdict[x],
         \A x \in TaskIds : kind[x] = "implement" /\ state'[x] = "review" => state[x] = "review",
         ReservationPinsApproval', ClaimedIsReclaimable'
  PROVE  BoardInv'
<1>1. BlankRows'
  BY DEF BoardInv, BlankRows
<1>2. TargetsAreWork'
  <2> SUFFICES ASSUME NEW c \in TaskIds, target[c] # 0
               PROVE  /\ kind[c] # "implement" /\ kind[target[c]] = "implement"
                      /\ round[target[c]] > 0 /\ state'[target[c]] # "absent"
    BY DEF TargetsAreWork
  <2>1. target[c] \in TaskIds
    BY DEF TypeOK, TaskIds
  <2> QED BY <2>1 DEF BoardInv, TargetsAreWork
<1>3. SubmittedIsWork'
  BY DEF BoardInv, SubmittedIsWork
<1>4. ApprovedIsUnanimous'
  <2> SUFFICES ASSUME NEW p \in TaskIds, state'[p] = "approved" PROVE Unanimous(p)'
    BY DEF ApprovedIsUnanimous
  <2>1. Unanimous(p)
    BY DEF BoardInv, ApprovedIsUnanimous
  <2>2. RoundKept(p)
    BY DEF RoundKept
  <2> QED BY <2>1, <2>2, UnanimousKept
<1> QED BY <1>1, <1>2, <1>3, <1>4 DEF BoardInv

\* What deciding p's round does to the rows: it inserts at most one row, settles
\* p and leaves every other row as the transaction had it.
LEMMA AggregateEffect ==
  ASSUME RowTypes, NEW p \in TaskIds, p <= used,
         NEW st \in [TaskIds -> States \cup {"absent"}],
         landingRound[p] # 0 => st[p] = "approved",
         NEW vd, NEW hd, NEW rms, Aggregate(p, st, vd, hd, rms)
  PROVE  /\ used' \in {used, used + 1} /\ round' = round
         /\ \A x \in TaskIds : x # used + 1 \/ used' = used =>
              /\ kind'[x] = kind[x] /\ target'[x] = target[x]
              /\ x # p => state'[x] = st[x]
         /\ used' = used + 1 =>
              /\ used' \in TaskIds /\ state'[used'] = "ready"
              /\ \/ target'[used'] = target[used'] 
                 \/ target'[used'] = p /\ kind'[used'] = "merge"
         /\ state'[p] \in {st[p], "approved", "done", "ready", "blocked", "superseded"}
         /\ \/ used' = used /\ state' = st
            \/ RoundTasks(p, st) # {} /\ state'[p] # "approved"
            \/ RoundTasks(p, st) # {} /\ st[p] = "approved"
            \/ RoundFull(p, st) /\ RoundApproved(p, st, vd)
         /\ landingRound[p] # 0 => state'[p] = "approved"
<1> DEFINE n == used + 1
           Outcomes == {"approved", "done", "ready", "blocked"}
           Same == used' = used /\ round' = round /\ kind' = kind /\ target' = target
<1>1. used \in Nat /\ n # p
  BY BoundsAssumption DEF RowTypes, TaskIds
<1>2. \A new \in Outcomes : /\ Settle(p, st, new)[p] \in {st[p], new}
                            /\ landingRound[p] # 0 => Settle(p, st, new)[p] = "approved"
                            /\ \A x \in TaskIds : x # p => Settle(p, st, new)[x] = st[x]
                            /\ Settle(p, st, new) \in [TaskIds -> States \cup {"absent"}]
  BY DEF Settle, States
<1>3. CASE Undecided(p, st, hd) /\ state' = st /\ Same
  BY <1>3, <1>1
<1>4. Decided(p, st, hd) => RoundFull(p, st) /\ RoundTasks(p, st) # {}
  BY DEF Decided, RoundFull
<1>5. CASE /\ Decided(p, st, hd) /\ RoundApproved(p, st, vd) /\ Same
           /\ \E new \in {"approved", "done"} : state' = Settle(p, st, new)
  BY <1>1, <1>2, <1>4, <1>5
<1>6. CASE Decided(p, st, hd) /\ RoundApproved(p, st, vd) /\ SpawnMerge(p, st, rms)
  <2>1. n \in TaskIds /\ used' = n /\ round' = round
    BY <1>1, <1>6, BoundsAssumption DEF SpawnMerge, TaskIds
  <2>2. /\ state' = [Settle(p, st, "approved") EXCEPT ![n] = "ready"]
        /\ kind' = [kind EXCEPT ![n] = "merge"] /\ target' = [target EXCEPT ![n] = p]
    BY <1>6 DEF SpawnMerge
  <2> QED BY <1>1, <1>2, <1>4, <1>6, <2>1, <2>2 DEF RowTypes
<1>7. CASE /\ Decided(p, st, hd) /\ Same
           /\ \E new \in {"ready", "blocked"} : state' = Settle(p, st, new)
  BY <1>1, <1>2, <1>4, <1>7
<1>8. CASE Decided(p, st, hd) /\ Supersede(p, st, NextTier(model[p]), rms, rms[p], "ready")
  <2>1. n \in TaskIds /\ used' = n /\ round' = round /\ target' = target
    BY <1>1, <1>8, BoundsAssumption DEF Supersede, TaskIds
  <2>2. /\ state' = [st EXCEPT ![n] = "ready", ![p] = "superseded"]
        /\ kind' = [kind EXCEPT ![n] = kind[p]]
        /\ landingRound[p] = 0
    BY <1>8 DEF Supersede
  <2> QED BY <1>1, <1>4, <1>8, <2>1, <2>2 DEF RowTypes
<1> QED
  BY <1>3, <1>5, <1>6, <1>7, <1>8
  DEF Aggregate, ApproveRound, RejectRound, shapeVars

\* An operation that first votes on or withdraws open rows of p's round, giving
\* the rows the states st, and then decides the round, keeps the invariant.
LEMMA DecisionKeepsInv ==
  ASSUME TypeOK, BoardInv, NEW p \in TaskIds, p <= used,
         NEW st \in [TaskIds -> States \cup {"absent"}],
         \A x \in TaskIds : st[x] # state[x] =>
           /\ target[x] = p /\ state[x] \notin {"done", "abandoned"}
           /\ st[x] \in {"done", "abandoned"},
         \A x \in TaskIds : verdict'[x] # verdict[x] =>
           target[x] = p /\ state[x] \notin {"done", "abandoned"},
         \A x \in TaskIds : st[x] = "in_progress" =>
           assignee'[x] = assignee[x] /\ lease'[x] = lease[x],
         UNCHANGED <<links, landingRound, landingBy>>,
         NEW hd, NEW rms, Aggregate(p, st, verdict', hd, rms)
  PROVE  BoardInv'
<1> DEFINE n == used + 1
<1>0. used \in Nat /\ MaxTasks \in Nat
  BY BoundsAssumption DEF TypeOK
<1>a. \A x \in TaskIds : target[x] # 0 => target[x] \in TaskIds /\ target[target[x]] = 0
  <2> SUFFICES ASSUME NEW x \in TaskIds, target[x] # 0
               PROVE  target[x] \in TaskIds /\ target[target[x]] = 0
    OBVIOUS
  <2>1. target[x] \in TaskIds
    <3>1. target[x] \in 0..MaxTasks /\ MaxTasks \in Nat
      BY BoundsAssumption DEF TypeOK
    <3> QED BY <3>1 DEF TaskIds
  <2>2. kind[target[x]] = "implement"
    BY DEF BoardInv, TargetsAreWork
  <2> QED BY <2>1, <2>2 DEF BoardInv, TargetsAreWork
<1>b. st[p] = state[p]
  <2>1. p # 0
    BY DEF TaskIds
  <2> QED BY <2>1, <1>a
<1>c. landingRound[p] # 0 => st[p] = "approved"
  BY <1>b DEF BoardInv, ReservationPinsApproval
<1>1. /\ used' \in {used, n} /\ round' = round
      /\ \A x \in TaskIds : x # n \/ used' = used =>
           /\ kind'[x] = kind[x] /\ target'[x] = target[x]
           /\ x # p => state'[x] = st[x]
      /\ used' = n =>
           /\ used' \in TaskIds /\ state'[used'] = "ready"
           /\ \/ target'[used'] = target[used']
              \/ target'[used'] = p /\ kind'[used'] = "merge"
      /\ state'[p] \in {st[p], "approved", "done", "ready", "blocked", "superseded"}
      /\ \/ used' = used /\ state' = st
         \/ RoundTasks(p, st) # {} /\ state'[p] # "approved"
         \/ RoundTasks(p, st) # {} /\ st[p] = "approved"
         \/ RoundFull(p, st) /\ RoundApproved(p, st, verdict')
      /\ landingRound[p] # 0 => state'[p] = "approved"
  <2>1. RowTypes
    BY TypeParts
  <2> QED BY <2>1, <1>c, AggregateEffect
\* A row that was not there is blank.
<1>2. used' = n => /\ n \in TaskIds /\ state[n] = "absent" /\ n # p
                   /\ target[n] = 0 /\ round[n] = 0 /\ links[n] = {}
  BY <1>0, <1>1 DEF BoardInv, BlankRows, TaskIds
<1>3. \A x \in TaskIds : st[x] # state[x] => state[x] # "absent" /\ x # n
  BY <1>0, <1>a DEF BoardInv, BlankRows, TaskIds
\* Only work has a round.
<1>4. RoundTasks(p, st) # {} =>
        /\ kind[p] = "implement" /\ round[p] > 0 /\ state[p] # "absent" /\ target[p] = 0
        /\ \E c \in TaskIds : target[c] = p
  <2> SUFFICES ASSUME NEW c \in TaskIds, target[c] = p
               PROVE  kind[p] = "implement" /\ round[p] > 0 /\ state[p] # "absent" /\ target[p] = 0
    BY DEF RoundTasks
  <2> QED BY <1>0, <1>a DEF BoardInv, TargetsAreWork, TaskIds
<1>5. used' = n \/ state' # st => RoundTasks(p, st) # {}
  BY <1>0, <1>1 DEF RoundFull
<1>6. BlankRows'
  <2> SUFFICES ASSUME NEW t \in TaskIds
               PROVE  /\ t > used' => state'[t] = "absent"
                      /\ state'[t] = "absent" => target'[t] = 0 /\ round'[t] = 0 /\ links'[t] = {}
    BY DEF BlankRows
  <2>1. CASE used' = n /\ t = n
    BY <2>1, <1>1, <1>0
  <2>2. CASE t # p /\ ~(used' = n /\ t = n)
    <3>1. state'[t] = st[t] /\ target'[t] = target[t] /\ round'[t] = round[t] /\ links'[t] = links[t]
      BY <2>2, <1>1
    <3>2. st[t] = state[t] \/ (state[t] # "absent" /\ st[t] # "absent")
      BY <1>3
    <3>3. t > used' => t > used
      BY <1>0, <1>1 DEF TaskIds
    <3> QED BY <3>1, <3>2, <3>3 DEF BoardInv, BlankRows
  <2>3. CASE t = p
    <3>1. ~(t > used')
      BY <2>3, <1>0, <1>1 DEF TaskIds
    <3>2. state'[t] = "absent" => state[t] = "absent"
      BY <2>3, <1>1, <1>b
    <3>3. target'[t] = target[t] /\ round'[t] = round[t] /\ links'[t] = links[t]
      BY <2>3, <1>1, <1>2
    <3> QED BY <3>1, <3>2, <3>3 DEF BoardInv, BlankRows
  <2> QED BY <2>1, <2>2, <2>3
<1>7. TargetsAreWork'
  <2> SUFFICES ASSUME NEW c \in TaskIds, target'[c] # 0
               PROVE  /\ kind'[c] # "implement" /\ kind'[target'[c]] = "implement"
                      /\ round'[target'[c]] > 0 /\ state'[target'[c]] # "absent"
    BY DEF TargetsAreWork
  <2>1. ASSUME NEW q \in TaskIds, kind[q] = "implement", round[q] > 0, state[q] # "absent"
        PROVE  kind'[q] = "implement" /\ round'[q] > 0 /\ state'[q] # "absent"
    <3>1. ~(used' = n /\ q = n)
      BY <2>1, <1>2
    <3> QED BY <2>1, <3>1, <1>1, <1>b, <1>3
  <2>2. CASE used' = n /\ c = n
    BY <2>1, <2>2, <1>1, <1>2, <1>4, <1>5
  <2>3. CASE ~(used' = n /\ c = n)
    <3>1. kind'[c] = kind[c] /\ target'[c] = target[c]
      BY <2>3, <1>1
    <3> QED BY <2>1, <3>1, <1>a DEF BoardInv, TargetsAreWork
  <2> QED BY <2>2, <2>3
<1>8. SubmittedIsWork'
  <2> SUFFICES ASSUME NEW t \in TaskIds
               PROVE  /\ links[t] # {} => kind'[t] = "implement"
                      /\ kind'[t] = "implement" /\ state'[t] = "review" => round'[t] > 0
    BY DEF SubmittedIsWork
  <2>1. CASE used' = n /\ t = n
    BY <2>1, <1>1, <1>2
  <2>2. CASE ~(used' = n /\ t = n)
    <3>1. kind'[t] = kind[t] /\ round'[t] = round[t]
      BY <2>2, <1>1
    <3>2. state'[t] = "review" => state[t] = "review"
      BY <2>2, <1>1, <1>b
    <3> QED BY <3>1, <3>2 DEF BoardInv, SubmittedIsWork
  <2> QED BY <2>1, <2>2
<1>9. ApprovedIsUnanimous'
  <2> SUFFICES ASSUME NEW q \in TaskIds, state'[q] = "approved" PROVE Unanimous(q)'
    BY DEF ApprovedIsUnanimous
  <2>0. ~(used' = n /\ q = n)
    BY <1>1
  <2>1. CASE state[q] = "approved"
    <3>1. Unanimous(q)
      BY <2>1 DEF BoardInv, ApprovedIsUnanimous
    <3>2. RoundKept(q)
      <4>1. round'[q] = round[q]
        BY <1>1
      <4>2. ASSUME NEW c \in TaskIds, target'[c] = q, round'[c] = round[q]
            PROVE  target[c] = q /\ round[c] = round[q]
        <5>1. CASE used' = n /\ c = n
          BY <4>2, <5>1, <1>1, <1>2, <1>4, <1>5
        <5> QED BY <4>2, <5>1, <1>1
      <4>3. ASSUME NEW c \in TaskIds, target[c] = q, state[c] \in {"done", "abandoned"}
            PROVE  /\ target'[c] = target[c] /\ round'[c] = round[c]
                   /\ state'[c] = state[c] /\ verdict'[c] = verdict[c]
        <5>1. ~(used' = n /\ c = n)
          BY <4>3, <1>2
        <5>2. c = p => state' = st
          BY <4>3, <1>0, <1>4, <1>5 DEF TaskIds
        <5> QED BY <4>3, <5>1, <5>2, <1>1
      <4> QED BY <4>1, <4>2, <4>3 DEF RoundKept
    <3> QED BY <3>1, <3>2, UnanimousKept
  <2>2. CASE state[q] # "approved"
    <3>1. q = p /\ state' # st
      BY <2>0, <2>2, <1>1, <1>b
    <3>2. RoundFull(p, st) /\ RoundApproved(p, st, verdict')
      BY <3>1, <2>2, <1>1, <1>b
    <3>3. \A c \in TaskIds : (target'[c] = p /\ round'[c] = round'[p])
                               <=> (target[c] = p /\ round[c] = round[p])
      BY <3>2, <1>1, <1>2, <1>4, <1>0 DEF RoundFull, TaskIds
    <3>4. \A c \in TaskIds : target[c] = p /\ round[c] = round[p] => state'[c] = st[c]
      BY <3>2, <1>1, <1>2, <1>4, <1>0 DEF RoundFull, TaskIds
    <3>5. RoundTasks(p, state)' = RoundTasks(p, st)
      BY <3>3, <3>4 DEF RoundTasks
    <3>6. \A c \in RoundTasks(p, st) : state'[c] = "done" /\ verdict'[c] = "approve"
      BY <3>2, <3>4 DEF RoundFull, RoundApproved, RoundTasks
    <3> QED BY <3>1, <3>2, <3>5, <3>6 DEF Unanimous, RoundFull
  <2> QED BY <2>1, <2>2
<1>10. ReservationPinsApproval'
  <2> SUFFICES ASSUME NEW t \in TaskIds, landingRound[t] # 0
               PROVE  /\ state'[t] = "approved" /\ landingRound[t] = round'[t]
                      /\ "commit" \in links[t] /\ landingBy[t] # None
    BY DEF ReservationPinsApproval
  <2>1. /\ state[t] = "approved" /\ landingRound[t] = round[t]
        /\ "commit" \in links[t] /\ landingBy[t] # None
    BY DEF BoardInv, ReservationPinsApproval
  <2>2. kind[t] = "implement" /\ ~(used' = n /\ t = n)
    BY <2>1, <1>2 DEF BoardInv, SubmittedIsWork
  <2>3. st[t] = state[t]
    BY <2>2, <1>0 DEF BoardInv, TargetsAreWork, TaskIds
  <2> QED BY <2>1, <2>2, <2>3, <1>1
<1>11. ClaimedIsReclaimable'
  <2> SUFFICES ASSUME NEW t \in TaskIds, state'[t] = "in_progress"
               PROVE  assignee'[t] # None /\ lease'[t] # "none"
    BY DEF ClaimedIsReclaimable
  <2>1. st[t] = "in_progress"
    BY <1>1
  <2>2. state[t] = "in_progress"
    BY <2>1
  <2> QED BY <2>1, <2>2 DEF BoardInv, ClaimedIsReclaimable
<1> QED BY <1>6, <1>7, <1>8, <1>9, <1>10, <1>11 DEF BoardInv

\* An operation that inserts the rows ins and decides no round keeps the
\* invariant if inserted children are of work that is not approved, and only
\* submitting work in progress gives it a new round.
LEMMA InsertStep ==
  ASSUME TypeOK, BoardInv, NEW ins \in SUBSET TaskIds, used' \in Nat, used <= used',
         UNCHANGED <<verdict, landingRound, landingBy>>,
         \A x \in ins :
           /\ used < x /\ x <= used'
           /\ state'[x] \notin {"absent", "approved", "review"} /\ links'[x] = links[x]
           /\ target'[x] # 0 =>
                /\ kind'[x] # "implement" /\ target'[x] \in TaskIds \ ins
                /\ kind[target'[x]] = "implement" /\ round'[target'[x]] > 0
                /\ state[target'[x]] \notin {"absent", "approved"},
         \A x \in TaskIds \ ins :
           /\ kind'[x] = kind[x] /\ target'[x] = target[x]
           /\ \/ round'[x] = round[x] /\ links'[x] = links[x]
              \/ /\ state[x] = "in_progress" /\ kind[x] = "implement"
                 /\ round'[x] = round[x] + 1
           /\ state'[x] = "absent" <=> state[x] = "absent"
           /\ state'[x] = "approved" => state[x] = "approved"
           /\ state[x] \in {"done", "abandoned"} => state'[x] = state[x]
           /\ state'[x] = "review" => state[x] = "review" \/ round'[x] > 0
           /\ landingRound[x] # 0 => state'[x] = state[x],
         \A x \in TaskIds : state'[x] = "in_progress" =>
           state[x] = "in_progress" /\ assignee'[x] = assignee[x] /\ lease'[x] = lease[x]
  PROVE  BoardInv'
<1>0. used \in Nat /\ \A x \in TaskIds : x \in Nat /\ round[x] \in Nat
  BY BoundsAssumption DEF TypeOK, TaskIds
\* An inserted row was blank.
<1>1. \A x \in ins : state[x] = "absent" /\ links[x] = {}
  BY <1>0 DEF BoardInv, BlankRows
<1>2. \A c \in TaskIds : target[c] # 0 =>
        /\ kind[c] # "implement" /\ kind[target[c]] = "implement" /\ round[target[c]] > 0
        /\ state[target[c]] # "absent" /\ target[c] \in TaskIds \ ins /\ c \notin ins
  <2> SUFFICES ASSUME NEW c \in TaskIds, target[c] # 0
               PROVE  target[c] \in TaskIds \ ins /\ c \notin ins
    BY DEF BoardInv, TargetsAreWork
  <2>1. target[c] \in 0..MaxTasks /\ MaxTasks \in Nat
    BY BoundsAssumption DEF TypeOK
  <2>2. target[c] \in TaskIds
    BY <2>1 DEF TaskIds
  <2>3. state[target[c]] # "absent" /\ state[c] # "absent"
    BY DEF BoardInv, TargetsAreWork, BlankRows
  <2> QED BY <2>2, <2>3, <1>1
<1>3. BlankRows'
  <2> SUFFICES ASSUME NEW t \in TaskIds
               PROVE  /\ t > used' => state'[t] = "absent"
                      /\ state'[t] = "absent" => target'[t] = 0 /\ round'[t] = 0 /\ links'[t] = {}
    BY DEF BlankRows
  <2>1. CASE t \in ins
    BY <2>1, <1>0
  <2>2. CASE t \notin ins
    <3>1. t > used' => t > used
      BY <1>0
    <3> QED BY <2>2, <3>1 DEF BoardInv, BlankRows
  <2> QED BY <2>1, <2>2
<1>4. TargetsAreWork'
  <2> SUFFICES ASSUME NEW c \in TaskIds, target'[c] # 0
               PROVE  /\ kind'[c] # "implement" /\ kind'[target'[c]] = "implement"
                      /\ round'[target'[c]] > 0 /\ state'[target'[c]] # "absent"
    BY DEF TargetsAreWork
  <2>1. CASE c \in ins
    BY <2>1
  <2>2. CASE c \notin ins
    <3>1. target'[c] = target[c] /\ kind'[c] = kind[c]
      BY <2>2
    <3> DEFINE q == target[c]
    <3>2. q \in TaskIds \ ins /\ round[q] > 0 /\ state[q] # "absent" /\ kind[q] = "implement"
      BY <3>1, <1>2
    <3>3. round'[q] > 0 /\ state'[q] # "absent" /\ kind'[q] = "implement"
      BY <3>2, <1>0
    <3> QED BY <3>1, <3>3, <1>2
  <2> QED BY <2>1, <2>2
<1>5. SubmittedIsWork'
  BY <1>1 DEF BoardInv, SubmittedIsWork
<1>6. ApprovedIsUnanimous'
  <2> SUFFICES ASSUME NEW q \in TaskIds, state'[q] = "approved" PROVE Unanimous(q)'
    BY DEF ApprovedIsUnanimous
  <2>1. q \notin ins /\ state[q] = "approved" /\ round'[q] = round[q]
    OBVIOUS
  <2>2. Unanimous(q)
    BY <2>1 DEF BoardInv, ApprovedIsUnanimous
  <2>3. q # 0
    BY DEF TaskIds
  <2>4. \A c \in TaskIds : target'[c] = q => c \notin ins /\ target[c] = q /\ round'[c] = round[c]
    BY <2>1, <2>3, <1>2
  <2>5. \A c \in TaskIds : target[c] = q =>
          c \notin ins /\ target'[c] = target[c] /\ round'[c] = round[c]
    BY <2>3, <1>2
  <2>6. RoundKept(q)
    BY <2>1, <2>4, <2>5 DEF RoundKept
  <2> QED BY <2>2, <2>6, UnanimousKept
<1>7. ReservationPinsApproval'
  <2> SUFFICES ASSUME NEW t \in TaskIds, landingRound[t] # 0
               PROVE  /\ state'[t] = "approved" /\ landingRound[t] = round'[t]
                      /\ "commit" \in links'[t] /\ landingBy[t] # None
    BY DEF ReservationPinsApproval
  <2>1. /\ state[t] = "approved" /\ landingRound[t] = round[t]
        /\ "commit" \in links[t] /\ landingBy[t] # None
    BY DEF BoardInv, ReservationPinsApproval
  <2> QED BY <2>1, <1>1
<1>8. ClaimedIsReclaimable'
  BY DEF BoardInv, ClaimedIsReclaimable
<1> QED BY <1>3, <1>4, <1>5, <1>6, <1>7, <1>8 DEF BoardInv

\* The same for an operation that moves one row out of a state that is not
\* final, and leaves it without a landing reservation.
LEMMA MoveStep ==
  ASSUME TypeOK, BoardInv, NEW t \in TaskIds, NEW v,
         state' = [state EXCEPT ![t] = v],
         state[t] \notin {"absent", "done", "abandoned"}, v \notin {"absent", "approved"},
         v = "review" => kind[t] # "implement",
         UNCHANGED <<used, kind, target, round, links>>,
         \A x \in TaskIds : state[x] \in {"done", "abandoned"} => verdict'[x] = verdict[x],
         landingRound'[t] = 0, v = "in_progress" => assignee'[t] # None /\ lease'[t] # "none",
         \A x \in TaskIds \ {t} :
           /\ landingRound'[x] = landingRound[x] /\ landingBy'[x] = landingBy[x]
           /\ assignee'[x] = assignee[x] /\ lease'[x] = lease[x]
  PROVE  BoardInv'
<1>1. state'[t] = v /\ \A x \in TaskIds \ {t} : state'[x] = state[x]
  BY DEF TypeOK
<1>2. ReservationPinsApproval'
  BY <1>1 DEF BoardInv, ReservationPinsApproval
<1>3. ClaimedIsReclaimable'
  BY <1>1 DEF BoardInv, ClaimedIsReclaimable
<1>4. /\ \A x \in TaskIds : state'[x] = "absent" <=> state[x] = "absent"
      /\ \A x \in TaskIds : state'[x] = "approved" => state[x] = "approved"
      /\ \A x \in TaskIds : state[x] \in {"done", "abandoned"} =>
                               state'[x] = state[x] /\ verdict'[x] = verdict[x]
      /\ \A x \in TaskIds : kind[x] = "implement" /\ state'[x] = "review" => state[x] = "review"
  BY <1>1
<1> QED BY <1>2, <1>3, <1>4, QuietStep

\* ... and for one that changes neither states nor verdicts.
LEMMA StillStep ==
  ASSUME TypeOK, BoardInv, UNCHANGED <<used, state, kind, target, round, links, verdict>>,
         ReservationPinsApproval', ClaimedIsReclaimable'
  PROVE  BoardInv'
BY QuietStep

-----------------------------------------------------------------------------
(* Every operation keeps the invariant *)

\* Agents' operations (claimTaskTx, HeartbeatTask, UnclaimTask, submitTask).
LEMMA AgentKeepsInv ==
  ASSUME TypeOK, TypeOK', BoardInv, NEW t \in TaskIds, t <= used, NEW a \in Agents, Agent(a, t)
  PROVE  BoardInv'
<1>0. used \in Nat /\ None \notin Agents
  BY BoundsAssumption, NullAssumption DEF TypeOK
<1>a. state[t] # "approved" => landingRound[t] = 0
  BY DEF BoardInv, ReservationPinsApproval
<1>b. CASE ClaimTask(t, a) \/ UnclaimTask(t, a) \/ SubmitMerge(t, a)
  <2>1. PICK v \in {"in_progress", "ready", "review"} :
          /\ state' = [state EXCEPT ![t] = v] /\ state[t] \in {"ready", "in_progress"}
          /\ v = "review" => kind[t] = "merge"
          /\ v = "in_progress" => ClaimTask(t, a)
    BY <1>b DEF ClaimTask, Claimable, UnclaimTask, SubmitMerge, Owns
  <2>2. UNCHANGED <<used, kind, target, round, links, verdict, landingRound, landingBy>>
    BY <1>b DEF ClaimTask, UnclaimTask, SubmitMerge, rowVars, shapeVars, linkVars, landingVars
  <2>3. \A x \in TaskIds \ {t} : assignee'[x] = assignee[x] /\ lease'[x] = lease[x]
    <3>1. \E b, l : /\ assignee' \in {assignee, [assignee EXCEPT ![t] = b]}
                    /\ lease' = [lease EXCEPT ![t] = l]
      BY <1>b DEF ClaimTask, UnclaimTask, SubmitMerge
    <3> QED BY <3>1 DEF TypeOK
  <2>4. v = "in_progress" => assignee'[t] # None /\ lease'[t] # "none"
    BY <2>1, <1>0 DEF ClaimTask, TypeOK
  <2>5. landingRound'[t] = 0
    BY <1>a, <2>1, <2>2
  <2> QED BY <2>1, <2>2, <2>3, <2>4, <2>5, MoveStep
<1>1. CASE HeartbeatTask(t, a)
  <2>1. UNCHANGED <<used, state, kind, target, round, links, verdict, landingRound, landingBy, assignee>>
    BY <1>1 DEF HeartbeatTask, rowVars, shapeVars, linkVars, landingVars
  <2>2. ReservationPinsApproval'
    BY <2>1 DEF BoardInv, ReservationPinsApproval
  <2>3. ClaimedIsReclaimable'
    BY <1>1, <2>1 DEF HeartbeatTask, BoardInv, ClaimedIsReclaimable, TypeOK
  <2> QED BY <2>1, <2>2, <2>3, StillStep
<1>2. ASSUME NEW ls \in Submissions, SubmitWork(t, a, ls) PROVE BoardInv'
  <2> DEFINE rv == Reviewers(t)
             new == (used + 1)..(used + Len(rv))
             ins == new \cap TaskIds
  <2>1. rv \in Seq(Models) /\ Len(rv) \in Nat
    BY ReviewersAssumption DEF Reviewers, TypeOK
  <2>2. /\ state[t] = "in_progress" /\ kind[t] = "implement"
        /\ used' = used + Len(rv)
        /\ state' = [x \in TaskIds |-> IF x \in new THEN "ready"
                                       ELSE IF x = t THEN "review" ELSE state[x]]
        /\ kind' = [x \in TaskIds |-> IF x \in new THEN "review" ELSE kind[x]]
        /\ target' = [x \in TaskIds |-> IF x \in new THEN t ELSE target[x]]
        /\ round' = [x \in TaskIds |-> IF x \in new \cup {t} THEN round[t] + 1 ELSE round[x]]
        /\ links' = [links EXCEPT ![t] = ls]
        /\ lease' = [lease EXCEPT ![t] = "none"]
        /\ UNCHANGED <<verdict, assignee, landingRound, landingBy>>
    BY <1>2 DEF SubmitWork, Owns, landingVars
  <2> HIDE DEF rv
  <2>3. used' \in Nat /\ used <= used' /\ t \notin new /\ round[t] + 1 > 0 /\ t \in Nat
    <3>1. t \in Nat /\ round[t] \in Nat
      BY BoundsAssumption DEF TypeOK, TaskIds
    <3> QED BY <3>1, <1>0, <2>1, <2>2
  <2>4. \A x \in ins : used < x /\ x <= used' /\ x # t
    BY <1>0, <2>1, <2>2, <2>3 DEF TaskIds
  <2>5. landingRound[t] = 0
    BY <2>2 DEF BoardInv, ReservationPinsApproval
  <2> HIDE DEF new
  <2>6. \A x \in ins :
           /\ used < x /\ x <= used'
           /\ state'[x] \notin {"absent", "approved", "review"} /\ links'[x] = links[x]
           /\ target'[x] # 0 =>
                /\ kind'[x] # "implement" /\ target'[x] \in TaskIds \ ins
                /\ kind[target'[x]] = "implement" /\ round'[target'[x]] > 0
                /\ state[target'[x]] \notin {"absent", "approved"}
    BY <2>2, <2>3, <2>4 DEF TypeOK
  <2>7. \A x \in TaskIds \ ins :
           /\ kind'[x] = kind[x] /\ target'[x] = target[x]
           /\ \/ round'[x] = round[x] /\ links'[x] = links[x]
              \/ /\ state[x] = "in_progress" /\ kind[x] = "implement"
                 /\ round'[x] = round[x] + 1
           /\ state'[x] = "absent" <=> state[x] = "absent"
           /\ state'[x] = "approved" => state[x] = "approved"
           /\ state[x] \in {"done", "abandoned"} => state'[x] = state[x]
           /\ state'[x] = "review" => state[x] = "review" \/ round'[x] > 0
           /\ landingRound[x] # 0 => state'[x] = state[x]
    <3> SUFFICES ASSUME NEW x \in TaskIds \ ins
                 PROVE  /\ kind'[x] = kind[x] /\ target'[x] = target[x]
                        /\ links'[x] = IF x = t THEN ls ELSE links[x]
                        /\ round'[x] = IF x = t THEN round[t] + 1 ELSE round[x]
                        /\ state'[x] = IF x = t THEN "review" ELSE state[x]
      BY <2>2, <2>3, <2>5
    <3> QED BY <2>2 DEF TypeOK
  <2>8. \A x \in TaskIds : state'[x] = "in_progress" =>
           state[x] = "in_progress" /\ assignee'[x] = assignee[x] /\ lease'[x] = lease[x]
    BY <2>2, <2>3 DEF TypeOK
  <2> HIDE DEF ins
  <2>9. ins \in SUBSET TaskIds
    BY DEF ins
  <2>10. UNCHANGED <<verdict, landingRound, landingBy>>
    BY <2>2
  <2> QED BY <2>3, <2>6, <2>7, <2>8, <2>9, <2>10, InsertStep
<1>3. ASSUME NEW v \in {"approve", "reject"}, SubmitReview(t, a, v) PROVE BoardInv'
  <2> DEFINE st == [state EXCEPT ![t] = "done"]
             vd == [verdict EXCEPT ![t] = v]
  <2>1. /\ state[t] = "in_progress" /\ verdict' = vd /\ lease' = [lease EXCEPT ![t] = "none"]
        /\ UNCHANGED <<assignee, links, landingRound, landingBy>>
    BY <1>3 DEF SubmitReview, Owns, linkVars, landingVars
  <2>2. st \in [TaskIds -> States \cup {"absent"}]
    BY DEF TypeOK, States
  <2>3. ASSUME target[t] # 0, Aggregate(target[t], st, vd, held, reviewModels)
        PROVE  BoardInv'
    <3> DEFINE p == target[t]
    <3>1. p \in TaskIds /\ p <= used
      <4>1. p \in 0..MaxTasks /\ MaxTasks \in Nat
        BY BoundsAssumption DEF TypeOK
      <4>2. p \in TaskIds
        BY <4>1, <2>3 DEF TaskIds
      <4>3. state[p] # "absent" /\ (p > used => state[p] = "absent")
        BY <2>3, <4>2 DEF BoardInv, TargetsAreWork, BlankRows
      <4> QED BY <1>0, <4>1, <4>2, <4>3
    <3>2. \A x \in TaskIds : st[x] # state[x] =>
            /\ target[x] = p /\ state[x] \notin {"done", "abandoned"}
            /\ st[x] \in {"done", "abandoned"}
      BY <2>1 DEF TypeOK
    <3>3. \A x \in TaskIds : verdict'[x] # verdict[x] =>
            target[x] = p /\ state[x] \notin {"done", "abandoned"}
      BY <2>1 DEF TypeOK
    <3>4. \A x \in TaskIds : st[x] = "in_progress" =>
            assignee'[x] = assignee[x] /\ lease'[x] = lease[x]
      BY <2>1 DEF TypeOK
    <3>5. Aggregate(p, st, verdict', held, reviewModels)
      BY <2>1, <2>3
    <3> HIDE DEF p, st
    <3> QED BY <2>1, <2>2, <3>1, <3>2, <3>3, <3>4, <3>5, DecisionKeepsInv
  <2>4. ASSUME state' = st, UNCHANGED rowVars PROVE BoardInv'
    <3>1. UNCHANGED <<used, kind, target, round>>
      BY <2>4 DEF rowVars, shapeVars
    <3>2. \A x \in TaskIds \ {t} : lease'[x] = lease[x]
      BY <2>1 DEF TypeOK
    <3>3. \A x \in TaskIds : state[x] \in {"done", "abandoned"} => verdict'[x] = verdict[x]
      BY <2>1 DEF TypeOK
    <3>4. landingRound'[t] = 0
      BY <1>a, <2>1
    <3>5. \A x \in TaskIds \ {t} :
            /\ landingRound'[x] = landingRound[x] /\ landingBy'[x] = landingBy[x]
            /\ assignee'[x] = assignee[x] /\ lease'[x] = lease[x]
      BY <2>1, <3>2
    <3>6. /\ state' = [state EXCEPT ![t] = "done"] /\ state[t] = "in_progress"
          /\ UNCHANGED <<used, kind, target, round, links>>
      BY <2>1, <2>4, <3>1
    <3> DEFINE new == "done"
    <3>7. /\ state' = [state EXCEPT ![t] = new] /\ new \notin {"absent", "approved"}
          /\ state[t] \notin {"absent", "done", "abandoned"}
          /\ new # "review" /\ new # "in_progress"
      BY <3>6
    <3> HIDE DEF st, vd, new
    <3> QED BY <3>3, <3>4, <3>5, <3>6, <3>7, MoveStep
  <2> QED BY <1>3, <2>3, <2>4 DEF SubmitReview
<1> QED BY <1>b, <1>1, <1>2, <1>3 DEF Agent

\* Creating a batch of tasks (CreateTasks).
LEMMA CreateKeepsInv == ASSUME TypeOK, BoardInv, Create PROVE BoardInv'
<1>1. PICK b \in Batches, m \in Models, rm \in ReviewLists \cup {<<>>}, older \in SUBSET Existing :
        CreateTasks(b, m, rm, older)
  BY DEF Create
<1> DEFINE new == {used + i : i \in DOMAIN b}
           ins == new \cap TaskIds
<1>2. used \in Nat /\ Len(b) \in Nat /\ DOMAIN b = 1..Len(b)
  BY InputAssumption, BoundsAssumption DEF TypeOK
<1>3. /\ used' = used + Len(b)
      /\ state' = [t \in TaskIds |-> IF t \in new THEN "backlog" ELSE state[t]]
      /\ UNCHANGED <<kind, target, round, verdict, links, assignee, lease, landingRound, landingBy>>
  BY <1>1 DEF CreateTasks, claimVars, linkVars, landingVars
<1>4. \A x \in new : used < x /\ x <= used'
  BY <1>2, <1>3
<1>5. used' \in Nat /\ used <= used'
  BY <1>2, <1>3
<1> HIDE DEF new
<1>6. \A x \in ins : state[x] = "absent" /\ target[x] = 0
  BY <1>2, <1>4 DEF BoardInv, BlankRows, TaskIds
<1>7. \A x \in ins :
        /\ used < x /\ x <= used'
        /\ state'[x] \notin {"absent", "approved", "review"} /\ links'[x] = links[x]
        /\ target'[x] # 0 =>
             /\ kind'[x] # "implement" /\ target'[x] \in TaskIds \ ins
             /\ kind[target'[x]] = "implement" /\ round'[target'[x]] > 0
             /\ state[target'[x]] \notin {"absent", "approved"}
  BY <1>3, <1>4, <1>6
<1>8. \A x \in TaskIds \ ins :
        /\ kind'[x] = kind[x] /\ target'[x] = target[x]
        /\ round'[x] = round[x] /\ links'[x] = links[x]
        /\ state'[x] = state[x]
  BY <1>3
<1>9. \A x \in TaskIds : state'[x] = "in_progress" =>
        state[x] = "in_progress" /\ assignee'[x] = assignee[x] /\ lease'[x] = lease[x]
  BY <1>3
<1>a. \A x \in TaskIds \ ins :
        /\ kind'[x] = kind[x] /\ target'[x] = target[x]
        /\ \/ round'[x] = round[x] /\ links'[x] = links[x]
           \/ /\ state[x] = "in_progress" /\ kind[x] = "implement"
              /\ round'[x] = round[x] + 1
        /\ state'[x] = "absent" <=> state[x] = "absent"
        /\ state'[x] = "approved" => state[x] = "approved"
        /\ state[x] \in {"done", "abandoned"} => state'[x] = state[x]
        /\ state'[x] = "review" => state[x] = "review" \/ round'[x] > 0
        /\ landingRound[x] # 0 => state'[x] = state[x]
  BY <1>8
<1>10. UNCHANGED <<verdict, landingRound, landingBy>> /\ ins \in SUBSET TaskIds
  BY <1>3
<1> HIDE DEF ins
<1> QED BY <1>5, <1>7, <1>9, <1>a, <1>10, InsertStep

\* Marking a task done, ready, blocked, failed or abandoned (transitionTask).
LEMMA MoveToKeepsInv ==
  ASSUME TypeOK, BoardInv, NEW t \in TaskIds, NEW to \in {"done", "ready", "blocked", "failed",
           "superseded", "abandoned"}, state[t] \in States \ {"done", "abandoned"}, MoveTo(t, to)
  PROVE  BoardInv'
<1>1. state' = [state EXCEPT ![t] = to] /\ UNCHANGED <<used, kind, target, round, links, verdict>>
  BY DEF MoveTo, rowVars, shapeVars, linkVars
<1>2. /\ landingRound'[t] = 0
      /\ \A x \in TaskIds \ {t} :
           /\ landingRound'[x] = landingRound[x] /\ landingBy'[x] = landingBy[x]
           /\ assignee'[x] = assignee[x] /\ lease'[x] = lease[x]
  BY DEF MoveTo, TypeOK
<1>3. /\ state[t] \notin {"absent", "done", "abandoned"} /\ to \notin {"absent", "approved"}
      /\ to # "review" /\ to # "in_progress"
  BY DEF States
<1> QED BY <1>1, <1>2, <1>3, MoveStep

\* Replacing a task (SupersedeTask).
LEMMA SupersedeKeepsInv ==
  ASSUME TypeOK, BoardInv, NEW t \in TaskIds, t <= used, NEW m, NEW rm, SupersedeTask(t, m, rm)
  PROVE  BoardInv'
<1> DEFINE n == used + 1
           ins == {n}
<1>1. used \in Nat /\ MaxTasks \in Nat
  BY BoundsAssumption DEF TypeOK
<1>2. /\ n <= MaxTasks /\ used' = n
      /\ state' = [state EXCEPT ![n] = "backlog", ![t] = "superseded"]
      /\ kind' = [kind EXCEPT ![n] = kind[t]]
      /\ state[t] \notin {"absent", "done", "failed", "abandoned", "superseded"}
      /\ state[t] = "approved" => landingRound[t] = 0
      /\ UNCHANGED <<target, round, verdict, links, assignee, lease, landingRound, landingBy>>
  BY DEF SupersedeTask, Supersede, claimVars, linkVars, landingVars
<1>3. n \in TaskIds /\ n # t /\ n > used
  BY <1>1, <1>2 DEF TaskIds
<1>4. state[n] = "absent" /\ target[n] = 0 /\ landingRound[t] = 0
  BY <1>2, <1>3 DEF BoardInv, BlankRows, ReservationPinsApproval
<1>5. state'[n] = "backlog" /\ state'[t] = "superseded"
  BY <1>2, <1>3 DEF TypeOK
<1>6. \A x \in TaskIds \ ins : kind'[x] = kind[x] /\ (x # t => state'[x] = state[x])
  BY <1>2 DEF TypeOK
<1>7. \A x \in ins :
        /\ used < x /\ x <= used'
        /\ state'[x] \notin {"absent", "approved", "review"} /\ links'[x] = links[x]
        /\ target'[x] # 0 =>
             /\ kind'[x] # "implement" /\ target'[x] \in TaskIds \ ins
             /\ kind[target'[x]] = "implement" /\ round'[target'[x]] > 0
             /\ state[target'[x]] \notin {"absent", "approved"}
  BY <1>1, <1>2, <1>4, <1>5
<1>8. \A x \in TaskIds \ ins :
        /\ kind'[x] = kind[x] /\ target'[x] = target[x]
        /\ \/ round'[x] = round[x] /\ links'[x] = links[x]
           \/ /\ state[x] = "in_progress" /\ kind[x] = "implement"
              /\ round'[x] = round[x] + 1
        /\ state'[x] = "absent" <=> state[x] = "absent"
        /\ state'[x] = "approved" => state[x] = "approved"
        /\ state[x] \in {"done", "abandoned"} => state'[x] = state[x]
        /\ state'[x] = "review" => state[x] = "review" \/ round'[x] > 0
        /\ landingRound[x] # 0 => state'[x] = state[x]
  BY <1>2, <1>4, <1>5, <1>6
<1>9. \A x \in TaskIds : state'[x] = "in_progress" =>
        state[x] = "in_progress" /\ assignee'[x] = assignee[x] /\ lease'[x] = lease[x]
  BY <1>2, <1>5, <1>6
<1>10. UNCHANGED <<verdict, landingRound, landingBy>> /\ used' \in Nat /\ used <= used'
  BY <1>1, <1>2
<1>11. ins \in SUBSET TaskIds
  BY <1>3
<1> HIDE DEF ins
<1> QED BY <1>7, <1>8, <1>9, <1>10, <1>11, InsertStep

\* Releasing a held task, with the decision of a round that waited for it (ReleaseTask).
LEMMA ReleaseKeepsInv ==
  ASSUME TypeOK, BoardInv, NEW t \in TaskIds, t <= used, ReleaseTask(t)
  PROVE  BoardInv'
<1> DEFINE hd == [held EXCEPT ![t] = FALSE]
<1>1. UNCHANGED <<verdict, assignee, lease, links, landingRound, landingBy>>
  BY DEF ReleaseTask, claimVars, linkVars, landingVars
<1>2. CASE Aggregate(t, state, verdict, hd, reviewModels)
  <2>1. state \in [TaskIds -> States \cup {"absent"}]
    BY DEF TypeOK
  <2>2. Aggregate(t, state, verdict', hd, reviewModels)
    BY <1>1, <1>2
  <2> HIDE DEF hd
  <2> QED BY <1>1, <2>1, <2>2, DecisionKeepsInv
<1>3. CASE UNCHANGED <<rowVars, state>>
  <2>1. UNCHANGED <<used, state, kind, target, round, links, verdict>>
    BY <1>1, <1>3 DEF rowVars, shapeVars
  <2>2. ReservationPinsApproval' /\ ClaimedIsReclaimable'
    BY <1>1, <2>1 DEF BoardInv, ReservationPinsApproval, ClaimedIsReclaimable
  <2> QED BY <2>1, <2>2, StillStep
<1> QED BY <1>2, <1>3 DEF ReleaseTask

\* Changing the reviewers of work, in review or not (reshapeOpenReviewRound).
LEMMA ReviewersKeepInv ==
  ASSUME TypeOK, BoardInv, NEW p \in TaskIds, p <= used, NEW ms \in ReviewLists,
         UpdateTaskReviewModels(p, ms)
  PROVE  BoardInv'
<1> DEFINE rms == [reviewModels EXCEPT ![p] = ms]
           new == {used + i : i \in Missing(p, ms)}
           gone == RetiredBy(p, ms)
           st == [x \in TaskIds |-> IF x \in gone THEN "abandoned"
                                    ELSE IF x \in new THEN "ready" ELSE state[x]]
           ins == new \cap TaskIds
<1>1. UNCHANGED <<verdict, links, landingRound, landingBy>> /\ kind[p] = "implement"
  BY DEF UpdateTaskReviewModels, linkVars, landingVars
<1>2. used \in Nat /\ Len(ms) \in Nat /\ DOMAIN ms = 1..Len(ms) /\ p \in Nat /\ p # 0
  BY ReviewersAssumption, BoundsAssumption DEF TypeOK, TaskIds
<1>3. \A x \in new : x \in Nat /\ used < x /\ x <= used + Len(ms)
  <2>1. \A i \in Missing(p, ms) : i \in DOMAIN ms
    BY DEF Missing
  <2>2. \A i \in Missing(p, ms) : i \in 1..Len(ms)
    BY <2>1, <1>2
  <2> QED BY <2>2, <1>2
\* The rows that are retired were open, and they are not work.
<1>4. \A x \in gone : /\ x \in TaskIds /\ target[x] = p
                      /\ state[x] \notin {"absent", "done", "abandoned"}
                      /\ landingRound[x] = 0 /\ x # p /\ x \notin new
  <2> SUFFICES ASSUME NEW x \in gone
               PROVE  /\ x \in TaskIds /\ target[x] = p
                      /\ state[x] \notin {"absent", "done", "abandoned"}
                      /\ landingRound[x] = 0 /\ x # p /\ x \notin new
    OBVIOUS
  <2>1. x \in TaskIds /\ target[x] = p /\ state[x] \notin {"done", "abandoned"}
    BY DEF RetiredBy, Children, RoundTasks, Matched
  <2>2. kind[x] # "implement" /\ state[x] # "absent"
    BY <2>1, <1>2 DEF BoardInv, TargetsAreWork, BlankRows
  <2>3. landingRound[x] = 0
    BY <2>1, <2>2 DEF BoardInv, ReservationPinsApproval, SubmittedIsWork
  <2>4. x \notin new
    BY <2>1, <2>2, <1>2, <1>3 DEF BoardInv, BlankRows, TaskIds
  <2> QED BY <2>1, <2>2, <2>3, <2>4, <1>1
<1>5. ASSUME UNCHANGED <<shapeVars, state, claimVars>> PROVE BoardInv'
  <2>1. UNCHANGED <<used, state, kind, target, round, links, verdict>>
    BY <1>1, <1>5 DEF shapeVars
  <2>2. ReservationPinsApproval' /\ ClaimedIsReclaimable'
    BY <1>1, <1>5, <2>1 DEF BoardInv, ReservationPinsApproval, ClaimedIsReclaimable, claimVars
  <2> QED BY <2>1, <2>2, StillStep
<1>6. ASSUME state[p] = "review", ReshapeRound(p, ms, rms) PROVE BoardInv'
  <2> DEFINE noneOpen == \A c \in RoundTasks(p, st) \cup new : st[c] = "done"
             Grow == /\ state' = st
                     /\ used' = used + Len(ms)
                     /\ kind' = [x \in TaskIds |-> IF x \in new THEN "review" ELSE kind[x]]
                     /\ target' = [x \in TaskIds |-> IF x \in new THEN p ELSE target[x]]
                     /\ round' = [x \in TaskIds |-> IF x \in new THEN round[p] ELSE round[x]]
  <2>1. /\ used + Len(ms) <= MaxTasks
        /\ assignee' = [x \in TaskIds |-> IF x \in gone THEN None ELSE assignee[x]]
        /\ lease' = [x \in TaskIds |-> IF x \in gone THEN "none" ELSE lease[x]]
        /\ (noneOpen /\ Aggregate(p, st, verdict, held, rms)) \/ Grow
    BY <1>6 DEF ReshapeRound
  <2> HIDE DEF new, gone
  <2>2. new \subseteq TaskIds
    BY <1>2, <1>3, <2>1, BoundsAssumption DEF TaskIds
  <2>3. st \in [TaskIds -> States \cup {"absent"}]
    BY DEF TypeOK, States
  <2>4. ASSUME noneOpen, Aggregate(p, st, verdict, held, rms) PROVE BoardInv'
    <3>1. new = {}
      BY <2>2, <2>4, <1>4
    <3>2. \A x \in TaskIds : st[x] # state[x] =>
            /\ target[x] = p /\ state[x] \notin {"done", "abandoned"}
            /\ st[x] \in {"done", "abandoned"}
      BY <3>1, <1>4
    <3>3. \A x \in TaskIds : st[x] = "in_progress" =>
            assignee'[x] = assignee[x] /\ lease'[x] = lease[x]
      BY <2>1
    <3>4. \A x \in TaskIds : verdict'[x] # verdict[x] =>
            target[x] = p /\ state[x] \notin {"done", "abandoned"}
      BY <1>1
    <3>5. Aggregate(p, st, verdict', held, rms) /\ UNCHANGED <<links, landingRound, landingBy>>
      BY <1>1, <2>4
    <3> HIDE DEF st, rms
    <3> QED BY <2>3, <3>2, <3>3, <3>4, <3>5, DecisionKeepsInv
  <2>5. ASSUME Grow PROVE BoardInv'
    <3>1. round[p] > 0 /\ p \notin new
      BY <1>1, <1>2, <1>3, <1>6 DEF BoardInv, SubmittedIsWork
    <3>2. \A x \in ins :
            /\ used < x /\ x <= used'
            /\ state'[x] \notin {"absent", "approved", "review"} /\ links'[x] = links[x]
            /\ target'[x] # 0 =>
                 /\ kind'[x] # "implement" /\ target'[x] \in TaskIds \ ins
                 /\ kind[target'[x]] = "implement" /\ round'[target'[x]] > 0
                 /\ state[target'[x]] \notin {"absent", "approved"}
      BY <1>1, <1>3, <1>4, <1>6, <2>5, <3>1
    <3>3. \A x \in TaskIds \ ins :
            /\ kind'[x] = kind[x] /\ target'[x] = target[x]
            /\ \/ round'[x] = round[x] /\ links'[x] = links[x]
               \/ /\ state[x] = "in_progress" /\ kind[x] = "implement"
                  /\ round'[x] = round[x] + 1
            /\ state'[x] = "absent" <=> state[x] = "absent"
            /\ state'[x] = "approved" => state[x] = "approved"
            /\ state[x] \in {"done", "abandoned"} => state'[x] = state[x]
            /\ state'[x] = "review" => state[x] = "review" \/ round'[x] > 0
            /\ landingRound[x] # 0 => state'[x] = state[x]
      BY <1>1, <1>4, <2>5
    <3>4. \A x \in TaskIds : state'[x] = "in_progress" =>
            state[x] = "in_progress" /\ assignee'[x] = assignee[x] /\ lease'[x] = lease[x]
      BY <2>1, <2>5
    <3>5. used' \in Nat /\ used <= used' /\ UNCHANGED <<verdict, landingRound, landingBy>>
      BY <1>1, <1>2, <2>5
    <3>6. ins \in SUBSET TaskIds
      OBVIOUS
    <3> HIDE DEF ins
    <3> QED BY <3>2, <3>3, <3>4, <3>5, <3>6, InsertStep
  <2> QED BY <2>1, <2>4, <2>5
<1> QED BY <1>5, <1>6 DEF UpdateTaskReviewModels

\* The operator's other operations.
LEMMA OperatorKeepsInv ==
  ASSUME TypeOK, BoardInv, NEW t \in TaskIds, t <= used, Operator(t)
  PROVE  BoardInv'
<1>1. CASE PromoteTask(t)
  <2>1. /\ UNCHANGED <<used, kind, target, round, links, verdict, landingRound, landingBy,
                       assignee, lease>>
        /\ state' = [state EXCEPT ![t] = "ready"] /\ state[t] = "backlog"
    BY <1>1 DEF PromoteTask, rowVars, shapeVars, claimVars, linkVars, landingVars
  <2>2. landingRound'[t] = 0
    BY <2>1 DEF BoardInv, ReservationPinsApproval
  <2> DEFINE new == "ready"
  <2>3. /\ state' = [state EXCEPT ![t] = new] /\ new \notin {"absent", "approved"}
        /\ state[t] \notin {"absent", "done", "abandoned"} /\ new # "review" /\ new # "in_progress"
    BY <2>1
  <2> HIDE DEF new
  <2> QED BY <2>1, <2>2, <2>3, MoveStep
<1>2. ASSUME NEW to \in States, TransitionTask(t, to) PROVE BoardInv'
  <2>1. /\ state[t] \in States \ {"done", "abandoned"} /\ MoveTo(t, to)
        /\ to \in {"done", "ready", "blocked", "failed", "superseded", "abandoned"}
    BY <1>2 DEF TransitionTask, MayMove, Active, States
  <2> QED BY <2>1, MoveToKeepsInv
<1>3. CASE \E m, rm : SupersedeTask(t, m, rm)
  BY <1>3, SupersedeKeepsInv
<1>4. ASSUME \/ HoldTask(t)
             \/ \E e \in BOOLEAN : UpdateTaskEscalate(t, e)
             \/ \E ds \in SUBSET Existing : UpdateTaskDependsOn(t, ds)
      PROVE  BoardInv'
  <2>1. UNCHANGED <<used, state, kind, target, round, links, verdict, assignee, lease,
                    landingRound, landingBy>>
    BY <1>4 DEF HoldTask, UpdateTaskEscalate, UpdateTaskDependsOn, rowVars, shapeVars,
       claimVars, linkVars, landingVars
  <2>2. ReservationPinsApproval' /\ ClaimedIsReclaimable'
    BY <2>1 DEF BoardInv, ReservationPinsApproval, ClaimedIsReclaimable
  <2> QED BY <2>1, <2>2, StillStep
<1>5. CASE ReleaseTask(t)
  BY <1>5, ReleaseKeepsInv
<1>6. CASE \E ms \in ReviewLists : UpdateTaskReviewModels(t, ms)
  BY <1>6, ReviewersKeepInv
<1> QED BY <1>1, <1>2, <1>3, <1>4, <1>5, <1>6 DEF Operator

\* The watcher finds a pull request merged (ConvergeExternallyMergedTask).
LEMMA ConvergeKeepsInv ==
  ASSUME TypeOK, BoardInv, NEW t \in TaskIds, t <= used, Converge(t)
  PROVE  BoardInv'
<1> DEFINE retired == UnvotedReviews(t)
<1>1. /\ UNCHANGED <<used, kind, target, round, links, verdict>>
      /\ state[t] \in {"ready", "in_progress", "review", "blocked", "approved"}
      /\ state' = [x \in TaskIds |-> IF x \in retired THEN "abandoned"
                                     ELSE IF x = t THEN "done" ELSE state[x]]
      /\ assignee' = [x \in TaskIds |-> IF x \in retired \cup {t} THEN None ELSE assignee[x]]
      /\ lease' = [x \in TaskIds |-> IF x \in retired \cup {t} THEN "none" ELSE lease[x]]
      /\ landingRound' = [landingRound EXCEPT ![t] = 0]
      /\ landingBy' = [landingBy EXCEPT ![t] = None]
  BY DEF Converge, rowVars, shapeVars, linkVars
<1>2. \A x \in retired : state[x] \notin {"absent", "done", "abandoned"} /\ landingRound[x] = 0
  <2> SUFFICES ASSUME NEW x \in retired
               PROVE  state[x] \notin {"absent", "done", "abandoned"} /\ landingRound[x] = 0
    OBVIOUS
  <2>1. x \in TaskIds /\ target[x] = t /\ t # 0 /\ state[x] \notin {"done", "abandoned"}
    BY DEF UnvotedReviews, TaskIds
  <2>2. kind[x] # "implement" /\ state[x] # "absent"
    BY <2>1 DEF BoardInv, TargetsAreWork, BlankRows
  <2> QED BY <2>1, <2>2 DEF BoardInv, ReservationPinsApproval, SubmittedIsWork
<1> HIDE DEF retired
<1>3. \A x \in TaskIds :
        /\ state'[x] = "absent" <=> state[x] = "absent"
        /\ state'[x] = "approved" => state[x] = "approved"
        /\ state[x] \in {"done", "abandoned"} => state'[x] = state[x]
        /\ state'[x] = "review" => state[x] = "review"
  BY <1>1, <1>2
<1>4. ReservationPinsApproval'
  <2> SUFFICES ASSUME NEW x \in TaskIds, landingRound'[x] # 0
               PROVE  /\ state'[x] = "approved" /\ landingRound'[x] = round[x]
                      /\ "commit" \in links[x] /\ landingBy'[x] # None
    BY <1>1 DEF ReservationPinsApproval
  <2>1. x # t /\ landingRound'[x] = landingRound[x] /\ landingBy'[x] = landingBy[x]
    BY <1>1 DEF TypeOK
  <2> QED BY <2>1, <1>1, <1>2 DEF BoardInv, ReservationPinsApproval
<1>5. ClaimedIsReclaimable'
  BY <1>1 DEF BoardInv, ClaimedIsReclaimable
<1> QED BY <1>1, <1>3, <1>4, <1>5, QuietStep

\* The approve command's calls (BeginLanding, CancelLanding, CompleteLanding).
LEMMA ApproveKeepsInv ==
  ASSUME TypeOK, BoardInv, NEW t \in TaskIds, NEW x \in Attempts, Approve(t, x)
  PROVE  BoardInv'
<1>1. ASSUME NEW r \in 1..MaxRound, BeginLanding(t, r, x) PROVE BoardInv'
  <2>1. /\ state[t] = "approved" /\ round[t] = r
        /\ landingRound[t] = 0 => "commit" \in links[t]
        /\ landingRound' = [landingRound EXCEPT ![t] = r]
        /\ landingBy' = [landingBy EXCEPT ![t] = x]
        /\ UNCHANGED <<used, state, kind, target, round, links, verdict, assignee, lease>>
    BY <1>1 DEF BeginLanding, Reservable, Reserve, rowVars, shapeVars, claimVars, linkVars
  <2>2. ReservationPinsApproval'
    BY <2>1, NullAssumption DEF BoardInv, ReservationPinsApproval, TypeOK
  <2>3. ClaimedIsReclaimable'
    BY <2>1 DEF BoardInv, ClaimedIsReclaimable
  <2> QED BY <2>1, <2>2, <2>3, StillStep
<1>2. ASSUME CancelLanding(t, x) PROVE BoardInv'
  <2>1. /\ landingRound' = [landingRound EXCEPT ![t] = 0]
        /\ landingBy' = [landingBy EXCEPT ![t] = None]
        /\ UNCHANGED <<used, state, kind, target, round, links, verdict, assignee, lease>>
    BY <1>2 DEF CancelLanding, rowVars, shapeVars, claimVars, linkVars
  <2>2. ReservationPinsApproval'
    BY <2>1 DEF BoardInv, ReservationPinsApproval, TypeOK
  <2>3. ClaimedIsReclaimable'
    BY <2>1 DEF BoardInv, ClaimedIsReclaimable
  <2> QED BY <2>1, <2>2, <2>3, StillStep
<1>3. ASSUME CompleteLanding(t, x) PROVE BoardInv'
  BY <1>3, MoveToKeepsInv DEF CompleteLanding, States
<1> QED BY <1>1, <1>2, <1>3 DEF Approve

\* The invariant is inductive.
LEMMA NextKeepsInv == ASSUME TypeOK, TypeOK', BoardInv, [Next]_vars PROVE BoardInv'
<1>0. \A t \in Rows : t \in TaskIds /\ t <= used
  BY BoundsAssumption DEF TypeOK, Rows, TaskIds
<1>1. CASE Create
  BY <1>1, CreateKeepsInv
<1>2. ASSUME NEW t \in Rows, NEW a \in Agents, Agent(a, t) PROVE BoardInv'
  BY <1>0, <1>2, AgentKeepsInv
<1>3. ASSUME NEW t \in Rows, Operator(t) PROVE BoardInv'
  BY <1>0, <1>3, OperatorKeepsInv
<1>4. ASSUME NEW t \in Rows, Converge(t) PROVE BoardInv'
  BY <1>0, <1>4, ConvergeKeepsInv
<1>5. ASSUME NEW t \in Rows, LeaseExpires(t) PROVE BoardInv'
  <2>1. /\ UNCHANGED <<used, state, kind, target, round, links, verdict, assignee,
                       landingRound, landingBy>>
        /\ lease' = [lease EXCEPT ![t] = "expired"]
    BY <1>5 DEF LeaseExpires, rowVars, shapeVars, linkVars, landingVars
  <2>2. ReservationPinsApproval' /\ ClaimedIsReclaimable'
    BY <2>1 DEF BoardInv, ReservationPinsApproval, ClaimedIsReclaimable, TypeOK
  <2> QED BY <2>1, <2>2, StillStep
<1>6. ASSUME NEW t \in Rows, NEW x \in Attempts, Approve(t, x) PROVE BoardInv'
  BY <1>0, <1>6, ApproveKeepsInv
<1>7. CASE UNCHANGED vars
  <2>1. UNCHANGED <<used, state, kind, target, round, links, verdict, assignee, lease,
                    landingRound, landingBy>>
    BY <1>7 DEF vars
  <2>2. ReservationPinsApproval' /\ ClaimedIsReclaimable'
    BY <2>1 DEF BoardInv, ReservationPinsApproval, ClaimedIsReclaimable
  <2> QED BY <2>1, <2>2, StillStep
<1> QED BY <1>1, <1>2, <1>3, <1>4, <1>5, <1>6, <1>7 DEF Next, Users

\* An empty board satisfies it.
LEMMA InitInv == Init => BoardInv
BY BoundsAssumption DEF Init, BoardInv, BlankRows, TargetsAreWork, SubmittedIsWork,
   ApprovedIsUnanimous, ReservationPinsApproval, ClaimedIsReclaimable

-----------------------------------------------------------------------------
(* What holds in every reachable state *)

\* The inductive invariant holds.
THEOREM InvHolds == Spec => []BoardInv
<1>1. Init => TypeOK /\ BoardInv
  BY InitTypes, InitInv
<1>2. TypeOK /\ BoardInv /\ [Next]_vars => (TypeOK /\ BoardInv)'
  BY NextKeepsTypes, NextKeepsInv
<1> QED BY <1>1, <1>2, PTL DEF Spec

\* A task is approved only at a round that is complete and unanimous, whatever
\* votes, holds, reshapes and escalations come in whatever order.
THEOREM ApprovalsAreUnanimous == Spec => []ApprovedIsUnanimous
<1>1. BoardInv => ApprovedIsUnanimous
  BY DEF BoardInv
<1> QED BY <1>1, InvHolds, PTL

\* Nothing moves a task away from the round and commit a landing has reserved.
THEOREM ReservationsPin == Spec => []ReservationPinsApproval
<1>1. BoardInv => ReservationPinsApproval
  BY DEF BoardInv
<1> QED BY <1>1, InvHolds, PTL

\* No claim is left without a lease that can run out.
THEOREM ClaimsAreReclaimable == Spec => []ClaimedIsReclaimable
<1>1. BoardInv => ClaimedIsReclaimable
  BY DEF BoardInv
<1> QED BY <1>1, InvHolds, PTL

\* The columns of a claim change hands only in a claim, or with the state.
LEMMA ClaimChangesHands ==
  ASSUME TypeOK, BoardInv, [Next]_vars, NEW t \in TaskIds,
         state[t] = "in_progress", state'[t] = "in_progress", assignee'[t] # assignee[t]
  PROVE  lease[t] = "expired"
<1>0. used \in Nat /\ Rows \subseteq TaskIds
  BY BoundsAssumption DEF TypeOK, Rows, TaskIds
<1>1. CASE Create \/ UNCHANGED vars
  BY <1>1 DEF Create, CreateTasks, claimVars, vars
<1>2. ASSUME NEW u \in TaskIds, NEW a \in Agents, Agent(a, u) PROVE lease[t] = "expired"
  <2>1. CASE ClaimTask(u, a)
    <3>1. t = u
      BY <2>1 DEF ClaimTask, TypeOK
    <3> QED BY <2>1, <3>1 DEF ClaimTask, Claimable
  <2>2. CASE UnclaimTask(u, a)
    <3>1. t = u
      BY <2>2 DEF UnclaimTask, TypeOK
    <3>2. state'[t] = "ready"
      BY <2>2, <3>1 DEF UnclaimTask, TypeOK
    <3> QED BY <3>2
  <2> QED
    BY <1>2, <2>1, <2>2
    DEF Agent, HeartbeatTask, SubmitWork, SubmitReview, SubmitMerge
<1>3. ASSUME NEW u \in TaskIds, NEW to, to # "in_progress", MoveTo(u, to) PROVE lease[t] = "expired"
  <2>1. t = u
    BY <1>3 DEF MoveTo, TypeOK
  <2>2. state'[t] = to
    BY <1>3, <2>1 DEF MoveTo, TypeOK
  <2> QED BY <1>3, <2>2
<1>4. ASSUME NEW u \in TaskIds, u <= used, NEW ms \in ReviewLists, UpdateTaskReviewModels(u, ms)
      PROVE  lease[t] = "expired"
  <2> DEFINE rms == [reviewModels EXCEPT ![u] = ms]
             new == {used + i : i \in Missing(u, ms)}
             gone == RetiredBy(u, ms)
             st == [x \in TaskIds |-> IF x \in gone THEN "abandoned"
                                      ELSE IF x \in new THEN "ready" ELSE state[x]]
  <2>1. /\ state[u] = "review"
        /\ assignee' = [x \in TaskIds |-> IF x \in gone THEN None ELSE assignee[x]]
        /\ Aggregate(u, st, verdict, held, rms) \/ state' = st
    BY <1>4 DEF UpdateTaskReviewModels, ReshapeRound, claimVars
  <2>2. t \in gone /\ t # u /\ st[t] = "abandoned"
    BY <2>1
  <2>3. CASE state' = st
    BY <2>2, <2>3
  <2>4. CASE Aggregate(u, st, verdict, held, rms)
    <3>1. t # used + 1
      BY <1>0 DEF BoardInv, BlankRows, TaskIds
    <3>2. u \notin new /\ u \notin gone
      <4>1. u # 0 /\ target[u] # u
        BY DEF BoardInv, TargetsAreWork, TaskIds
      <4>2. u \notin gone
        BY <4>1 DEF RetiredBy, Children, RoundTasks
      <4>3. \A i \in Missing(u, ms) : i \in DOMAIN ms
        BY DEF Missing
      <4>4. DOMAIN ms = 1..Len(ms) /\ Len(ms) \in Nat
        BY ReviewersAssumption
      <4>5. \A i \in Missing(u, ms) : i \in Nat /\ i > 0
        BY <4>3, <4>4
      <4>6. \A i \in Missing(u, ms) : used + i > used
        BY <4>5, <1>0
      <4> QED BY <1>4, <1>0, <4>2, <4>6 DEF TaskIds
    <3>3. st[u] = state[u] /\ landingRound[u] = 0
      BY <2>1, <3>2 DEF BoardInv, ReservationPinsApproval
    <3>4. st \in [TaskIds -> States \cup {"absent"}] /\ RowTypes
      BY TypeParts DEF TypeOK, States
    <3> HIDE DEF st, gone, new, rms
    <3>5. state'[t] = st[t]
      BY <1>4, <2>2, <2>4, <3>1, <3>3, <3>4, AggregateEffect
    <3> QED BY <2>2, <3>5
  <2> QED BY <2>1, <2>3, <2>4
<1>5. ASSUME NEW u \in TaskIds, u <= used, Operator(u) PROVE lease[t] = "expired"
  <2>1. ASSUME NEW to \in States, TransitionTask(u, to) PROVE lease[t] = "expired"
    BY <2>1, <1>3 DEF TransitionTask, MayMove
  <2>2. CASE \E m, rm : SupersedeTask(u, m, rm)
    BY <2>2 DEF SupersedeTask, claimVars
  <2> QED
    BY <1>4, <1>5, <2>1, <2>2
    DEF Operator, PromoteTask, HoldTask, ReleaseTask, UpdateTaskEscalate, UpdateTaskDependsOn, claimVars
<1>6. ASSUME NEW u \in TaskIds, Converge(u) PROVE lease[t] = "expired"
  BY <1>6 DEF Converge
<1>7. ASSUME NEW u \in TaskIds, NEW x \in Attempts, Approve(u, x) PROVE lease[t] = "expired"
  BY <1>7, <1>3 DEF Approve, BeginLanding, Reserve, CancelLanding, CompleteLanding, claimVars
<1>8. ASSUME NEW u \in TaskIds, LeaseExpires(u) PROVE lease[t] = "expired"
  BY <1>8 DEF LeaseExpires
<1>9. \A u \in Rows : u \in TaskIds /\ u <= used
  BY <1>0 DEF Rows
<1> QED
  BY <1>1, <1>2, <1>5, <1>6, <1>7, <1>8, <1>9 DEF Next, Users

\* An agent whose lease has not run out keeps its task, against any reclaim,
\* transition, reshape or convergence.
THEOREM LiveLeasesAreKept == Spec => LiveLeaseIsKept
<1> DEFINE Kept == \A t \in TaskIds :
                     state[t] = "in_progress" /\ state'[t] = "in_progress"
                       /\ assignee'[t] # assignee[t] => lease[t] = "expired"
<1>1. TypeOK /\ BoardInv /\ [Next]_vars => [Kept]_vars
  BY ClaimChangesHands
<1>2. LiveLeaseIsKept <=> [][Kept]_vars
  BY DEF LiveLeaseIsKept
<1> HIDE DEF Kept
<1>3. Spec => [][Kept]_vars
  BY <1>1, TypesHold, InvHolds, PTL DEF Spec
<1> QED BY <1>2, <1>3
=============================================================================
