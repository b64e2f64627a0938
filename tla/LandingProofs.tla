---------------------------- MODULE LandingProofs -----------------------------
(***************************************************************************)
(* Landing: the runs of `odonian approve' use the board as anybody else    *)
(* does, clean up only what is on the branch, and, on conditions that are  *)
(* stated with each theorem, keep what they promise of published work.     *)
(***************************************************************************)
EXTENDS Landing, BoardHistoryProofs

-----------------------------------------------------------------------------
(* What a run knows: an inductive invariant that needs no conditions *)

Steps == {"idle", "locking", "locked", "prepared", "reserving", "asking", "reserved",
          "failed", "givingBack", "cancelling", "published", "completing", "checking",
          "cleaning", "removing", "deleting", "ended"}
Cleaning == {"cleaning", "removing", "deleting"}
Early == {"idle", "locking", "locked", "prepared"}

Views == [mode : {"land", "finish", "cancel"}, task : 0..MaxTasks, round : 0..MaxRound,
          commit : Nat, owner : Attempts \cup {None}]
Plans == [source : Nat, previous : Nat, already : BOOLEAN]
Requests == {"none", "begin", "complete", "cancel"}

LandTypes ==
  /\ wip \in [TaskIds -> Nat] /\ trees \subseteq TaskIds /\ submitted \in [TaskIds -> Nat]
  /\ landed \in [TaskIds -> SUBSET Nat] /\ tip \in Nat
  /\ lock \in Attempts \cup {None} /\ expired \in BOOLEAN
  /\ pc \in [Attempts -> Steps] /\ view \in [Attempts -> Views]
  /\ plan \in [Attempts -> Plans] /\ call \in [Attempts -> Requests]

\* The board has served the run's one request to reserve, or never will.
Begun(x) == pc[x] \notin Early /\ call[x] # "begin"

\* Where a run can be with a request on its way, in which mode, and what it can
\* have read.
RunsInOrder ==
  \A x \in Attempts :
    /\ pc[x] # "idle" => Task(x) \in TaskIds
    /\ call[x] = "begin" => view[x].mode = "land" /\ pc[x] \in {"reserving", "asking", "ended"}
    /\ call[x] = "complete" =>
         view[x].mode = "land" /\ pc[x] \in {"completing", "checking", "ended"} \cup Cleaning
    /\ call[x] = "cancel" => view[x].mode # "finish" /\ pc[x] \in {"cancelling", "ended"}
    /\ pc[x] \in {"prepared", "reserving", "asking", "failed", "givingBack",
                  "published", "completing", "checking"} => view[x].mode = "land"
    /\ pc[x] = "reserved" => view[x].mode # "cancel"
    /\ view[x].owner # None => Begun(view[x].owner) /\ view[x].owner # x

\* A reservation is of the run that owns it, for the commit it prepared.
OwnersKnowTheCommit ==
  \A t \in TaskIds, x \in Attempts :
    landingBy[t] = x =>
      Begun(x) /\ view[x].mode = "land" /\ Task(x) = t /\ plan[x].source = submitted[t]

\* A run that goes on after publishing has its commit on the branch.
PublishedIsLanded ==
  \A x \in Attempts :
    /\ pc[x] \in {"published", "completing", "checking"} \cup Cleaning \/ call[x] = "complete" =>
         plan[x].source \in landed[Task(x)]
    /\ plan[x].already =>
         pc[x] \notin {"idle", "locking", "locked", "failed"} /\ plan[x].source \in landed[Task(x)]

USE DEF Cleaning

RunInv == LandTypes /\ RunsInOrder /\ OwnersKnowTheCommit /\ PublishedIsLanded

-----------------------------------------------------------------------------
(* What published work rests on *)

\* `odonian submit' in local_commit mode: a commit or a no-op, never a pull request.
LocalWork == \A s \in Submissions : "pr" \notin s /\ ("commit" \notin s \/ "no_op" \notin s)
LocalLinks ==
  \A t \in TaskIds : ~hasPR[t] /\ (links[t] = {} \/ links[t] \in Submissions)

\* A lock that cannot be lost while its run may give a reservation back without it.
LockOrNoCheckout == "checkout" \notin Doings \/ "lock_expires" \notin Doings

\* A request to drop t's reservation, or the intention of one, that the board would serve.
Aims(y, t) == Task(y) = t /\ landingBy[t] # None /\ Canceller(y) = landingBy[t]
Dropping(y) == call[y] = "cancel" \/ pc[y] = "givingBack"

Pinned ==
  \A t \in TaskIds :
    landed[t] # {} =>
      /\ landed[t] \subseteq {submitted[t]} /\ "commit" \in links[t] /\ Unanimous(t)
      /\ state[t] = "done" \/ landingRound[t] # 0
      /\ \A y \in Attempts : ~(Aims(y, t) /\ Dropping(y))

\* A run at the point of publishing that has the lock and something to publish.
Publishing(x) == pc[x] = "reserved" /\ lock = x /\ ~plan[x].already
HolderIsSafe ==
  \A x \in Attempts :
    Publishing(x) =>
      /\ landingRound[Task(x)] # 0 /\ plan[x].source = submitted[Task(x)]
      /\ \A y \in Attempts :
           ~(Aims(y, Task(x)) /\ (Dropping(y) \/ Is(y, "cancel", "locked")))

\* Nobody else publishes what the holder of the lock prepared to publish.
HolderIsFirst ==
  \A x \in Attempts :
    /\ lock = x /\ view[x].mode = "land" /\ ~plan[x].already
    /\ pc[x] \in {"prepared", "reserving", "asking", "reserved", "failed"}
    => plan[x].source \notin landed[Task(x)]

\* A run that drops the reservation it read has taken the lock from its owner, and
\* read the commit the reservation is for.
CancelIsLockedIn ==
  \A y \in Attempts :
    pc[y] # "idle" /\ view[y].mode = "cancel" /\ view[y].owner # None =>
      /\ pc[y] = "locked" \/ call[y] = "cancel" => lock # view[y].owner
      /\ landingBy[Task(y)] = view[y].owner => view[y].commit = submitted[Task(y)]

\* A run that finishes a done task finds its commit on the branch, and so never
\* gets to publish.
FinishIsLanded ==
  \A y \in Attempts :
    /\ pc[y] # "idle" /\ view[y].mode = "finish" => view[y].commit \in landed[Task(y)]
    /\ pc[y] = "reserved" => view[y].mode = "land"

\* Without expiry a run has the lock from the moment it took it.
LockIsKept ==
  "lock_expires" \notin Doings =>
    ~expired /\ \A y \in Attempts : pc[y] \notin {"idle", "locking", "ended"} => lock = y

PinInv ==
  /\ Pinned /\ HolderIsSafe /\ HolderIsFirst /\ CancelIsLockedIn /\ FinishIsLanded
  /\ LockIsKept /\ DoneIsLanded /\ LocalLinks

-----------------------------------------------------------------------------
(* What the rest of the system does to a landing *)

\* A round that is decided finishes nothing but a no-op.
LEMMA AggregateFinishes ==
  ASSUME NEW p \in TaskIds, NEW st \in [TaskIds -> States \cup {"absent"}],
         NEW vd, NEW hd, NEW rms, Aggregate(p, st, vd, hd, rms),
         NEW x \in TaskIds, state'[x] = "done", st[x] # "done"
  PROVE  x = p /\ IsNoOp(p)
<1>1. CASE SpawnMerge(p, st, rms)
  BY <1>1 DEF SpawnMerge, Settle
<1>2. ASSUME NEW new, new # "done", state' = Settle(p, st, new) PROVE FALSE
  BY <1>2 DEF Settle
<1>3. CASE Supersede(p, st, NextTier(model[p]), rms, rms[p], "ready")
  BY <1>3 DEF Supersede
<1>4. CASE IsNoOp(p) /\ state' = Settle(p, st, "done")
  BY <1>4 DEF Settle
<1>5. state' # st
  OBVIOUS
<1> QED BY <1>1, <1>2, <1>3, <1>4, <1>5 DEF Aggregate, ApproveRound, RejectRound

\* What a landing has to know of a step that is not its own.
LandingKept(t) == landingRound'[t] = landingRound[t] /\ landingBy'[t] = landingBy[t]
LandingGone(t) == landingRound'[t] = 0 /\ landingBy'[t] = None
Linked(t) ==
  \/ links'[t] = links[t] /\ hasPR'[t] = hasPR[t]
  \/ \E ls \in Submissions : /\ state[t] = "in_progress" /\ state'[t] = "review"
                             /\ links'[t] = ls /\ hasPR'[t] = (hasPR[t] \/ "pr" \in ls)
FinishedElsewhere(t) ==
  state'[t] = "done" /\ state[t] # "done" =>
    "commit" \notin links[t] \/ "no_op" \in links[t] \/ hasPR[t]
Aloof(t) == (LandingKept(t) \/ (LandingGone(t) /\ hasPR[t])) /\ Linked(t) /\ FinishedElsewhere(t)

LEMMA AgentIsAloof ==
  ASSUME TypeOK, BoardInv, NEW r \in TaskIds, NEW a \in Agents, Agent(a, r), NEW t \in TaskIds
  PROVE  Aloof(t)
<1>1. LandingKept(t)
  BY DEF Agent, ClaimTask, HeartbeatTask, UnclaimTask, SubmitWork, SubmitReview, SubmitMerge,
     landingVars, LandingKept
<1>2. ASSUME NEW ls \in Submissions, SubmitWork(r, a, ls) PROVE Linked(t) /\ FinishedElsewhere(t)
  <2> DEFINE new == (used + 1)..(used + Len(Reviewers(r)))
  <2>1. /\ state' = [x \in TaskIds |-> IF x \in new THEN "ready"
                                       ELSE IF x = r THEN "review" ELSE state[x]]
        /\ links' = [links EXCEPT ![r] = ls] /\ hasPR' = [hasPR EXCEPT ![r] = @ \/ "pr" \in ls]
        /\ state[r] = "in_progress"
    BY <1>2 DEF SubmitWork, Owns
  <2>2. r \notin new
    BY <2>1 DEF BoardInv, BlankRows, TypeOK, TaskIds
  <2> HIDE DEF new
  <2>3. FinishedElsewhere(t)
    BY <2>1 DEF FinishedElsewhere
  <2>4. links'[r] = ls /\ hasPR'[r] = (hasPR[r] \/ "pr" \in ls) /\ state'[r] = "review"
    BY <2>1, <2>2 DEF TypeOK
  <2>5. t # r => links'[t] = links[t] /\ hasPR'[t] = hasPR[t]
    BY <2>1 DEF TypeOK
  <2>6. Linked(t)
    BY <2>1, <2>4, <2>5 DEF Linked
  <2> QED BY <2>3, <2>6
<1>3. ~(\E ls \in Submissions : SubmitWork(r, a, ls)) => Linked(t)
  BY DEF Agent, ClaimTask, HeartbeatTask, UnclaimTask, SubmitReview, SubmitMerge, linkVars, Linked
<1>4. ASSUME NEW v \in {"approve", "reject"}, SubmitReview(r, a, v) PROVE FinishedElsewhere(t)
  <2> DEFINE st == [state EXCEPT ![r] = "done"]
             vd == [verdict EXCEPT ![r] = v]
  <2>1. kind[r] = "review" /\ links[r] = {}
    BY <1>4 DEF SubmitReview, BoardInv, SubmittedIsWork
  <2>2. st \in [TaskIds -> States \cup {"absent"}] /\ \A x \in TaskIds : x # r => st[x] = state[x]
    BY DEF TypeOK, States
  <2>3. CASE target[r] = 0 /\ state' = st
    BY <2>1, <2>2, <2>3 DEF FinishedElsewhere
  <2>4. CASE target[r] # 0 /\ Aggregate(target[r], st, vd, held, reviewModels)
    <3>1. target[r] \in TaskIds
      BY <2>4 DEF TypeOK, TaskIds
    <3> HIDE DEF st, vd
    <3>2. ASSUME NEW p \in TaskIds, p = target[r], state'[t] = "done", st[t] # "done"
          PROVE  "no_op" \in links[t]
      <4>1. Aggregate(p, st, vd, held, reviewModels)
        BY <2>4, <3>2
      <4> QED BY <2>2, <3>2, <4>1, AggregateFinishes DEF IsNoOp
    <3> QED BY <2>1, <2>2, <3>1, <3>2 DEF FinishedElsewhere
  <2> QED BY <1>4, <2>3, <2>4 DEF SubmitReview
<1>5. ASSUME ClaimTask(r, a) \/ HeartbeatTask(r, a) \/ UnclaimTask(r, a) \/ SubmitMerge(r, a)
      PROVE  FinishedElsewhere(t)
  <2>1. \/ state' = state
        \/ \E new \in {"in_progress", "ready", "review"} : state' = [state EXCEPT ![r] = new]
    BY <1>5 DEF ClaimTask, HeartbeatTask, UnclaimTask, SubmitMerge
  <2>2. state'[t] = state[t] \/ state'[t] \in {"in_progress", "ready", "review"}
    BY <2>1 DEF TypeOK
  <2> QED BY <2>2 DEF FinishedElsewhere
<1> QED BY <1>1, <1>2, <1>3, <1>4, <1>5 DEF Agent, Aloof

LEMMA DecisionIsAloof ==
  ASSUME TypeOK, NEW p \in TaskIds, NEW st \in [TaskIds -> States \cup {"absent"}],
         \A x \in TaskIds : st[x] = "done" => state[x] = "done",
         NEW vd, NEW hd, NEW rms, Aggregate(p, st, vd, hd, rms), UNCHANGED <<linkVars, landingVars>>,
         NEW t \in TaskIds
  PROVE  Aloof(t)
<1>1. LandingKept(t) /\ Linked(t)
  BY DEF LandingKept, landingVars, Linked, linkVars
<1>2. FinishedElsewhere(t)
  BY AggregateFinishes DEF FinishedElsewhere, IsNoOp
<1> QED BY <1>1, <1>2 DEF Aloof

LEMMA ReviewersAreAloof ==
  ASSUME TypeOK, NEW p \in TaskIds, NEW ms, UpdateTaskReviewModels(p, ms), NEW t \in TaskIds
  PROVE  Aloof(t)
<1> DEFINE rms == [reviewModels EXCEPT ![p] = ms]
           new == {used + i : i \in Missing(p, ms)}
           gone == RetiredBy(p, ms)
           st == [x \in TaskIds |-> IF x \in gone THEN "abandoned"
                                    ELSE IF x \in new THEN "ready" ELSE state[x]]
<1>1. UNCHANGED <<linkVars, landingVars>>
  BY DEF UpdateTaskReviewModels, linkVars, landingVars
<1>2. LandingKept(t) /\ Linked(t)
  BY <1>1 DEF LandingKept, landingVars, Linked, linkVars
<1>3. CASE state' = state
  BY <1>2, <1>3 DEF FinishedElsewhere, Aloof
<1>4. CASE ReshapeRound(p, ms, rms)
  <2>1. Aggregate(p, st, verdict, held, rms) \/ state' = st
    BY <1>4 DEF ReshapeRound
  <2>2. /\ st \in [TaskIds -> States \cup {"absent"}]
        /\ \A x \in TaskIds : st[x] = "done" => state[x] = "done"
    BY DEF TypeOK, States
  <2> HIDE DEF st, rms
  <2>3. CASE state' = st
    BY <1>2, <2>2, <2>3 DEF FinishedElsewhere, Aloof
  <2> QED BY <1>1, <2>1, <2>2, <2>3, DecisionIsAloof
<1> QED BY <1>3, <1>4 DEF UpdateTaskReviewModels

\* An operator moves a task away from a reservation never, and marks work done
\* only if it has nothing to land.
LEMMA OperatorIsAloof ==
  ASSUME TypeOK, BoardInv, NEW r \in TaskIds, Operator(r), NEW t \in TaskIds
  PROVE  Aloof(t)
<1>1. ASSUME NEW to \in States, TransitionTask(r, to) PROVE Aloof(t)
  <2>1. /\ MayMove(state[r], to, kind[r])
        /\ state[r] = "approved" => landingRound[r] = 0 /\ (to = "done" => NothingToLand(r))
        /\ state' = [state EXCEPT ![r] = to]
        /\ landingRound' = [landingRound EXCEPT ![r] = 0]
        /\ landingBy' = [landingBy EXCEPT ![r] = None]
        /\ UNCHANGED linkVars
    BY <1>1 DEF TransitionTask, MoveTo
  <2>2. landingRound[r] = 0 /\ landingBy[r] = None
    BY <2>1 DEF BoardInv, ReservationPinsApproval, TypeOK
  <2>3. LandingKept(t) /\ Linked(t)
    BY <2>1, <2>2 DEF LandingKept, Linked, linkVars, TypeOK
  <2>4. to = "done" => "commit" \notin links[r]
    BY <2>1 DEF MayMove, Active, NothingToLand, BoardInv, SubmittedIsWork
  <2>5. FinishedElsewhere(t)
    BY <2>1, <2>4 DEF FinishedElsewhere, TypeOK
  <2> QED BY <2>3, <2>5 DEF Aloof
<1>2. ASSUME NEW m, NEW rm, SupersedeTask(r, m, rm) PROVE Aloof(t)
  <2>1. UNCHANGED <<linkVars, landingVars>> /\ \E n : state' = [state EXCEPT ![n] = "backlog", ![r] = "superseded"]
    BY <1>2 DEF SupersedeTask, Supersede
  <2> QED BY <2>1 DEF Aloof, LandingKept, Linked, FinishedElsewhere, TypeOK, linkVars, landingVars
<1>3. ASSUME ReleaseTask(r) PROVE Aloof(t)
  <2>1. UNCHANGED <<linkVars, landingVars>>
    BY <1>3 DEF ReleaseTask
  <2>2. \/ \E hd, rms : Aggregate(r, state, verdict, hd, rms)
        \/ state' = state
    BY <1>3 DEF ReleaseTask
  <2>3. CASE state' = state
    BY <2>1, <2>3 DEF Aloof, LandingKept, Linked, FinishedElsewhere, linkVars, landingVars
  <2> QED BY <2>1, <2>2, <2>3, DecisionIsAloof DEF TypeOK
<1>4. CASE PromoteTask(r)
  BY <1>4 DEF PromoteTask, Aloof, LandingKept, Linked, FinishedElsewhere, TypeOK, linkVars, landingVars
<1>5. CASE HoldTask(r) \/ (\E e \in BOOLEAN : UpdateTaskEscalate(r, e))
           \/ \E ds \in SUBSET Existing : UpdateTaskDependsOn(r, ds)
  BY <1>5
  DEF HoldTask, UpdateTaskEscalate, UpdateTaskDependsOn, Aloof, LandingKept, Linked, FinishedElsewhere,
      linkVars, landingVars
<1>6. ASSUME NEW ms \in ReviewLists, UpdateTaskReviewModels(r, ms) PROVE Aloof(t)
  BY <1>6, ReviewersAreAloof
<1> QED BY <1>1, <1>2, <1>3, <1>4, <1>5, <1>6 DEF Operator

\* Whatever agents, operators and the watcher do, only the watcher's merged pull
\* request takes a reservation away, and only it or a no-op finishes work that has
\* a commit to land.
LEMMA UsersAreAloof == ASSUME TypeOK, BoardInv, Users, NEW t \in TaskIds PROVE Aloof(t)
<1>0. Rows \subseteq TaskIds
  BY BoundsAssumption DEF TypeOK, Rows, TaskIds
<1>1. CASE Create
  <2>1. UNCHANGED <<linkVars, landingVars>> /\ (state'[t] = "backlog" \/ state'[t] = state[t])
    BY <1>1 DEF Create, CreateTasks
  <2> QED BY <2>1 DEF Aloof, LandingKept, Linked, FinishedElsewhere, linkVars, landingVars
<1>2. ASSUME NEW r \in Rows, NEW a \in Agents, Agent(a, r) PROVE Aloof(t)
  BY <1>0, <1>2, AgentIsAloof
<1>3. ASSUME NEW r \in Rows, Operator(r) PROVE Aloof(t)
  BY <1>0, <1>3, OperatorIsAloof
<1>4. ASSUME NEW r \in Rows, Converge(r) PROVE Aloof(t)
  <2>1. /\ hasPR[r] /\ UNCHANGED linkVars
        /\ landingRound' = [landingRound EXCEPT ![r] = 0]
        /\ landingBy' = [landingBy EXCEPT ![r] = None]
        /\ state'[t] # "done" \/ t = r \/ state'[t] = state[t]
    BY <1>4 DEF Converge
  <2>2. LandingKept(t) \/ (LandingGone(t) /\ hasPR[t])
    BY <2>1, <1>0 DEF LandingKept, LandingGone, TypeOK
  <2> QED BY <2>1, <2>2 DEF Aloof, Linked, FinishedElsewhere, linkVars
<1>5. ASSUME NEW r \in Rows, LeaseExpires(r) PROVE Aloof(t)
  BY <1>5 DEF LeaseExpires, Aloof, LandingKept, Linked, FinishedElsewhere, linkVars, landingVars
<1> QED BY <1>1, <1>2, <1>3, <1>4, <1>5 DEF Users

-----------------------------------------------------------------------------
(* Runs use the board as the board allows *)

\* What a step of a landing is to the board.
LEMMA BoardSide ==
  ASSUME [LandNext]_allVars
  PROVE  \/ UserStep \/ UNCHANGED vars
         \/ \E x \in Attempts :
              \/ ServeBegin(x) /\ MayReserve(x) /\ Reserve(Task(x), view[x].round, x)
              \/ ServeComplete(x) /\ CompleteLanding(Task(x), x)
              \/ ServeCancel(x) /\ CancelLanding(Task(x), Canceller(x))
<1>1. ASSUME NEW x \in Attempts, Run(x) PROVE UNCHANGED vars
  BY <1>1
  DEF Run, ReadTask, LockBranch, Prepare, SendBegin, Send, GiveUp, AskReserved, Publish, JudgeFailure,
      GiveBack, SendComplete, CheckDone, CheckTip, RemoveWorktree, DeleteBranch,
      FinishLanded, SendCancel, RefuseCancel, Crash
<1>2. BranchMoves \/ LockExpires \/ (\E r \in TaskIds : EditWip(r)) \/ UNCHANGED allVars => UNCHANGED vars
  BY DEF BranchMoves, LockExpires, EditWip, allVars
<1>3. ASSUME NEW x \in Attempts, Serve(x)
      PROVE  \/ UNCHANGED vars
             \/ ServeBegin(x) /\ MayReserve(x) /\ Reserve(Task(x), view[x].round, x)
             \/ ServeComplete(x) /\ CompleteLanding(Task(x), x)
             \/ ServeCancel(x) /\ CancelLanding(Task(x), Canceller(x))
  BY <1>3 DEF Serve, ServeBegin, ServeComplete, ServeCancel, Lost
<1> QED BY <1>1, <1>2, <1>3 DEF LandNext

\* Every step of a landing is a step of the board, or none of the board's business.
LEMMA LandingStepsAreBoardSteps ==
  ASSUME "land" \in Doings, TypeOK, BoardInv, RunInv, [LandNext]_allVars
  PROVE  [Next]_vars
<1>1. ASSUME NEW x \in Attempts, ServeBegin(x), MayReserve(x), Reserve(Task(x), view[x].round, x)
      PROVE  Next
  <2>1. Task(x) \in TaskIds /\ state[Task(x)] = "approved" /\ round[Task(x)] = view[x].round
    BY <1>1 DEF ServeBegin, MayReserve, Reservable, RunInv, RunsInOrder
  <2> DEFINE t == Task(x)
  <2>2. t \in Rows
    BY <2>1 DEF BoardInv, BlankRows, TypeOK, TaskIds, Rows
  <2> HIDE DEF t
  <2>3. BeginLanding(t, view[x].round, x)
    BY <1>1 DEF BeginLanding, MayReserve, t
  <2>4. view[x].round \in 1..MaxRound
    <3>1. Unanimous(t)
      BY <2>1 DEF t, BoardInv, ApprovedIsUnanimous
    <3>2. PICK c \in TaskIds : target[c] = t
      BY <3>1 DEF Unanimous, RoundTasks
    <3>3. round[t] > 0
      BY <2>2, <3>2 DEF BoardInv, TargetsAreWork, Rows
    <3> QED BY <2>1, <3>3 DEF t, TypeOK
  <2> QED BY <2>2, <2>3, <2>4 DEF Next, Approve
<1>2. ASSUME NEW x \in Attempts, ServeComplete(x), CompleteLanding(Task(x), x)
      PROVE  Next
  <2>1. Task(x) \in TaskIds /\ state[Task(x)] = "approved"
    BY <1>2 DEF ServeComplete, CompleteLanding, RunInv, RunsInOrder
  <2>2. Task(x) \in Rows
    BY <2>1 DEF BoardInv, BlankRows, TypeOK, TaskIds, Rows
  <2> QED BY <1>2, <2>2 DEF Next, Approve
<1>3. ASSUME NEW x \in Attempts, ServeCancel(x), CancelLanding(Task(x), Canceller(x))
      PROVE  Next
  <2>1. /\ Task(x) \in TaskIds /\ landingRound[Task(x)] # 0
        /\ landingBy[Task(x)] = Canceller(x)
    BY <1>3 DEF ServeCancel, CancelLanding, OwnsLanding, RunInv, RunsInOrder
  <2>2. Canceller(x) \in Attempts
    BY <2>1 DEF TypeOK
  <2>3. Task(x) \in Rows
    BY <2>1 DEF BoardInv, BlankRows, ReservationPinsApproval, TypeOK, TaskIds, Rows
  <2> QED BY <1>3, <2>2, <2>3 DEF Next, Approve
<1>4. UserStep => Next
  BY DEF UserStep, Next
<1> QED BY <1>1, <1>2, <1>3, <1>4, BoardSide

-----------------------------------------------------------------------------
(* What a run knows stays true *)

\* What one step can do to a run: it goes from one place to another, keeping the
\* task it read, ...
Goes(y, from, to) == pc[y] = from /\ pc'[y] = to /\ view'[y] = view[y]
KeepsPlan(y) == plan'[y] = plan[y]
KeepsCall(y) == call'[y] = call[y]
Calls(y, request) == plan'[y] = plan[y] /\ call'[y] = request
CallServed(y) == plan'[y] = plan[y] /\ call'[y] \in {call[y], "none"}
Mode(y) == view[y].mode
\* ... starting, ...
Reads(y) ==
  /\ pc[y] = "idle" /\ pc'[y] = "locking" /\ KeepsPlan(y) /\ KeepsCall(y)
  /\ \E t \in TaskIds :
       /\ view'[y].task = t /\ view'[y].owner = landingBy[t] /\ view'[y].commit = submitted[t]
       /\ view'[y].mode \in {"land", "finish", "cancel"} /\ "commit" \in links[t]
       /\ view'[y].mode = "finish" => state[t] = "done"
TakesLock(y) ==
  /\ Goes(y, "locking", "locked") /\ KeepsPlan(y) /\ KeepsCall(y)
  /\ lock' = y /\ ~expired' /\ (lock = None \/ expired)
Prepares(y) ==
  /\ \/ Goes(y, "locked", "prepared") /\ Mode(y) = "land"
     \/ Goes(y, "locked", "reserved") /\ Mode(y) = "finish"
  /\ KeepsCall(y) /\ wip[Task(y)] = view[y].commit /\ plan'[y].source = wip[Task(y)]
  /\ plan'[y].already <=> wip[Task(y)] \in landed[Task(y)]
  /\ Mode(y) = "finish" => view[y].commit \notin landed[Task(y)]
FindsLanded(y) ==
  /\ Goes(y, "locked", "cleaning") /\ Mode(y) = "finish" /\ KeepsCall(y)
  /\ plan'[y].source = view[y].commit /\ plan'[y].already = plan[y].already
  /\ view[y].commit \in landed[Task(y)]
\* ... reserving, publishing, giving back, completing, ...
Reserves(y) ==
  \/ Goes(y, "prepared", "reserving") /\ Calls(y, "begin")
  \/ Goes(y, "reserving", "asking") /\ Calls(y, call[y])
  \/ /\ Goes(y, "reserving", "reserved") /\ call[y] = "begin" /\ Calls(y, "none")
     /\ ServeBegin(y) /\ MayReserve(y) /\ Reserve(Task(y), view[y].round, y)
  \/ /\ Goes(y, "asking", "reserved") /\ Calls(y, call[y]) /\ UNCHANGED <<vars, lock>>
     /\ landingBy[Task(y)] = y /\ landingRound[Task(y)] # 0 /\ submitted[Task(y)] = plan[y].source
Publishes(y) ==
  /\ pc[y] = "reserved" /\ view'[y] = view[y] /\ Calls(y, call[y])
  /\ pc'[y] = (IF Mode(y) = "land" THEN "published" ELSE "cleaning")
  /\ plan[y].already \/ plan[y].source \in landed'[Task(y)]
GivesUp(y) ==
  \/ Goes(y, "reserved", "failed") /\ Mode(y) = "land" /\ ~plan[y].already /\ Calls(y, call[y])
  \/ /\ Goes(y, "reserved", "givingBack") /\ Mode(y) = "land" /\ ~plan[y].already
     /\ "checkout" \in Doings /\ Calls(y, call[y]) /\ UNCHANGED <<vars, landed, lock>>
  \/ Goes(y, "failed", "givingBack") /\ Calls(y, call[y]) /\ lock = y /\ UNCHANGED <<vars, landed, lock>>
  \/ Goes(y, "givingBack", "cancelling") /\ Calls(y, "cancel")
  \/ /\ Goes(y, "locked", "cancelling") /\ Mode(y) = "cancel" /\ Calls(y, "cancel")
     /\ ~OnBranch(y) /\ UNCHANGED <<vars, landed, submitted, lock>>
Completes(y) ==
  \/ Goes(y, "published", "completing") /\ Calls(y, "complete")
  \/ Goes(y, "completing", "checking") /\ CallServed(y)
  \/ Goes(y, "completing", "cleaning") /\ CallServed(y)
  \/ Goes(y, "checking", "cleaning") /\ Calls(y, call[y])
  \/ Goes(y, "cleaning", "removing") /\ Calls(y, call[y])
  \/ Goes(y, "removing", "deleting") /\ Calls(y, call[y])
\* ... ending, or staying where it is.
Ends(y) == pc[y] # "idle" /\ Goes(y, pc[y], "ended") /\ CallServed(y)
Rests(y) == Goes(y, pc[y], pc[y]) /\ CallServed(y)

RunFate(y) ==
  \/ Reads(y) \/ TakesLock(y) \/ Prepares(y) \/ FindsLanded(y) \/ Reserves(y) \/ Publishes(y)
  \/ GivesUp(y) \/ Completes(y) \/ Ends(y) \/ Rests(y)

LEMMA LandInitial == LandInit => RunInv
<1> SUFFICES ASSUME LandInit PROVE RunInv
  OBVIOUS
<1>1. LandTypes
  <2>1. NoView \in Views /\ NoPlan \in Plans
    BY BoundsAssumption DEF NoView, NoPlan, Views, Plans
  <2> QED BY <2>1 DEF LandInit, LandTypes, Steps, Requests
<1>2. RunsInOrder /\ OwnersKnowTheCommit /\ PublishedIsLanded
  BY NullAssumption
  DEF LandInit, Init, RunsInOrder, OwnersKnowTheCommit, PublishedIsLanded, NoView, NoPlan
<1> QED BY <1>1, <1>2 DEF RunInv

LEMMA EndTypes ==
  ASSUME LandTypes, NEW x \in Attempts, End(x)
  PROVE  pc' \in [Attempts -> Steps] /\ lock' \in Attempts \cup {None} /\ expired' \in BOOLEAN
BY DEF End, Goto, LandTypes, Steps

LEMMA GotoTypes ==
  ASSUME LandTypes, NEW x \in Attempts, NEW at \in Steps, Goto(x, at)
  PROVE  pc' \in [Attempts -> Steps]
BY DEF Goto, LandTypes

LEMMA LandTypesKept ==
  ASSUME TypeOK, BoardInv, RunInv, [LandNext]_allVars
  PROVE  LandTypes'
<1> USE DEF branchVars, lockVars, runVars, gitVars
<1>0. LandTypes
  BY DEF RunInv
<1>1. CASE UserStep
  BY <1>0, <1>1 DEF UserStep, LandTypes
<1>2. ASSUME NEW t \in TaskIds, EditWip(t) PROVE LandTypes'
  <2> DEFINE last == IF wip[t] > submitted[t] THEN wip[t] ELSE submitted[t]
  <2>1. last \in Nat
    BY <1>0 DEF LandTypes
  <2>2. wip' = [wip EXCEPT ![t] = last + 1] /\ trees' = trees \cup {t} /\ UNCHANGED <<submitted, branchVars, lockVars, runVars>>
    BY <1>2 DEF EditWip
  <2> HIDE DEF last
  <2> QED BY <1>0, <2>1, <2>2 DEF LandTypes
<1>3. CASE BranchMoves \/ LockExpires
  <2>1. CASE BranchMoves
    BY <1>0, <2>1 DEF BranchMoves, LandTypes
  <2>2. CASE LockExpires
    BY <1>0, <2>2 DEF LockExpires, LandTypes
  <2> QED BY <1>3, <2>1, <2>2
<1>4. ASSUME NEW x \in Attempts, NEW t \in Rows, NEW mode \in {"land", "finish", "cancel"},
             ReadTask(x, t, mode)
      PROVE  LandTypes'
  <2>1. t \in TaskIds /\ t \in 0..MaxTasks
    BY BoundsAssumption DEF Rows, TypeOK, TaskIds
  <2> DEFINE v == [mode |-> mode, task |-> t, round |-> round[t],
                   commit |-> submitted[t], owner |-> landingBy[t]]
  <2>2. v \in Views
    BY <1>0, <2>1 DEF Views, TypeOK, LandTypes
  <2>3. view' = [view EXCEPT ![x] = v] /\ Goto(x, "locking") /\ UNCHANGED <<gitVars, plan, call>>
    BY <1>4 DEF ReadTask
  <2> HIDE DEF v
  <2> QED BY <1>0, <2>2, <2>3, GotoTypes DEF LandTypes, Steps
<1>5. ASSUME NEW x \in Attempts, LockBranch(x) PROVE LandTypes'
  BY <1>0, <1>5, EndTypes, GotoTypes DEF LockBranch, LandTypes, Steps
<1>6. ASSUME NEW x \in Attempts, NEW request \in Requests, NEW at \in Steps, Send(x, request, at)
      PROVE  LandTypes'
  BY <1>0, <1>6, GotoTypes DEF Send, LandTypes
<1>7. ASSUME NEW x \in Attempts, SendBegin(x) \/ GiveBack(x) \/ SendComplete(x) \/ SendCancel(x)
      PROVE  LandTypes'
  BY <1>6, <1>7 DEF SendBegin, GiveBack, SendComplete, SendCancel, Requests, Steps
<1>8. ASSUME NEW x \in Attempts, Prepare(x) \/ FinishLanded(x) PROVE LandTypes'
  <2>1. Task(x) \in TaskIds
    BY <1>8 DEF Prepare, FinishLanded, Is, RunInv, RunsInOrder
  <2>2. plan' \in [Attempts -> Plans]
    <3>1. view[x].commit \in Nat /\ wip[Task(x)] \in Nat /\ tip \in Nat /\ plan[x] \in Plans
      BY <1>0, <2>1 DEF LandTypes, Views
    <3>2. \A src \in Nat : [plan[x] EXCEPT !.source = src] \in Plans
      BY <3>1 DEF Plans
    <3>3. \A already \in BOOLEAN :
            [source |-> wip[Task(x)], previous |-> tip, already |-> already] \in Plans
      BY <3>1 DEF Plans
    <3>4. CASE FinishLanded(x)
      BY <1>0, <3>1, <3>2, <3>4 DEF FinishLanded, LandTypes
    <3>5. CASE Prepare(x)
      <4> DEFINE there == wip[Task(x)] \in landed[Task(x)]
                 p == [source |-> wip[Task(x)], previous |-> tip, already |-> there]
      <4>1. p \in Plans
        <5>1. there \in BOOLEAN
          OBVIOUS
        <5> HIDE DEF there
        <5> QED BY <3>3, <5>1
      <4>2. plan' = [plan EXCEPT ![x] = p] \/ plan' = plan
        BY <3>5 DEF Prepare
      <4> HIDE DEF p
      <4> QED BY <1>0, <4>1, <4>2 DEF LandTypes
    <3> QED BY <1>8, <3>4, <3>5
  <2>3. pc' \in [Attempts -> Steps] /\ lock' \in Attempts \cup {None} /\ expired' \in BOOLEAN
    BY <1>0, <1>8, EndTypes, GotoTypes DEF Prepare, FinishLanded, LandTypes, Steps
  <2>4. UNCHANGED <<wip, trees, submitted, branchVars, view, call>>
    BY <1>8 DEF Prepare, FinishLanded
  <2> QED BY <1>0, <2>2, <2>3, <2>4 DEF LandTypes
<1>9. ASSUME NEW x \in Attempts, Publish(x) PROVE LandTypes'
  <2>1. landed' \in [TaskIds -> SUBSET Nat] /\ tip' \in Nat
    <3>1. plan[x].source \in Nat
      BY <1>0 DEF LandTypes, Plans
    <3>2. UNCHANGED branchVars \/ Published(x)
      BY <1>9 DEF Publish
    <3> QED BY <1>0, <3>1, <3>2 DEF Published, LandTypes
  <2>2. pc' \in [Attempts -> Steps] /\ lock' \in Attempts \cup {None} /\ expired' \in BOOLEAN
    BY <1>0, <1>9, EndTypes, GotoTypes DEF Publish, Published, LandTypes, Steps
  <2>3. UNCHANGED <<wip, trees, submitted, view, plan, call>>
    BY <1>9 DEF Publish
  <2> QED BY <1>0, <2>1, <2>2, <2>3 DEF LandTypes
<1>10. ASSUME NEW x \in Attempts,
              GiveUp(x) \/ AskReserved(x) \/ JudgeFailure(x) \/ CheckDone(x) \/ RefuseCancel(x) \/ Crash(x)
       PROVE  LandTypes'
  <2>1. UNCHANGED <<wip, trees, submitted, branchVars, view, plan, call>>
    BY <1>10 DEF GiveUp, AskReserved, JudgeFailure, CheckDone, RefuseCancel, Crash
  <2>2. pc' \in [Attempts -> Steps] /\ lock' \in Attempts \cup {None} /\ expired' \in BOOLEAN
    BY <1>0, <1>10, EndTypes, GotoTypes
    DEF GiveUp, AskReserved, JudgeFailure, CheckDone, RefuseCancel, Crash, LandTypes, Steps
  <2> QED BY <1>0, <2>1, <2>2 DEF LandTypes
<1>11. ASSUME NEW x \in Attempts, CheckTip(x) \/ RemoveWorktree(x) \/ DeleteBranch(x) PROVE LandTypes'
  BY <1>0, <1>11, EndTypes, GotoTypes DEF CheckTip, RemoveWorktree, DeleteBranch, LandTypes, Steps
<1>12. ASSUME NEW x \in Attempts, Serve(x) PROVE LandTypes'
  <2>1. UNCHANGED <<wip, trees, submitted, branchVars, view, plan>> /\ call' = [call EXCEPT ![x] = "none"]
    BY <1>12 DEF Serve, ServeBegin, ServeComplete, ServeCancel, Served, Lost
  <2>2. pc' \in [Attempts -> Steps] /\ lock' \in Attempts \cup {None} /\ expired' \in BOOLEAN
    BY <1>0, <1>12, EndTypes, GotoTypes
    DEF Serve, ServeBegin, ServeComplete, ServeCancel, Lost, Answer, Refusal, LandTypes, Steps
  <2> QED BY <1>0, <2>1, <2>2 DEF LandTypes, Requests
<1>13. CASE UNCHANGED allVars
  BY <1>0, <1>13 DEF allVars, landVars, LandTypes
<1> QED
  BY <1>1, <1>2, <1>3, <1>4, <1>5, <1>7, <1>8, <1>9, <1>10, <1>11, <1>12, <1>13 DEF LandNext, Run

\* A reservation changes hands only when the board serves a request of a run, or
\* a pull request was merged.
LEMMA ReservationChanges ==
  ASSUME TypeOK, BoardInv, RunInv, [LandNext]_allVars, NEW t \in TaskIds
  PROVE  \/ LandingKept(t)
         \/ LandingGone(t) /\ hasPR[t] /\ UserStep
         \/ \E x \in Attempts :
              \/ ServeBegin(x) /\ Task(x) = t /\ MayReserve(x)
                 /\ landingRound'[t] = view[x].round /\ landingBy'[t] = x
              \/ ServeComplete(x) /\ Task(x) = t /\ CompleteLanding(t, x) /\ LandingGone(t)
              \/ ServeCancel(x) /\ Aims(x, t) /\ call[x] = "cancel" /\ LandingGone(t)
<1>1. CASE UserStep
  BY <1>1, UsersAreAloof DEF UserStep, Aloof
<1>2. CASE UNCHANGED vars
  BY <1>2 DEF vars, LandingKept
<1>3. ASSUME NEW x \in Attempts, ServeBegin(x), MayReserve(x), Reserve(Task(x), view[x].round, x)
      PROVE  LandingKept(t) \/ (Task(x) = t /\ landingRound'[t] = view[x].round /\ landingBy'[t] = x)
  BY <1>3 DEF Reserve, LandingKept, TypeOK
<1>4. ASSUME NEW x \in Attempts, ServeComplete(x), CompleteLanding(Task(x), x)
      PROVE  LandingKept(t) \/ (Task(x) = t /\ LandingGone(t))
  BY <1>4 DEF CompleteLanding, MoveTo, LandingKept, LandingGone, TypeOK
<1>5. ASSUME NEW x \in Attempts, ServeCancel(x), CancelLanding(Task(x), Canceller(x))
      PROVE  LandingKept(t) \/ (Aims(x, t) /\ call[x] = "cancel" /\ LandingGone(t))
  BY <1>5 DEF ServeCancel, CancelLanding, OwnsLanding, Aims, LandingKept, LandingGone, TypeOK
<1> QED BY <1>1, <1>2, <1>3, <1>4, <1>5, BoardSide

\* One run moves at a time, and the others stay where they are.
LEMMA OneRunMoves ==
  ASSUME LandTypes, NEW x \in Attempts, NEW y \in Attempts, x # y,
         NEW at, pc' = [pc EXCEPT ![x] = at],
         view' = view \/ (\E v : view' = [view EXCEPT ![x] = v]),
         plan' = plan \/ (\E p : plan' = [plan EXCEPT ![x] = p]),
         call' = call \/ (\E c : call' = [call EXCEPT ![x] = c])
  PROVE  Rests(y)
BY DEF LandTypes, Rests, Goes, CallServed

LEMMA RunsMove ==
  ASSUME TypeOK, RunInv, [LandNext]_allVars, NEW y \in Attempts
  PROVE  RunFate(y)
<1> USE DEF branchVars, lockVars, runVars, gitVars
<1>0. LandTypes /\ \A x \in Attempts : pc[x] # "idle" => Task(x) \in TaskIds
  BY DEF RunInv, RunsInOrder
<1>1. CASE UNCHANGED runVars
  BY <1>1 DEF RunFate, Rests, Goes, CallServed
<1>2. ASSUME NEW x \in Attempts, NEW t \in Rows, NEW mode \in {"land", "finish", "cancel"},
             ReadTask(x, t, mode)
      PROVE  RunFate(y)
  <2>1. t \in TaskIds
    BY BoundsAssumption DEF Rows, TypeOK, TaskIds
  <2>2. CASE x = y
    <3>1. Reads(y)
      BY <1>0, <1>2, <2>1, <2>2 DEF ReadTask, Goto, Reads, KeepsPlan, KeepsCall, LandTypes
    <3> QED BY <3>1 DEF RunFate
  <2>3. CASE x # y
    BY <1>0, <1>2, <2>3, OneRunMoves DEF ReadTask, Goto, RunFate
  <2> QED BY <2>2, <2>3
<1>3. ASSUME NEW x \in Attempts, x # y, Run(x) \/ Serve(x), ~\E t \in Rows, mode \in {"land", "finish", "cancel"} : ReadTask(x, t, mode)
      PROVE  Rests(y)
  BY <1>0, <1>3
  DEF Run, LockBranch, Prepare, SendBegin, Send, GiveUp, AskReserved, Publish, Published, JudgeFailure,
      GiveBack, SendComplete, CheckDone, CheckTip, RemoveWorktree, DeleteBranch,
      FinishLanded, SendCancel, RefuseCancel, Crash, End, Goto,
      Serve, ServeBegin, ServeComplete, ServeCancel, Lost, Answer, Refusal, Served,
      LandTypes, Rests, Goes, CallServed
<1>4. CASE LockBranch(y)
  BY <1>0, <1>4
  DEF LockBranch, End, Goto, RunFate, TakesLock, Ends, Goes, KeepsPlan, KeepsCall, CallServed, LandTypes
<1>5. CASE Prepare(y)
  <2> DEFINE there == wip[Task(y)] \in landed[Task(y)]
             at == IF view[y].mode = "land" THEN "prepared" ELSE "reserved"
             p == [source |-> wip[Task(y)], previous |-> tip, already |-> there]
  <2>1. CASE End(y) /\ UNCHANGED plan
    <3>1. pc'[y] = "ended" /\ pc[y] = "locked" /\ UNCHANGED <<view, plan, call>>
      BY <1>0, <1>5, <2>1 DEF Prepare, End, Goto, LandTypes
    <3> QED BY <3>1 DEF RunFate, Ends, Goes, CallServed
  <2>2. CASE plan' = [plan EXCEPT ![y] = p] /\ wip[Task(y)] = view[y].commit /\ Goto(y, at)
    <3>1. p.source = wip[Task(y)] /\ p.already = there
      OBVIOUS
    <3>2. Mode(y) \in {"land", "finish", "cancel"} /\ view[y].mode = Mode(y)
      BY <1>0 DEF LandTypes, Views, Mode
    <3> HIDE DEF p
    <3>3. plan'[y].source = wip[Task(y)] /\ (plan'[y].already <=> there)
      BY <1>0, <2>2, <3>1 DEF LandTypes
    <3>4. /\ pc[y] = "locked" /\ Mode(y) # "cancel" /\ view'[y] = view[y] /\ call'[y] = call[y]
          /\ Mode(y) = "finish" => view[y].commit \notin landed[Task(y)]
      BY <1>5 DEF Prepare, Mode
    <3>5. pc'[y] = at
      BY <1>0, <2>2 DEF Goto, LandTypes
    <3>6. \/ Goes(y, "locked", "prepared") /\ Mode(y) = "land"
          \/ Goes(y, "locked", "reserved") /\ Mode(y) = "finish"
      BY <3>2, <3>4, <3>5 DEF Goes
    <3>7. Prepares(y)
      BY <2>2, <3>3, <3>4, <3>6 DEF Prepares, KeepsCall
    <3> QED BY <3>7 DEF RunFate
  <2>3. CASE ~(End(y) /\ UNCHANGED plan)
    <3>1. plan' = [plan EXCEPT ![y] = p]
      BY <1>5, <2>3 DEF Prepare
    <3>2. wip[Task(y)] = view[y].commit /\ Goto(y, at)
      BY <1>5, <2>3 DEF Prepare
    <3> QED BY <2>2, <3>1, <3>2
  <2> QED BY <2>1, <2>3
<1>6. CASE SendBegin(y) \/ GiveUp(y) \/ AskReserved(y)
  <2>1. CASE SendBegin(y) \/ GiveUp(y)
    BY <1>0, <2>1
    DEF SendBegin, Send, GiveUp, End, Goto, RunFate, Reserves, Completes, Ends, Goes,
        Calls, CallServed, LandTypes
  <2>2. CASE AskReserved(y)
    <3>1. pc[y] = "asking" /\ UNCHANGED <<vars, view, plan, call>>
      BY <2>2 DEF AskReserved
    <3>2. CASE End(y)
      <4>1. pc'[y] = "ended"
        BY <1>0, <3>2 DEF End, Goto, LandTypes
      <4> QED BY <3>1, <4>1 DEF RunFate, Ends, Goes, CallServed
    <3>3. CASE ~End(y)
      <4>1. /\ landingBy[Task(y)] = y /\ landingRound[Task(y)] = view[y].round
            /\ submitted[Task(y)] = plan[y].source /\ Goto(y, "reserved") /\ lock' = lock
        BY <2>2, <3>3 DEF AskReserved
      <4>2. pc'[y] = "reserved"
        BY <1>0, <4>1 DEF Goto, LandTypes
      <4>3. landingRound[Task(y)] # 0
        BY <1>0, <3>1, <4>1, NullAssumption DEF TypeOK
      <4>4. Goes(y, "asking", "reserved") /\ Calls(y, call[y])
        BY <3>1, <4>2 DEF Goes, Calls
      <4> QED BY <3>1, <4>1, <4>3, <4>4 DEF RunFate, Reserves
    <3> QED BY <3>2, <3>3
  <2> QED BY <1>6, <2>1, <2>2
<1>7. CASE Publish(y)
  BY <1>0, <1>7
  DEF Publish, Published, End, Goto, RunFate, Publishes, GivesUp, Ends, Goes, Calls, CallServed, Mode,
      LandTypes
<1>8. CASE JudgeFailure(y) \/ GiveBack(y) \/ SendComplete(y) \/ CheckDone(y)
  BY <1>0, <1>8
  DEF JudgeFailure, GiveBack, SendComplete, Send, CheckDone, End, Goto, RunFate, GivesUp, Completes, Ends,
      Goes, Calls, CallServed, LandTypes
<1>9. CASE CheckTip(y) \/ RemoveWorktree(y) \/ DeleteBranch(y) \/ RefuseCancel(y) \/ Crash(y)
  BY <1>0, <1>9
  DEF CheckTip, RemoveWorktree, DeleteBranch, RefuseCancel, Crash, Is, End, Goto, RunFate, Completes, Ends,
      Goes, Calls, CallServed, LandTypes
<1>10. CASE FinishLanded(y) \/ SendCancel(y)
  BY <1>0, <1>10
  DEF FinishLanded, SendCancel, Send, Is, Goto, RunFate, FindsLanded, GivesUp, Goes, Calls, KeepsCall, Mode,
      LandTypes, Plans
<1>11. CASE ServeBegin(y)
  BY <1>0, <1>11
  DEF ServeBegin, Served, Answer, Refusal, End, Goto, RunFate, Reserves, Ends, Rests, Goes, Calls, CallServed,
      LandTypes
<1>12. CASE ServeComplete(y) \/ ServeCancel(y) \/ Lost(y)
  BY <1>0, <1>12
  DEF ServeComplete, ServeCancel, Lost, Served, Answer, Refusal, End, Goto, RunFate, Completes, Ends, Rests,
      Goes, CallServed, LandTypes
<1>13. UserStep \/ BranchMoves \/ LockExpires \/ (\E t \in TaskIds : EditWip(t)) \/ UNCHANGED allVars
         => UNCHANGED runVars
  BY DEF UserStep, BranchMoves, LockExpires, EditWip, allVars, landVars
<1> QED
  BY <1>1, <1>2, <1>3, <1>4, <1>5, <1>6, <1>7, <1>8, <1>9, <1>10, <1>11, <1>12, <1>13
  DEF LandNext, Run, Serve, RunFate

\* A commit gets on the branch only by a run that has the lock and was about to publish.
PublishesHere(x, t) ==
  /\ pc[x] = "reserved" /\ lock = x /\ ~plan[x].already /\ Task(x) = t
  /\ landed'[t] = landed[t] \cup {plan[x].source} /\ UNCHANGED <<vars, submitted, lock>>
  /\ pc'[x] \in {"published", "cleaning"}

LEMMA LandedGrows ==
  ASSUME LandTypes, [LandNext]_allVars, NEW t \in TaskIds
  PROVE  landed'[t] = landed[t] \/ \E x \in Attempts : PublishesHere(x, t)
<1> USE DEF branchVars, gitVars
<1>1. ASSUME NEW x \in Attempts, Publish(x)
      PROVE  landed'[t] = landed[t] \/ PublishesHere(x, t)
  <2>1. landed' = landed \/ (Published(x) /\ ~plan[x].already /\ Verified(x))
    BY <1>1 DEF Publish
  <2>2. pc[x] = "reserved" /\ UNCHANGED <<vars, submitted>>
    BY <1>1 DEF Publish
  <2>3. landed' # landed => lock' = lock
    BY <1>1 DEF Publish, lockVars, End
  <2> QED BY <2>1, <2>2, <2>3 DEF Published, Verified, PublishesHere, LandTypes, Goto
<1>2. ASSUME NEW x \in Attempts, Run(x), ~Publish(x) PROVE landed' = landed
  BY <1>2
  DEF Run, ReadTask, LockBranch, Prepare, SendBegin, Send, GiveUp, AskReserved, JudgeFailure,
      GiveBack, SendComplete, CheckDone, CheckTip, RemoveWorktree, DeleteBranch,
      FinishLanded, SendCancel, RefuseCancel, Crash
<1>3. ASSUME NEW x \in Attempts, Serve(x) PROVE landed' = landed
  BY <1>3 DEF Serve, ServeBegin, ServeComplete, ServeCancel, Lost, Served
<1>4. UserStep \/ BranchMoves \/ LockExpires \/ (\E r \in TaskIds : EditWip(r)) \/ UNCHANGED allVars
         => landed' = landed
  BY DEF UserStep, BranchMoves, LockExpires, EditWip, allVars, landVars
<1> QED BY <1>1, <1>2, <1>3, <1>4 DEF LandNext

\* The commit of a round changes only when work in progress is submitted.
LEMMA SubmittedChanges ==
  ASSUME LandTypes, [LandNext]_allVars, NEW t \in TaskIds
  PROVE  submitted'[t] = submitted[t] \/ (UserStep /\ state[t] = "in_progress")
<1>1. CASE UserStep
  BY <1>1 DEF UserStep, LandTypes
<1>2. ASSUME NEW x \in Attempts, Run(x) PROVE submitted' = submitted
  BY <1>2
  DEF Run, ReadTask, LockBranch, Prepare, SendBegin, Send, GiveUp, AskReserved, Publish, JudgeFailure,
      GiveBack, SendComplete, CheckDone, CheckTip, RemoveWorktree, DeleteBranch,
      FinishLanded, SendCancel, RefuseCancel, Crash, gitVars
<1>3. ASSUME NEW x \in Attempts, Serve(x) PROVE submitted' = submitted
  BY <1>3 DEF Serve, ServeBegin, ServeComplete, ServeCancel, Lost, Served, gitVars
<1>4. BranchMoves \/ LockExpires \/ (\E r \in TaskIds : EditWip(r)) \/ UNCHANGED allVars
         => submitted' = submitted
  BY DEF BranchMoves, LockExpires, EditWip, allVars, landVars, gitVars
<1> QED BY <1>1, <1>2, <1>3, <1>4 DEF LandNext

\* A run that has begun has begun for good, and keeps what it read and prepared.
LEMMA BegunForGood ==
  ASSUME RunInv, NEW y \in Attempts, RunFate(y), Begun(y)
  PROVE  Begun(y)' /\ view'[y] = view[y] /\ plan'[y] = plan[y]
BY DEF RunFate, Reads, TakesLock, Prepares, FindsLanded, Reserves, Publishes, GivesUp, Completes, Ends, Rests,
   Goes, Calls, CallServed, Begun, Early, RunInv, RunsInOrder, Mode

LEMMA OwnersKept ==
  ASSUME TypeOK, BoardInv, RunInv, [LandNext]_allVars
  PROVE  OwnersKnowTheCommit'
<1> SUFFICES ASSUME NEW t \in TaskIds, NEW x \in Attempts, landingBy'[t] = x
             PROVE  /\ Begun(x)' /\ view'[x].mode = "land" /\ view'[x].task = t
                    /\ plan'[x].source = submitted'[t]
  BY DEF OwnersKnowTheCommit, Task
<1>0. RunFate(x) /\ LandTypes /\ x # None
  BY RunsMove, NullAssumption DEF RunInv
<1>1. CASE landingBy[t] = x
  <2>1. state[t] = "approved"
    BY <1>0, <1>1 DEF BoardInv, ReservationPinsApproval, TypeOK
  <2>2. submitted'[t] = submitted[t]
    BY <1>0, <2>1, SubmittedChanges
  <2> QED BY <1>0, <1>1, <2>2, BegunForGood DEF RunInv, OwnersKnowTheCommit, Task
<1>2. CASE landingBy[t] # x
  <2>1. ServeBegin(x) /\ Task(x) = t /\ MayReserve(x)
    BY <1>0, <1>2, ReservationChanges DEF LandingKept, LandingGone
  <2>2. /\ plan[x].source = submitted[t] /\ view[x].mode = "land"
        /\ pc[x] \in {"reserving", "asking", "ended"}
    BY <2>1 DEF MayReserve, ServeBegin, RunInv, RunsInOrder
  <2>3. view' = view /\ plan' = plan /\ submitted' = submitted /\ call'[x] = "none"
    BY <1>0, <2>1 DEF ServeBegin, Served, LandTypes
  <2>4. pc'[x] \notin Early
    BY <1>0, <2>1, <2>2 DEF ServeBegin, Answer, Refusal, End, Goto, LandTypes, Early
  <2> QED BY <2>1, <2>2, <2>3, <2>4 DEF Begun, Task
<1> QED BY <1>1, <1>2

LEMMA PublishedKept ==
  ASSUME TypeOK, BoardInv, RunInv, [LandNext]_allVars
  PROVE  PublishedIsLanded'
<1> SUFFICES ASSUME NEW x \in Attempts
             PROVE  /\ \/ pc'[x] \in {"published", "completing", "checking"} \cup Cleaning
                       \/ call'[x] = "complete"
                       => plan'[x].source \in landed'[Task(x)']
                    /\ plan'[x].already =>
                         /\ pc'[x] \notin {"idle", "locking", "locked", "failed"}
                         /\ plan'[x].source \in landed'[Task(x)']
  BY DEF PublishedIsLanded
<1>0. RunFate(x) /\ LandTypes
  BY RunsMove DEF RunInv
<1>1. CASE Reads(x)
  BY <1>1 DEF Reads, KeepsPlan, KeepsCall, RunInv, PublishedIsLanded, RunsInOrder
<1>2. ASSUME ~Reads(x)
      PROVE  /\ view'[x] = view[x] /\ Task(x)' = Task(x) /\ (pc[x] # "idle" => Task(x) \in TaskIds)
             /\ pc[x] # "idle" => landed[Task(x)] \subseteq landed'[Task(x)]
  <2>1. view'[x] = view[x]
    BY <1>0, <1>2 DEF RunFate, TakesLock, Prepares, FindsLanded, Reserves, Publishes, GivesUp, Completes,
       Ends, Rests, Goes
  <2>2. pc[x] # "idle" => Task(x) \in TaskIds
    BY DEF RunInv, RunsInOrder
  <2> QED BY <1>0, <2>1, <2>2, LandedGrows DEF Task, PublishesHere
<1>3. CASE Prepares(x)
  BY <1>2, <1>3 DEF Prepares, Reads, Goes, KeepsCall, RunInv, RunsInOrder
<1>4. CASE FindsLanded(x)
  BY <1>2, <1>4 DEF FindsLanded, Reads, Goes, KeepsCall, RunInv, PublishedIsLanded, RunsInOrder
<1>5. CASE Publishes(x)
  BY <1>2, <1>5 DEF Publishes, Reads, Calls, RunInv, PublishedIsLanded, RunsInOrder
<1>6. CASE TakesLock(x) \/ Reserves(x) \/ GivesUp(x)
  BY <1>2, <1>6
  DEF TakesLock, Reserves, GivesUp, Reads, Goes, Calls, KeepsPlan, KeepsCall, RunInv, PublishedIsLanded,
      RunsInOrder
<1>7. CASE Completes(x) \/ Ends(x)
  BY <1>2, <1>7 DEF Completes, Ends, Reads, Goes, Calls, CallServed, RunInv, PublishedIsLanded
<1>8. CASE Rests(x)
  <2>1. pc'[x] = pc[x] /\ call'[x] \in {call[x], "none"} /\ plan'[x] = plan[x] /\ view'[x] = view[x]
    BY <1>8 DEF Rests, Goes, CallServed
  <2>2. ~Reads(x)
    BY <2>1 DEF Reads
  <2>3. call[x] = "complete" => pc[x] # "idle"
    BY DEF RunInv, RunsInOrder
  <2> QED BY <1>2, <2>1, <2>2, <2>3 DEF RunInv, PublishedIsLanded
<1> QED BY <1>0, <1>1, <1>3, <1>4, <1>5, <1>6, <1>7, <1>8 DEF RunFate

LEMMA OrderKept ==
  ASSUME TypeOK, BoardInv, RunInv, [LandNext]_allVars
  PROVE  RunsInOrder'
<1> DEFINE Orderly(x) ==
      /\ pc[x] # "idle" => Task(x) \in TaskIds
      /\ call[x] = "begin" => Mode(x) = "land" /\ pc[x] \in {"reserving", "asking", "ended"}
      /\ call[x] = "complete" =>
           Mode(x) = "land" /\ pc[x] \in {"completing", "checking", "ended"} \cup Cleaning
      /\ call[x] = "cancel" => Mode(x) # "finish" /\ pc[x] \in {"cancelling", "ended"}
      /\ pc[x] \in {"prepared", "reserving", "asking", "failed", "givingBack",
                    "published", "completing", "checking"} => Mode(x) = "land"
      /\ pc[x] = "reserved" => Mode(x) # "cancel"
<1>1. ASSUME NEW x \in Attempts PROVE Orderly(x)'
  <2>0. RunFate(x) /\ Orderly(x)
    BY RunsMove DEF RunInv, RunsInOrder, Mode
  <2>1. landingBy[Task(x)] = x /\ Task(x) \in TaskIds => call[x] # "begin"
    BY DEF RunInv, OwnersKnowTheCommit, Begun
  <2>2. CASE Reads(x)
    BY <2>0, <2>2 DEF Reads, KeepsCall, Task, Mode
  <2>3. CASE TakesLock(x) \/ Prepares(x) \/ FindsLanded(x)
    BY <2>0, <2>3 DEF TakesLock, Prepares, FindsLanded, Goes, KeepsCall, Task, Mode
  <2>4. CASE Reserves(x)
    BY <2>0, <2>1, <2>4 DEF Reserves, Goes, Calls, Task, Mode
  <2>5. CASE Publishes(x)
    BY <2>0, <2>5 DEF Publishes, Calls, Task, Mode
  <2>6. CASE GivesUp(x)
    BY <2>0, <2>6 DEF GivesUp, Goes, Calls, Task, Mode
  <2>7. CASE Completes(x)
    BY <2>0, <2>7 DEF Completes, Goes, Calls, CallServed, Task, Mode
  <2>8. CASE Ends(x) \/ Rests(x)
    BY <2>0, <2>8 DEF Ends, Rests, Goes, CallServed, Task, Mode
  <2> QED BY <2>0, <2>2, <2>3, <2>4, <2>5, <2>6, <2>7, <2>8 DEF RunFate
<1>2. ASSUME NEW x \in Attempts, NEW z, z = view'[x].owner, z # None
      PROVE  z # x /\ pc'[z] \notin Early /\ call'[z] # "begin"
  <2>0. RunFate(x) /\ LandTypes
    BY RunsMove DEF RunInv
  <2>1. z \in Attempts /\ Begun(z) /\ z # x
    <3>1. CASE view'[x] = view[x]
      BY <1>2, <2>0, <3>1 DEF RunInv, RunsInOrder, LandTypes, Views
    <3>2. CASE Reads(x)
      <4>1. PICK t \in TaskIds : z = landingBy[t]
        BY <1>2, <3>2 DEF Reads
      <4>2. z \in Attempts
        BY <1>2, <4>1 DEF TypeOK
      <4>3. Begun(z)
        BY <4>1, <4>2 DEF RunInv, OwnersKnowTheCommit
      <4> QED BY <3>2, <4>2, <4>3 DEF Reads, Begun, Early
    <3> QED BY <2>0, <3>1, <3>2 DEF RunFate, TakesLock, Prepares, FindsLanded, Reserves, Publishes,
               GivesUp, Completes, Ends, Rests, Goes
  <2>2. Begun(z)'
    BY <2>1, RunsMove, BegunForGood
  <2> QED BY <2>1, <2>2 DEF Begun
<1>3. \A x \in Attempts : view'[x].owner # None =>
        view'[x].owner # x /\ pc'[view'[x].owner] \notin Early /\ call'[view'[x].owner] # "begin"
  BY <1>2
<1>4. \A x \in Attempts : Orderly(x)'
  BY <1>1
<1> QED BY <1>3, <1>4 DEF RunsInOrder, Mode, Begun

-----------------------------------------------------------------------------
(* What holds of every landing *)

\* What a run knows stays true, as long as the board's own invariant does.
LEMMA RunInvKept ==
  ASSUME TypeOK, BoardInv, RunInv, [LandNext]_allVars PROVE RunInv'
BY LandTypesKept, OrderKept, OwnersKept, PublishedKept DEF RunInv

LEMMA LandingInv == "land" \in Doings => (LandSpec => [](TypeOK /\ BoardInv /\ RowInv /\ RunInv))
<1> SUFFICES ASSUME "land" \in Doings PROVE LandSpec => [](TypeOK /\ BoardInv /\ RowInv /\ RunInv)
  OBVIOUS
<1>1. LandInit => TypeOK /\ BoardInv /\ RowInv /\ RunInv
  <2>1. LandInit => Init
    BY DEF LandInit
  <2>2. Init => RowInv
    BY DEF Init, RowInv
  <2> QED BY <2>1, <2>2, InitTypes, InitInv, LandInitial
<1>2. TypeOK /\ BoardInv /\ RowInv /\ RunInv /\ [LandNext]_allVars => (TypeOK /\ BoardInv /\ RowInv /\ RunInv)'
  BY LandingStepsAreBoardSteps, NextKeepsTypes, NextKeepsInv, NextKeepsRows, RunInvKept
<1> QED BY <1>1, <1>2, PTL DEF LandSpec

\* Landing implements the board: with its runs, the locks, the crashes and the
\* requests that come late, the board goes on as it always does, and whatever is
\* proved of the board holds of it.
THEOREM LandingIsBoard == "land" \in Doings => (LandSpec => Spec)
<1> SUFFICES ASSUME "land" \in Doings PROVE LandSpec => Spec
  OBVIOUS
<1>1. LandInit => Init
  BY DEF LandInit
<1>2. TypeOK /\ BoardInv /\ RunInv /\ [LandNext]_allVars => [Next]_vars
  BY LandingStepsAreBoardSteps
<1> QED BY <1>1, <1>2, LandingInv, PTL DEF LandSpec, Spec

\* A task's branch is deleted only when its last commit is on wi/<slug>, on no
\* condition but that landings go on: whoever crashes, loses its lock, or commits
\* between two steps of the cleanup.
THEOREM CleanupIsSafe == "land" \in Doings => (LandSpec => CleanupKeepsCommits)
<1> SUFFICES ASSUME "land" \in Doings PROVE LandSpec => CleanupKeepsCommits
  OBVIOUS
<1> DEFINE Kept == \A t \in TaskIds : wip[t] # 0 /\ wip'[t] = 0 => wip[t] \in landed[t]
<1>1. ASSUME RunInv, [LandNext]_allVars PROVE [Kept]_allVars
  <2> SUFFICES ASSUME NEW t \in TaskIds, wip[t] # 0, wip'[t] = 0 PROVE wip[t] \in landed[t]
    OBVIOUS
  <2>0. LandTypes
    BY <1>1 DEF RunInv
  <2>1. wip' # wip
    OBVIOUS
  <2>2. ASSUME NEW r \in TaskIds, EditWip(r) PROVE FALSE
    BY <2>0, <2>2 DEF EditWip, LandTypes
  <2>3. ASSUME NEW x \in Attempts, DeleteBranch(x) PROVE wip[t] \in landed[t]
    <3>1. wip[Task(x)] = plan[x].source /\ wip' = [wip EXCEPT ![Task(x)] = 0] /\ pc[x] = "deleting"
      BY <2>1, <2>3 DEF DeleteBranch, AtLandedCommit
    <3>2. t = Task(x)
      BY <2>0, <3>1 DEF LandTypes
    <3> QED BY <1>1, <3>1, <3>2 DEF RunInv, PublishedIsLanded, Cleaning
  <2>4. ASSUME NEW x \in Attempts, Run(x), ~DeleteBranch(x) PROVE wip' = wip
    BY <2>4
    DEF Run, ReadTask, LockBranch, Prepare, SendBegin, Send, GiveUp, AskReserved, Publish, JudgeFailure,
        GiveBack, SendComplete, CheckDone, CheckTip, RemoveWorktree, FinishLanded, SendCancel,
        RefuseCancel, Crash, gitVars
  <2>5. ASSUME NEW x \in Attempts, Serve(x) PROVE wip' = wip
    BY <2>5 DEF Serve, ServeBegin, ServeComplete, ServeCancel, Lost, Served, gitVars
  <2>6. UserStep \/ BranchMoves \/ LockExpires \/ UNCHANGED allVars => wip' = wip
    BY DEF UserStep, BranchMoves, LockExpires, allVars, landVars, gitVars
  <2> QED BY <1>1, <2>1, <2>2, <2>3, <2>4, <2>5, <2>6 DEF LandNext
<1>2. RunInv /\ [LandNext]_allVars => [Kept]_allVars
  BY <1>1
<1>3. CleanupKeepsCommits <=> [][Kept]_allVars
  BY DEF CleanupKeepsCommits
<1> HIDE DEF Kept
<1>4. LandSpec => [][Kept]_allVars
  BY <1>2, LandingInv, PTL DEF LandSpec
<1> QED BY <1>3, <1>4

-----------------------------------------------------------------------------
(* Done work is on the branch *)

\* The links of work stay those of one submission of the local_commit kind.
LEMMA LinksStayLocal ==
  ASSUME LocalWork, TypeOK, BoardInv, LocalLinks, [LandNext]_allVars
  PROVE  LocalLinks'
<1> SUFFICES ASSUME NEW t \in TaskIds
             PROVE  ~hasPR'[t] /\ (links'[t] = {} \/ links'[t] \in Submissions)
  BY DEF LocalLinks
<1>1. CASE UserStep
  <2>1. Linked(t)
    BY <1>1, UsersAreAloof DEF UserStep, Aloof
  <2> QED BY <2>1 DEF Linked, LocalLinks, LocalWork
<1>2. CASE UNCHANGED linkVars
  BY <1>2 DEF linkVars, LocalLinks
<1>3. ~UserStep => UNCHANGED linkVars
  BY BoardSide DEF vars, linkVars, Reserve, CompleteLanding, MoveTo, CancelLanding
<1> QED BY <1>1, <1>2, <1>3

LEMMA DoneStaysLanded ==
  ASSUME LocalWork, TypeOK, BoardInv, RunInv, LocalLinks, DoneIsLanded, [LandNext]_allVars
  PROVE  DoneIsLanded'
<1> SUFFICES ASSUME NEW t \in TaskIds, state'[t] = "done", "commit" \in links'[t]
             PROVE  submitted'[t] \in landed'[t]
  BY DEF DoneIsLanded
<1>0. LandTypes /\ landed[t] \subseteq landed'[t]
  BY LandedGrows DEF RunInv, PublishesHere
<1>1. CASE UserStep
  <2>1. Aloof(t)
    BY <1>1, UsersAreAloof DEF UserStep
  <2>2. links'[t] = links[t]
    BY <2>1 DEF Aloof, Linked
  <2>3. state[t] = "done"
    BY <2>1, <2>2 DEF Aloof, FinishedElsewhere, LocalLinks, LocalWork
  <2>4. submitted'[t] = submitted[t]
    BY <1>0, <2>3, SubmittedChanges
  <2> QED BY <1>0, <2>2, <2>3, <2>4 DEF DoneIsLanded
<1>2. ASSUME ~UserStep, state[t] = "done" PROVE submitted'[t] \in landed'[t]
  <2>1. links' = links /\ submitted'[t] = submitted[t]
    BY <1>0, <1>2, BoardSide, SubmittedChanges
    DEF vars, linkVars, Reserve, CompleteLanding, MoveTo, CancelLanding
  <2> QED BY <1>0, <1>2, <2>1 DEF DoneIsLanded
<1>3. ASSUME ~UserStep, state[t] # "done" PROVE submitted'[t] \in landed'[t]
  <2>1. PICK x \in Attempts : ServeComplete(x) /\ CompleteLanding(Task(x), x) /\ Task(x) = t
    BY <1>3, BoardSide DEF vars, Reserve, CompleteLanding, MoveTo, CancelLanding, TypeOK
  <2>2. landingBy[t] = x /\ call[x] = "complete" /\ state[t] = "approved"
    BY <2>1 DEF ServeComplete, CompleteLanding, OwnsLanding
  <2>3. plan[x].source = submitted[t] /\ plan[x].source \in landed[t]
    BY <2>1, <2>2 DEF RunInv, OwnersKnowTheCommit, PublishedIsLanded
  <2>4. submitted'[t] = submitted[t]
    BY <1>0, <2>2, SubmittedChanges
  <2> QED BY <1>0, <2>3, <2>4
<1> QED BY <1>1, <1>2, <1>3

\* In local_commit mode, where a worker submits a commit or a no-op, a task with a
\* commit is done only when the commit is on the branch: whatever operators move,
\* whoever loses its lock, crashes or answers late.
THEOREM DoneWorkIsLanded == "land" \in Doings /\ LocalWork => (LandSpec => []DoneIsLanded)
<1> SUFFICES ASSUME "land" \in Doings, LocalWork PROVE LandSpec => []DoneIsLanded
  OBVIOUS
<1>1. LandInit => LocalLinks /\ DoneIsLanded
  BY DEF LandInit, Init, LocalLinks, DoneIsLanded
<1>2. TypeOK /\ BoardInv /\ RunInv /\ LocalLinks /\ DoneIsLanded /\ [LandNext]_allVars
        => LocalLinks' /\ DoneIsLanded'
  BY LinksStayLocal, DoneStaysLanded
<1> QED BY <1>1, <1>2, LandingInv, PTL DEF LandSpec

-----------------------------------------------------------------------------
(* Published work is pinned *)

\* The lock goes from a run that ends to nobody, and to a run that takes it.
Releases(x) == pc'[x] = "ended" /\ lock = x /\ lock' = None /\ ~expired'
LEMMA LockMoves ==
  ASSUME LandTypes, [LandNext]_allVars
  PROVE  \/ lock' = lock /\ (expired' = expired \/ "lock_expires" \in Doings)
         \/ \E x \in Attempts : TakesLock(x) \/ Releases(x)
<1> USE DEF lockVars, gitVars
<1>1. ASSUME NEW x \in Attempts, End(x) PROVE UNCHANGED lockVars \/ Releases(x)
  BY <1>1 DEF End, Goto, Releases, LandTypes
<1>2. ASSUME NEW x \in Attempts, LockBranch(x) PROVE TakesLock(x) \/ End(x)
  BY <1>2 DEF LockBranch, Goto, TakesLock, Goes, KeepsPlan, KeepsCall, LandTypes
<1>3. ASSUME NEW x \in Attempts, Run(x), ~LockBranch(x) PROVE UNCHANGED lockVars \/ End(x)
  BY <1>3
  DEF Run, ReadTask, Prepare, SendBegin, Send, GiveUp, AskReserved, Publish, JudgeFailure,
      GiveBack, SendComplete, CheckDone, CheckTip, RemoveWorktree, DeleteBranch,
      FinishLanded, SendCancel, RefuseCancel, Crash
<1>4. ASSUME NEW x \in Attempts, Serve(x) PROVE UNCHANGED lockVars \/ End(x)
  BY <1>4 DEF Serve, ServeBegin, ServeComplete, ServeCancel, Lost, Answer, Refusal
<1>5. UserStep \/ BranchMoves \/ (\E r \in TaskIds : EditWip(r)) \/ UNCHANGED allVars => UNCHANGED lockVars
  BY DEF UserStep, BranchMoves, EditWip, allVars, landVars
<1>6. LockExpires => lock' = lock /\ "lock_expires" \in Doings
  BY DEF LockExpires
<1> QED BY <1>1, <1>2, <1>3, <1>4, <1>5, <1>6 DEF LandNext

LEMMA LockStaysKept ==
  ASSUME TypeOK, RunInv, LockIsKept, [LandNext]_allVars
  PROVE  LockIsKept'
<1> SUFFICES ASSUME "lock_expires" \notin Doings
             PROVE  ~expired' /\ \A y \in Attempts : pc'[y] \notin {"idle", "locking", "ended"} => lock' = y
  BY DEF LockIsKept
<1>1. ~expired /\ LandTypes
  BY DEF LockIsKept, RunInv
<1>2. ~expired'
  BY <1>1, LockMoves DEF TakesLock, Releases
<1>3. ASSUME NEW y \in Attempts, pc'[y] \notin {"idle", "locking", "ended"} PROVE lock' = y
  <2>1. RunFate(y)
    BY RunsMove
  <2>2. TakesLock(y) \/ pc[y] \notin {"idle", "locking", "ended"}
    BY <1>3, <2>1
    DEF RunFate, Reads, Prepares, FindsLanded, Reserves, Publishes, GivesUp, Completes, Ends, Rests, Goes
  <2>3. ASSUME lock = y PROVE lock' = y
    <3>1. ASSUME NEW x \in Attempts, TakesLock(x) PROVE FALSE
      BY <1>1, <2>3, <3>1, NullAssumption DEF TakesLock
    <3>2. ASSUME NEW x \in Attempts, Releases(x) PROVE FALSE
      BY <1>3, <2>3, <3>2 DEF Releases
    <3> QED BY <1>1, <2>3, <3>1, <3>2, LockMoves
  <2> QED BY <2>2, <2>3 DEF TakesLock, LockIsKept
<1> QED BY <1>2, <1>3

\* Nobody takes the lock of a run but that run.
LEMMA OwnLock ==
  ASSUME LandTypes, [LandNext]_allVars, NEW x \in Attempts, lock' = x
  PROVE  lock = x \/ TakesLock(x)
BY LockMoves, NullAssumption DEF TakesLock, Releases

\* A run that will drop a reservation meant to before, or has just decided to: as
\* the holder of the lock, for work it prepared itself, or for work it did not find
\* on the branch.
Decides(y) ==
  \/ Mode(y) = "land" /\ pc[y] \in {"reserved", "failed"} /\ ~plan[y].already /\ lock = y
  \/ Is(y, "cancel", "locked") /\ ~OnBranch(y)
LEMMA DropsComeFrom ==
  ASSUME RunInv, LockIsKept, LockOrNoCheckout, NEW y \in Attempts, RunFate(y), Dropping(y)'
  PROVE  /\ view'[y] = view[y] /\ (Dropping(y) \/ Decides(y))
         /\ UNCHANGED <<vars, landed>> \/ Dropping(y)
<1>1. CASE Reads(y)
  BY <1>1 DEF Reads, KeepsCall, Dropping, RunInv, RunsInOrder
<1>2. CASE GivesUp(y)
  <2>1. CASE Goes(y, "reserved", "givingBack") \/ Goes(y, "failed", "givingBack")
    <3>1. lock = y /\ ~plan[y].already /\ Mode(y) = "land" /\ UNCHANGED <<vars, landed>>
      <4>1. /\ pc[y] \in {"reserved", "failed"} /\ UNCHANGED <<vars, landed, lock>>
            /\ pc[y] = "reserved" => "checkout" \in Doings /\ ~plan[y].already /\ Mode(y) = "land"
            /\ pc[y] = "failed" => lock = y
        BY <1>2, <2>1 DEF GivesUp, Goes
      <4>2. pc[y] = "reserved" => lock = y
        BY <4>1 DEF LockIsKept, LockOrNoCheckout
      <4>3. pc[y] = "failed" => ~plan[y].already /\ Mode(y) = "land"
        BY DEF RunInv, PublishedIsLanded, RunsInOrder, Mode
      <4> QED BY <4>1, <4>2, <4>3
    <3> QED BY <2>1, <3>1 DEF Goes, Decides
  <2>2. CASE ~(Goes(y, "reserved", "givingBack") \/ Goes(y, "failed", "givingBack"))
    BY <1>2, <2>2 DEF GivesUp, Goes, Calls, Decides, Dropping, Is, Mode
  <2> QED BY <2>1, <2>2
<1>3. CASE TakesLock(y) \/ Prepares(y) \/ FindsLanded(y) \/ Reserves(y) \/ Publishes(y)
           \/ Completes(y) \/ Ends(y) \/ Rests(y)
  BY <1>3
  DEF TakesLock, Prepares, FindsLanded, Reserves, Publishes, Completes, Ends, Rests, Goes, Calls, KeepsCall,
      CallServed, Dropping
<1> QED BY <1>1, <1>2, <1>3 DEF RunFate

\* The step of a landing that the pinning of published work is about: what is known
\* before it, and what is known after it already.
Known == TypeOK /\ BoardInv /\ RowInv /\ ReviewsAreCurrent /\ RunInv /\ PinInv
Known1 == TypeOK /\ BoardInv /\ RunInv
Conditions == "land" \in Doings /\ LocalWork /\ LockOrNoCheckout

\* Nobody reserves a task in the name of a run that somebody means to drop.
LEMMA NobodyIsDroppedAhead ==
  ASSUME TypeOK, BoardInv, RunInv, [LandNext]_allVars, NEW t \in TaskIds, NEW y \in Attempts,
         view'[y] = view[y], Aims(y, t)', Dropping(y)' \/ view[y].mode = "cancel"
  PROVE  landingBy'[t] = landingBy[t] /\ Aims(y, t)
<1>1. /\ Task(y) = t /\ landingBy'[t] # None
      /\ landingBy'[t] = (IF view[y].mode = "cancel" THEN view[y].owner ELSE y)
  BY DEF Aims, Task, Canceller
<1>2. ASSUME NEW x \in Attempts, ServeBegin(x), landingBy'[t] = x PROVE FALSE
  <2>1. call[x] = "begin" /\ ~Begun(x)
    BY <1>2 DEF ServeBegin, Begun
  <2>2. view[y].mode # "cancel" /\ x = y
    <3>1. view[y].owner # None => Begun(view[y].owner)
      BY DEF RunInv, RunsInOrder
    <3> QED BY <1>1, <1>2, <2>1, <3>1
  <2>3. pc[x] \in {"reserving", "asking", "ended"} /\ LandTypes
    BY <2>1 DEF RunInv, RunsInOrder
  <2>4. call'[x] = "none" /\ pc'[x] \in {"reserved", "reserving", "asking", "ended"}
    BY <1>2, <2>3 DEF ServeBegin, Served, Answer, Refusal, End, Goto, LandTypes
  <2> QED BY <2>2, <2>4 DEF Dropping
<1>3. landingBy'[t] = landingBy[t]
  BY <1>1, <1>2, ReservationChanges DEF LandingKept, LandingGone
<1> QED BY <1>1, <1>3 DEF Aims, Canceller

\* A reservation that nobody is about to drop stays until its owner completes it.
LEMMA ReservationStays ==
  ASSUME Conditions, Known, Known1', [LandNext]_allVars, NEW t \in TaskIds, landingRound[t] # 0,
         \A y \in Attempts : ~(Aims(y, t) /\ call[y] = "cancel")
  PROVE  \/ landingRound'[t] # 0
         \/ \E x \in Attempts : ServeComplete(x) /\ Task(x) = t /\ CompleteLanding(t, x)
<1>1. ~hasPR[t]
  BY DEF Known, PinInv, LocalLinks
<1>2. landingBy'[t] # None => landingRound'[t] # 0
  BY DEF Known1, TypeOK
<1>3. TypeOK /\ BoardInv /\ RunInv
  BY DEF Known
<1> QED BY <1>1, <1>2, <1>3, NullAssumption, ReservationChanges DEF LandingKept

\* The commit and the links of a task that is approved or done stay as they are.
LEMMA WorkStays ==
  ASSUME "land" \in Doings, TypeOK, BoardInv, RunInv, [LandNext]_allVars,
         NEW t \in TaskIds, state[t] \in {"approved", "done"}
  PROVE  submitted'[t] = submitted[t] /\ links'[t] = links[t]
<1>1. submitted'[t] = submitted[t]
  BY SubmittedChanges DEF RunInv
<1>2. UserStep => links'[t] = links[t]
  BY UsersAreAloof DEF UserStep, Aloof, Linked
<1>3. ~UserStep => links'[t] = links[t]
  BY BoardSide DEF vars, linkVars, Reserve, CompleteLanding, MoveTo, CancelLanding
<1> QED BY <1>1, <1>2, <1>3

\* Work on the branch stays approved and reserved, or done.
LEMMA PublishedStays ==
  ASSUME Conditions, Known, Known1', [LandNext]_allVars, NEW t \in TaskIds, landed[t] # {}
  PROVE  /\ submitted'[t] = submitted[t] /\ links'[t] = links[t]
         /\ state'[t] = "done" \/ landingRound'[t] # 0
         /\ Unanimous(t)'
<1>0. TypeOK /\ BoardInv /\ RowInv /\ ReviewsAreCurrent /\ RunInv /\ BoardInv' /\ [Next]_vars
  BY LandingStepsAreBoardSteps DEF Known, Known1, Conditions
<1>1. /\ Unanimous(t) /\ (state[t] = "done" \/ landingRound[t] # 0)
      /\ \A y \in Attempts : ~(Aims(y, t) /\ call[y] = "cancel")
  BY DEF Known, PinInv, Pinned, Dropping
<1>2. landingRound[t] # 0 => state[t] = "approved"
  BY <1>0 DEF BoardInv, ReservationPinsApproval
<1>3. submitted'[t] = submitted[t] /\ links'[t] = links[t]
  BY <1>0, <1>1, <1>2, WorkStays DEF Conditions
<1>4. state'[t] = "done" \/ landingRound'[t] # 0
  <2>1. CASE state[t] = "done"
    <3>1. kind[t] # "review" \/ state[t] # "superseded"
      BY <2>1
    <3> QED BY <1>0, <2>1, <3>1, NextKeepsFinished
  <2>2. CASE landingRound[t] # 0
    BY <1>0, <1>1, <2>2, ReservationStays DEF CompleteLanding, MoveTo, TypeOK
  <2> QED BY <1>1, <2>1, <2>2
<1>5. state'[t] \in {"approved", "done"}
  BY <1>0, <1>4 DEF BoardInv, ReservationPinsApproval
<1> QED BY <1>0, <1>1, <1>2, <1>3, <1>4, <1>5, UnanimousStays

LEMMA PinnedKept ==
  ASSUME Conditions, Known, Known1', [LandNext]_allVars
  PROVE  Pinned'
<1> SUFFICES ASSUME NEW t \in TaskIds, landed'[t] # {}
             PROVE  /\ landed'[t] \subseteq {submitted'[t]} /\ "commit" \in links'[t] /\ Unanimous(t)'
                    /\ state'[t] = "done" \/ landingRound'[t] # 0
                    /\ \A y \in Attempts : ~(Aims(y, t)' /\ Dropping(y)')
  BY DEF Pinned
<1>0. TypeOK /\ BoardInv /\ RunInv /\ LandTypes /\ PinInv /\ RunInv'
  BY DEF Known, Known1, RunInv
<1>1. CASE landed'[t] = landed[t]
  <2>1. ASSUME NEW y \in Attempts, Aims(y, t)', Dropping(y)' PROVE FALSE
    <3>1. view'[y] = view[y] /\ (Dropping(y) \/ Decides(y))
      BY <1>0, <2>1, RunsMove, DropsComeFrom DEF Conditions, PinInv
    <3>2. Aims(y, t)
      BY <1>0, <2>1, <3>1, NobodyIsDroppedAhead
    <3>3. Decides(y) /\ submitted[t] \in landed[t]
      BY <1>0, <1>1, <3>1, <3>2 DEF PinInv, Pinned
    <3>4. CASE Is(y, "cancel", "locked") /\ ~OnBranch(y)
      <4>1. view[y].owner # None /\ landingBy[t] = view[y].owner /\ Task(y) = t
        BY <3>2, <3>4 DEF Aims, Canceller, Is
      <4>2. view[y].commit = submitted[t]
        BY <1>0, <3>4, <4>1 DEF PinInv, CancelIsLockedIn, Is
      <4> QED BY <3>3, <3>4, <4>1, <4>2 DEF OnBranch
    <3>5. CASE Mode(y) = "land" /\ pc[y] \in {"reserved", "failed"} /\ ~plan[y].already /\ lock = y
      <4>1. landingBy[t] = y /\ Task(y) = t
        BY <3>2, <3>5 DEF Aims, Canceller, Mode
      <4>2. plan[y].source = submitted[t]
        BY <1>0, <4>1 DEF RunInv, OwnersKnowTheCommit
      <4> QED BY <1>0, <3>3, <3>5, <4>1, <4>2 DEF PinInv, HolderIsFirst, Mode
    <3> QED BY <3>3, <3>4, <3>5 DEF Decides
  <2>2. landed[t] \subseteq {submitted[t]} /\ "commit" \in links[t]
    BY <1>0, <1>1 DEF PinInv, Pinned
  <2> QED BY <1>1, <2>1, <2>2, PublishedStays
<1>2. ASSUME NEW x \in Attempts, PublishesHere(x, t)
      PROVE  /\ landed'[t] \subseteq {submitted'[t]} /\ "commit" \in links'[t] /\ Unanimous(t)'
             /\ landingRound'[t] # 0
             /\ \A y \in Attempts : ~(Aims(y, t)' /\ Dropping(y)')
  <2>1. /\ UNCHANGED vars /\ submitted' = submitted /\ lock = x
        /\ landed'[t] = landed[t] \cup {plan[x].source} /\ Task(x) = t
        /\ Publishing(x)
    BY <1>2 DEF PublishesHere, Publishing
  <2>2. /\ landingRound[t] # 0 /\ plan[x].source = submitted[t]
        /\ \A y \in Attempts : ~(Aims(y, t) /\ (Dropping(y) \/ Is(y, "cancel", "locked")))
    BY <1>0, <2>1 DEF PinInv, HolderIsSafe
  <2>3. "commit" \in links[t] /\ Unanimous(t)
    BY <1>0, <2>2 DEF BoardInv, ReservationPinsApproval, ApprovedIsUnanimous
  <2>4. Unanimous(t)'
    BY <2>1, <2>3 DEF vars, Unanimous, RoundTasks
  <2>5. landed[t] \subseteq {submitted[t]}
    BY <1>0 DEF PinInv, Pinned
  <2>6. ASSUME NEW y \in Attempts, Aims(y, t)', Dropping(y)' PROVE FALSE
    <3>1. view'[y] = view[y] /\ (Dropping(y) \/ Decides(y))
      BY <1>0, <2>6, RunsMove, DropsComeFrom DEF Conditions, PinInv
    <3>2. Aims(y, t)
      BY <1>0, <2>6, <3>1, NobodyIsDroppedAhead
    <3>3. lock = y /\ y = x
      BY <2>1, <2>2, <3>1, <3>2 DEF Decides
    <3>4. pc'[x] \in {"published", "cleaning"}
      BY <1>2 DEF PublishesHere
    <3> QED BY <1>0, <2>6, <3>3, <3>4 DEF Dropping, RunInv, RunsInOrder
  <2> QED BY <2>1, <2>2, <2>3, <2>4, <2>5, <2>6 DEF vars
<1> QED BY <1>0, <1>1, <1>2, LandedGrows

\* A run that is about to publish as the holder of the lock was so before, or has
\* its reservation just now.
LEMMA PublishingComesFrom ==
  ASSUME Conditions, Known, [LandNext]_allVars, NEW x \in Attempts, Publishing(x)'
  PROVE  /\ lock = x /\ view'[x] = view[x] /\ plan'[x] = plan[x] /\ Task(x) \in TaskIds
         /\ Publishing(x) \/ (Reserves(x) /\ pc[x] \in {"reserving", "asking"})
<1>0. RunFate(x) /\ LandTypes /\ pc'[x] = "reserved" /\ lock' = x /\ ~plan'[x].already
  BY RunsMove DEF Known, RunInv, Publishing
<1>1. lock = x
  BY <1>0, OwnLock DEF TakesLock, Goes
<1>2. ~Prepares(x)
  BY <1>0 DEF Prepares, Goes, Mode, Known, PinInv, FinishIsLanded
<1>3. Rests(x) \/ (Reserves(x) /\ pc[x] \in {"reserving", "asking"})
  BY <1>0, <1>2
  DEF RunFate, Reads, TakesLock, FindsLanded, Reserves, Publishes, GivesUp, Completes, Ends, Rests, Goes
<1>4. pc[x] # "idle" /\ view'[x] = view[x] /\ plan'[x] = plan[x]
  BY <1>0, <1>3 DEF Rests, Reserves, Goes, Calls, CallServed
<1>5. Task(x) \in TaskIds
  BY <1>4 DEF Known, RunInv, RunsInOrder
<1>6. Rests(x) => Publishing(x)
  BY <1>0, <1>1, <1>4 DEF Rests, Goes, Publishing
<1> QED BY <1>1, <1>3, <1>4, <1>5, <1>6

LEMMA HolderStaysReserved ==
  ASSUME Conditions, Known, Known1', [LandNext]_allVars, NEW x \in Attempts, Publishing(x)',
         NEW t \in TaskIds, t = Task(x)
  PROVE  landingRound'[t] # 0 /\ plan[x].source = submitted'[t]
<1>0. TypeOK /\ BoardInv /\ RunInv /\ LandTypes /\ PinInv /\ TypeOK' /\ lock = x
  BY PublishingComesFrom DEF Known, Known1, RunInv
<1>1. CASE Publishing(x)
  <2>1. /\ landingRound[t] # 0 /\ plan[x].source = submitted[t]
        /\ \A y \in Attempts : ~(Aims(y, t) /\ call[y] = "cancel")
    BY <1>0, <1>1 DEF PinInv, HolderIsSafe, Dropping
  <2>2. submitted'[t] = submitted[t]
    BY <1>0, <2>1, WorkStays DEF BoardInv, ReservationPinsApproval, Conditions
  <2>3. ASSUME NEW z \in Attempts, ServeComplete(z), Task(z) = t, CompleteLanding(t, z) PROVE FALSE
    <3>1. call[z] = "complete" /\ landingBy[t] = z
      BY <2>3 DEF ServeComplete, CompleteLanding, OwnsLanding
    <3>2. submitted[t] \in landed[t]
      BY <1>0, <2>3, <3>1 DEF RunInv, OwnersKnowTheCommit, PublishedIsLanded
    <3>3. view[x].mode = "land"
      BY <1>0, <1>1 DEF PinInv, FinishIsLanded, Publishing
    <3> QED BY <1>0, <1>1, <2>1, <3>2, <3>3 DEF PinInv, HolderIsFirst, Publishing
  <2> QED BY <2>1, <2>2, <2>3, ReservationStays
<1>2. ASSUME ServeBegin(x), MayReserve(x), Reserve(Task(x), view[x].round, x)
      PROVE  landingRound'[t] # 0 /\ plan[x].source = submitted'[t]
  <2>1. plan[x].source = submitted[t] /\ submitted' = submitted
    BY <1>2 DEF MayReserve, ServeBegin, Served
  <2>2. landingBy'[t] = x
    BY <1>0, <1>2 DEF Reserve, TypeOK
  <2> QED BY <1>0, <2>1, <2>2, NullAssumption DEF TypeOK
<1>3. ASSUME UNCHANGED vars, landingRound[t] # 0, submitted[t] = plan[x].source
      PROVE  landingRound'[t] # 0 /\ plan[x].source = submitted'[t]
  <2>1. state[t] = "approved"
    BY <1>0, <1>3 DEF BoardInv, ReservationPinsApproval
  <2> QED BY <1>0, <1>3, <2>1, WorkStays DEF Conditions, vars
<1>4. Publishing(x)' => pc'[x] = "reserved"
  BY DEF Publishing
<1> QED BY <1>1, <1>2, <1>3, <1>4, PublishingComesFrom DEF Reserves, Goes

LEMMA HolderSafeKept ==
  ASSUME Conditions, Known, Known1', [LandNext]_allVars
  PROVE  HolderIsSafe'
<1> SUFFICES ASSUME NEW x \in Attempts, Publishing(x)'
             PROVE  /\ landingRound'[Task(x)'] # 0 /\ plan'[x].source = submitted'[Task(x)']
                    /\ \A y \in Attempts :
                         ~(Aims(y, Task(x))' /\ (Dropping(y)' \/ Is(y, "cancel", "locked")'))
  BY DEF HolderIsSafe
<1>0. TypeOK /\ BoardInv /\ RunInv /\ LandTypes /\ PinInv /\ RunInv'
  BY DEF Known, Known1, RunInv
<1>1. PICK t \in TaskIds : t = Task(x) /\ t = Task(x)' /\ plan'[x] = plan[x] /\ lock = x
  BY PublishingComesFrom DEF Task
<1>2. landingRound'[t] # 0 /\ plan[x].source = submitted'[t]
  BY <1>1, HolderStaysReserved
<1>3. pc'[x] = "reserved" /\ lock' = x
  BY DEF Publishing
<1>4. ASSUME NEW y \in Attempts, Aims(y, t)', Dropping(y)' \/ Is(y, "cancel", "locked")' PROVE FALSE
  <2>1. ~(Dropping(y)' /\ y = x)
    BY <1>0, <1>3 DEF Dropping, RunInv, RunsInOrder
  <2>2. view'[y] = view[y] /\ (Dropping(y) \/ Is(y, "cancel", "locked"))
    <3>1. CASE Dropping(y)'
      <4>1. view'[y] = view[y] /\ (Dropping(y) \/ Decides(y))
        BY <1>0, <3>1, RunsMove, DropsComeFrom DEF Conditions, PinInv
      <4> QED BY <1>1, <2>1, <3>1, <4>1 DEF Decides
    <3>2. CASE Is(y, "cancel", "locked")'
      <4>1. pc'[y] = "locked" /\ view'[y].mode = "cancel" /\ y # x /\ RunFate(y)
        BY <1>0, <1>3, <3>2, RunsMove DEF Is
      <4>2. Rests(y)
        BY <1>3, <4>1
        DEF RunFate, Reads, TakesLock, Prepares, FindsLanded, Reserves, Publishes, GivesUp, Completes, Ends,
            Rests, Goes
      <4> QED BY <4>1, <4>2 DEF Rests, Goes, Is
    <3> QED BY <1>4, <3>1, <3>2
  <2>3. landingBy'[t] = landingBy[t] /\ Aims(y, t)
    BY <1>0, <1>4, <2>2, NobodyIsDroppedAhead DEF Is
  <2>4. CASE Publishing(x)
    BY <1>0, <1>1, <2>2, <2>3, <2>4 DEF PinInv, HolderIsSafe
  <2>5. CASE Reserves(x) /\ pc[x] \in {"reserving", "asking"}
    <3>1. landingBy'[t] = x
      BY <1>0, <1>1, <1>3, <2>5 DEF Reserves, Goes, Reserve, TypeOK, vars
    <3>2. landingBy[t] = x /\ Canceller(y) = x
      BY <2>3, <3>1 DEF Aims
    <3>3. CASE view[y].mode = "cancel"
      <4>1. view[y].owner = x
        BY <3>2, <3>3 DEF Canceller
      <4>2. pc[y] = "locked" \/ call[y] = "cancel"
        BY <1>0, <2>2, <3>3 DEF Is, Dropping, RunInv, RunsInOrder
      <4>3. pc[y] # "idle" /\ view[y].owner # None
        BY <1>0, <4>1, <4>2, NullAssumption DEF RunInv, RunsInOrder
      <4> QED BY <1>0, <1>1, <3>3, <4>1, <4>2, <4>3 DEF PinInv, CancelIsLockedIn
    <3>4. CASE view[y].mode # "cancel"
      <4>1. y = x /\ Dropping(x)
        BY <2>2, <3>2, <3>4 DEF Canceller, Is
      <4> QED BY <1>0, <2>5, <4>1 DEF Dropping, RunInv, RunsInOrder
    <3> QED BY <3>3, <3>4
  <2> QED BY <2>4, <2>5, PublishingComesFrom
<1> QED BY <1>1, <1>2, <1>4

LEMMA HolderFirstKept ==
  ASSUME Known, [LandNext]_allVars
  PROVE  HolderIsFirst'
<1> SUFFICES ASSUME NEW x \in Attempts, lock' = x, view'[x].mode = "land", ~plan'[x].already,
                    pc'[x] \in {"prepared", "reserving", "asking", "reserved", "failed"}
             PROVE  plan'[x].source \notin landed'[Task(x)']
  BY DEF HolderIsFirst
<1>0. RunFate(x) /\ LandTypes /\ RunInv /\ PinInv
  BY RunsMove DEF Known, RunInv
<1>1. lock = x
  BY <1>0, OwnLock DEF TakesLock, Goes
<1>2. /\ view'[x] = view[x] /\ Task(x)' = Task(x)
      /\ \/ Prepares(x)
         \/ /\ pc[x] \in {"prepared", "reserving", "asking", "reserved", "failed"}
            /\ plan'[x] = plan[x]
  BY <1>0
  DEF RunFate, Reads, TakesLock, Prepares, FindsLanded, Reserves, Publishes, GivesUp, Completes, Ends, Rests,
      Goes, Calls, CallServed, Task
<1>3. Task(x) \in TaskIds
  BY <1>0, <1>2 DEF RunInv, RunsInOrder, Prepares, Goes
<1>4. landed'[Task(x)] = landed[Task(x)]
  BY <1>0, <1>1, <1>3, LandedGrows DEF PublishesHere
<1>5. plan'[x].source \notin landed[Task(x)]
  <2>1. CASE Prepares(x)
    BY <2>1 DEF Prepares
  <2>2. CASE ~Prepares(x)
    BY <1>0, <1>1, <1>2, <2>2 DEF PinInv, HolderIsFirst
  <2> QED BY <2>1, <2>2
<1> QED BY <1>2, <1>4, <1>5

LEMMA CancelLockedInKept ==
  ASSUME Conditions, Known, [LandNext]_allVars
  PROVE  CancelIsLockedIn'
<1> SUFFICES ASSUME NEW y \in Attempts, pc'[y] # "idle", view'[y].mode = "cancel",
                    NEW z, z = view'[y].owner, z # None
             PROVE  /\ pc'[y] = "locked" \/ call'[y] = "cancel" => lock' # z
                    /\ landingBy'[Task(y)'] = z => view'[y].commit = submitted'[Task(y)']
  BY DEF CancelIsLockedIn
<1>0. RunFate(y) /\ TypeOK /\ BoardInv /\ RunInv /\ LandTypes /\ PinInv
  BY RunsMove DEF Known, RunInv
<1>1. CASE Reads(y)
  <2>1. PICK t \in TaskIds : /\ view'[y].task = t /\ z = landingBy[t] /\ view'[y].commit = submitted[t]
                             /\ pc[y] = "idle" /\ pc'[y] = "locking" /\ call'[y] = call[y]
    BY <1>1 DEF Reads, KeepsCall
  <2>2. call'[y] # "cancel"
    BY <1>0, <2>1 DEF RunInv, RunsInOrder
  <2>3. state[t] = "approved"
    BY <1>0, <2>1 DEF BoardInv, ReservationPinsApproval, TypeOK
  <2>4. submitted'[t] = submitted[t]
    BY <1>0, <2>3, WorkStays DEF Conditions
  <2> QED BY <2>1, <2>2, <2>4 DEF Task
<1>2. CASE ~Reads(y)
  <2>1. pc[y] # "idle" /\ view'[y] = view[y] /\ Task(y)' = Task(y)
    BY <1>0, <1>2
    DEF RunFate, TakesLock, Prepares, FindsLanded, Reserves, Publishes, GivesUp, Completes, Ends,
        Rests, Goes, Task
  <2>2. Task(y) \in TaskIds /\ z \in Attempts /\ Begun(z) /\ z # y
    <3>1. z = view[y].owner
      BY <2>1
    <3>2. z \in Attempts
      BY <1>0, <3>1 DEF LandTypes, Views
    <3> QED BY <1>0, <2>1, <3>1, <3>2 DEF RunInv, RunsInOrder
  <2>3. ASSUME pc'[y] = "locked" \/ call'[y] = "cancel" PROVE lock' # z
    <3>1. CASE TakesLock(y)
      BY <2>2, <3>1 DEF TakesLock
    <3>2. CASE ~TakesLock(y)
      <4>1. pc[y] = "locked" \/ call[y] = "cancel"
        <5>1. pc[y] \notin {"prepared", "published", "givingBack"}
          BY <1>0, <2>1 DEF RunInv, RunsInOrder
        <5> QED
          BY <1>0, <1>2, <2>3, <3>2, <5>1
          DEF RunFate, Prepares, FindsLanded, Reserves, Publishes, GivesUp, Completes, Ends, Rests, Goes,
              Calls, KeepsCall, CallServed
      <4>2. lock # z
        BY <1>0, <2>1, <4>1 DEF PinInv, CancelIsLockedIn
      <4> QED BY <1>0, <2>2, <4>2, OwnLock DEF TakesLock, Goes, Begun, Early
    <3> QED BY <3>1, <3>2
  <2>4. ASSUME NEW t \in TaskIds, t = Task(y), landingBy'[t] = z PROVE view[y].commit = submitted'[t]
    <3>1. ASSUME NEW x \in Attempts, ServeBegin(x), landingBy'[t] = x PROVE FALSE
      BY <2>2, <2>4, <3>1 DEF ServeBegin, Begun
    <3>2. landingBy[t] = z
      BY <1>0, <2>4, <3>1, ReservationChanges DEF LandingKept, LandingGone
    <3>3. view[y].commit = submitted[t]
      BY <1>0, <2>1, <2>4, <3>2 DEF PinInv, CancelIsLockedIn
    <3>4. state[t] = "approved"
      BY <1>0, <3>2 DEF BoardInv, ReservationPinsApproval, TypeOK
    <3> QED BY <1>0, <3>3, <3>4, WorkStays DEF Conditions
  <2> QED BY <2>1, <2>2, <2>3, <2>4
<1> QED BY <1>1, <1>2

LEMMA FinishLandedKept ==
  ASSUME Known, [LandNext]_allVars
  PROVE  FinishIsLanded'
<1> SUFFICES ASSUME NEW y \in Attempts
             PROVE  /\ pc'[y] # "idle" /\ view'[y].mode = "finish" => view'[y].commit \in landed'[Task(y)']
                    /\ pc'[y] = "reserved" => view'[y].mode = "land"
  BY DEF FinishIsLanded
<1>0. RunFate(y) /\ LandTypes /\ RunInv /\ PinInv
  BY RunsMove DEF Known, RunInv
<1>1. \A t \in TaskIds : landed[t] \subseteq landed'[t]
  BY <1>0, LandedGrows DEF PublishesHere
<1>2. CASE Reads(y)
  <2>1. PICK t \in TaskIds : /\ view'[y].task = t /\ view'[y].commit = submitted[t] /\ "commit" \in links[t]
                             /\ view'[y].mode = "finish" => state[t] = "done"
                             /\ pc'[y] = "locking"
    BY <1>2 DEF Reads
  <2> QED BY <1>0, <1>1, <2>1 DEF PinInv, DoneIsLanded, Task
<1>3. CASE ~Reads(y)
  <2>1. view'[y] = view[y] /\ Task(y)' = Task(y) /\ (pc'[y] # "idle" => pc[y] # "idle")
    BY <1>0, <1>3
    DEF RunFate, TakesLock, Prepares, FindsLanded, Reserves, Publishes, GivesUp, Completes, Ends,
        Rests, Goes, Task
  <2>2. pc[y] # "idle" => Task(y) \in TaskIds
    BY <1>0 DEF RunInv, RunsInOrder
  <2>3. ~Prepares(y) \/ pc'[y] # "reserved"
    BY <1>0 DEF Prepares, Goes, Mode, PinInv, FinishIsLanded
  <2>4. pc'[y] = "reserved" => pc[y] \in {"reserving", "asking", "reserved"}
    BY <1>0, <1>3, <2>3
    DEF RunFate, TakesLock, FindsLanded, Reserves, Publishes, GivesUp, Completes, Ends, Rests, Goes
  <2>5. pc'[y] = "reserved" => view[y].mode = "land"
    BY <1>0, <2>4 DEF RunInv, RunsInOrder, PinInv, FinishIsLanded
  <2> QED BY <1>0, <1>1, <2>1, <2>2, <2>5 DEF PinInv, FinishIsLanded
<1> QED BY <1>2, <1>3

LEMMA PinInvKept ==
  ASSUME Conditions, Known, Known1', [LandNext]_allVars
  PROVE  PinInv'
<1>1. TypeOK /\ BoardInv /\ RunInv /\ LocalLinks /\ DoneIsLanded /\ LockIsKept
  BY DEF Known, PinInv
<1>2. LockIsKept' /\ LocalLinks' /\ DoneIsLanded'
  BY <1>1, LockStaysKept, LinksStayLocal, DoneStaysLanded DEF Conditions
<1> QED
  BY <1>2, PinnedKept, HolderSafeKept, HolderFirstKept, CancelLockedInKept, FinishLandedKept DEF PinInv

LEMMA PinInvInitial == LandInit => PinInv
BY NullAssumption
DEF LandInit, Init, PinInv, Pinned, HolderIsSafe, Publishing, HolderIsFirst, CancelIsLockedIn,
    FinishIsLanded, LockIsKept, DoneIsLanded, LocalLinks, NoView

LEMMA KnownHolds ==
  "land" \in Doings /\ LocalWork /\ NoMoveOutOfReview /\ LockOrNoCheckout => (LandSpec => []Known)
<1> SUFFICES ASSUME "land" \in Doings, LocalWork, NoMoveOutOfReview, LockOrNoCheckout
             PROVE  LandSpec => []Known
  OBVIOUS
<1>1. Conditions
  BY DEF Conditions
<1>2. LandSpec => [](TypeOK /\ BoardInv /\ RowInv /\ RunInv)
  BY LandingInv
<1>3. LandSpec => []ReviewsAreCurrent
  BY LandingIsBoard, ReviewsStayCurrent, PTL
<1>4. /\ TypeOK /\ BoardInv /\ RowInv /\ RunInv /\ ReviewsAreCurrent /\ PinInv
      /\ (TypeOK /\ BoardInv /\ RowInv /\ RunInv)' /\ [LandNext]_allVars
      => PinInv'
  BY <1>1, PinInvKept DEF Known, Known1
<1> QED BY <1>2, <1>3, <1>4, PinInvInitial, PTL DEF LandSpec, Known

\* Work on the branch is the commit its round approved unanimously, and its task is
\* done or reserved: no stalled, crashed, replaced or cancelled approve breaks this,
\* unless the branch may be checked out somewhere and a lock may expire, so that a
\* run gives back a reservation that is not its to give, or an operator takes work
\* out of its review, so that a late vote decides it again.
THEOREM PublishedStaysPinned ==
  "land" \in Doings /\ LocalWork /\ NoMoveOutOfReview /\ LockOrNoCheckout =>
    (LandSpec => []PublishedIsPinned)
<1>1. Known => PublishedIsPinned
  BY DEF Known, PinInv, Pinned, PublishedIsPinned
<1> QED BY <1>1, KnownHolds, PTL

-----------------------------------------------------------------------------
(* Landing keeps its promise *)

\* Where the work of a task is, by what is on its branch.
PhaseByBranch ==
  \A t \in TaskIds :
    Phase[t] = IF landed[t] # {} THEN (IF state[t] = "done" THEN "done" ELSE "published")
               ELSE IF landingRound[t] # 0 THEN "reserved" ELSE "open"
LEMMA PhaseIs == (Known => PhaseByBranch) /\ (Known' => PhaseByBranch')
<1>1. ASSUME Known, NEW t \in TaskIds
      PROVE  Phase[t] = IF landed[t] # {} THEN (IF state[t] = "done" THEN "done" ELSE "published")
                        ELSE IF landingRound[t] # 0 THEN "reserved" ELSE "open"
  <2>1. landed[t] # {} => "commit" \in links[t] /\ submitted[t] \in landed[t]
    BY <1>1 DEF Known, PinInv, Pinned
  <2>2. landed[t] = {} => "commit" \notin links[t] \/ state[t] # "done"
    BY <1>1 DEF Known, PinInv, DoneIsLanded
  <2>3. landingRound[t] # 0 => "commit" \in links[t]
    BY <1>1 DEF Known, BoardInv, ReservationPinsApproval
  <2> QED BY <2>1, <2>2, <2>3 DEF Phase
<1>2. Known => PhaseByBranch
  BY <1>1 DEF PhaseByBranch
<1> QED BY <1>2, PTL

\* The phase of one task moves and the others rest.
LEMMA OnePhaseMoves ==
  ASSUME NEW t \in TaskIds, NEW new, Phase'[t] = new,
         \A u \in TaskIds : u # t => Phase'[u] = Phase[u]
  PROVE  Phase' = [Phase EXCEPT ![t] = new]
<1>1. Phase = [u \in TaskIds |-> Phase[u]] /\ Phase' = [u \in TaskIds |-> Phase'[u]]
  BY DEF Phase
<1> QED BY <1>1

\* Users leave what is being landed alone.
LEMMA UsersKeepPhase ==
  ASSUME Conditions, Known, Known', [LandNext]_allVars, UserStep
  PROVE  Phase' = Phase
<1>1. ASSUME NEW t \in TaskIds PROVE Phase'[t] = Phase[t]
  <2>0. TypeOK /\ BoardInv /\ RowInv /\ ReviewsAreCurrent /\ RunInv /\ [Next]_vars /\ Known1'
    BY LandingStepsAreBoardSteps DEF Known, Known1, Conditions
  <2>1. landed' = landed
    BY DEF UserStep, branchVars
  <2>2. Aloof(t) /\ ~hasPR[t] /\ (links[t] = {} \/ links[t] \in Submissions)
    BY <2>0, UsersAreAloof DEF UserStep, Known, PinInv, LocalLinks
  <2>3. landingRound'[t] = landingRound[t]
    BY <2>2 DEF Aloof, LandingKept
  <2>4. ASSUME landed[t] # {} PROVE state'[t] = "done" <=> state[t] = "done"
    <3>1. "commit" \in links[t]
      BY <2>4 DEF Known, PinInv, Pinned
    <3>2. state'[t] = "done" => state[t] = "done"
      BY <2>2, <3>1 DEF Aloof, FinishedElsewhere, Conditions, LocalWork
    <3>3. ASSUME state[t] = "done" PROVE state'[t] = "done"
      <4>1. state[t] # "superseded"
        BY <3>3
      <4> QED BY <2>0, <3>3, <4>1, NextKeepsFinished
    <3> QED BY <3>2, <3>3
  <2> QED BY <2>1, <2>3, <2>4, PhaseIs DEF PhaseByBranch
<1>2. Phase = [u \in TaskIds |-> Phase[u]] /\ Phase' = [u \in TaskIds |-> Phase'[u]]
  BY DEF Phase
<1> QED BY <1>1, <1>2

LEMMA PublishKeepsPromise ==
  ASSUME Known, Known', [LandNext]_allVars, UNCHANGED vars
  PROVE  [Promise!Next]_Phase
<1>0. LandTypes /\ PinInv /\ BoardInv
  BY DEF Known, RunInv
<1>1. CASE \A t \in TaskIds : landed'[t] = landed[t]
  <2>1. \A t \in TaskIds : Phase'[t] = Phase[t]
    BY <1>1, PhaseIs DEF PhaseByBranch, vars
  <2>2. Phase = [u \in TaskIds |-> Phase[u]] /\ Phase' = [u \in TaskIds |-> Phase'[u]]
    BY DEF Phase
  <2> QED BY <2>1, <2>2
<1>2. ASSUME NEW t \in TaskIds, landed'[t] # landed[t] PROVE [Promise!Next]_Phase
  <2>1. PICK x \in Attempts : PublishesHere(x, t)
    BY <1>0, <1>2, LandedGrows
  <2>2. Publishing(x) /\ Task(x) = t
    BY <2>1 DEF PublishesHere, Publishing
  <2>3. landingRound[t] # 0 /\ state[t] = "approved"
    BY <1>0, <2>2 DEF PinInv, HolderIsSafe, BoardInv, ReservationPinsApproval
  <2>4. landed'[t] # {} /\ Phase'[t] = "published"
    BY <2>1, <2>3, PhaseIs DEF PhaseByBranch, PublishesHere, vars
  <2>5. Phase[t] \in {"reserved", "published"}
    BY <2>3, PhaseIs DEF PhaseByBranch
  <2>6. ASSUME NEW u \in TaskIds, u # t PROVE Phase'[u] = Phase[u]
    <3>1. landed'[u] = landed[u]
      BY <1>0, <2>1, <2>6, LandedGrows DEF PublishesHere
    <3> QED BY <3>1, PhaseIs DEF PhaseByBranch, vars
  <2>7. Phase' = [Phase EXCEPT ![t] = "published"]
    BY <2>4, <2>6, OnePhaseMoves
  <2>8. Phase[t] = "published" => Phase' = Phase
    BY <2>7 DEF Phase
  <2> QED BY <2>5, <2>7, <2>8 DEF Promise!Next, Promise!Publish, Promise!Move
<1> QED BY <1>1, <1>2

LEMMA ServingKeepsPromise ==
  ASSUME Conditions, Known, Known', [LandNext]_allVars, NEW x \in Attempts,
         \/ ServeBegin(x) /\ MayReserve(x) /\ Reserve(Task(x), view[x].round, x)
         \/ ServeComplete(x) /\ CompleteLanding(Task(x), x)
         \/ ServeCancel(x) /\ CancelLanding(Task(x), Canceller(x))
  PROVE  [Promise!Next]_Phase
<1>0. TypeOK /\ BoardInv /\ RunInv /\ LandTypes /\ PinInv /\ TypeOK'
  BY DEF Known, RunInv
<1>1. call[x] # "none" /\ landed' = landed
  BY DEF ServeBegin, ServeComplete, ServeCancel, Served, branchVars
<1>2. PICK t \in TaskIds : t = Task(x)
  BY <1>0, <1>1 DEF RunInv, RunsInOrder, LandTypes, Requests
<1>3. ASSUME NEW u \in TaskIds, u # t PROVE Phase'[u] = Phase[u]
  <2>1. landingRound'[u] = landingRound[u] /\ state'[u] = state[u]
    BY <1>0, <1>2, <1>3 DEF Reserve, CompleteLanding, MoveTo, CancelLanding, TypeOK
  <2> QED BY <1>1, <2>1, PhaseIs DEF PhaseByBranch
<1>4. Phase' = [Phase EXCEPT ![t] = Phase'[t]]
  BY <1>3, OnePhaseMoves
<1>5. Phase'[t] = Phase[t] => Phase' = Phase
  BY <1>4 DEF Phase
<1>6. ASSUME MayReserve(x), Reserve(t, view[x].round, x)
      PROVE  Phase'[t] = Phase[t] \/ (Phase[t] = "open" /\ Phase'[t] = "reserved")
  <2>1. landingBy'[t] = x /\ state' = state
    BY <1>0, <1>6 DEF Reserve, TypeOK
  <2>2. landingRound'[t] # 0
    BY <1>0, <2>1, NullAssumption DEF TypeOK
  <2> QED BY <1>1, <2>1, <2>2, PhaseIs DEF PhaseByBranch
<1>7. ASSUME ServeComplete(x), CompleteLanding(t, x)
      PROVE  Phase[t] = "published" /\ Phase'[t] = "done"
  <2>1. landed[t] # {}
    BY <1>0, <1>2, <1>7 DEF ServeComplete, RunInv, PublishedIsLanded
  <2>2. state[t] = "approved" /\ state'[t] = "done"
    BY <1>0, <1>7 DEF CompleteLanding, MoveTo, TypeOK
  <2> QED BY <1>1, <2>1, <2>2, PhaseIs DEF PhaseByBranch
<1>8. ASSUME ServeCancel(x), CancelLanding(t, Canceller(x))
      PROVE  Phase[t] = "reserved" /\ Phase'[t] = "open"
  <2>1. /\ landingRound[t] # 0 /\ landingBy[t] = Canceller(x) /\ landingRound'[t] = 0
        /\ call[x] = "cancel"
    BY <1>0, <1>8 DEF ServeCancel, CancelLanding, OwnsLanding, TypeOK
  <2>2. Aims(x, t) /\ Dropping(x)
    BY <1>0, <1>2, <2>1 DEF Aims, Dropping, TypeOK
  <2>3. landed[t] = {}
    BY <1>0, <2>2 DEF PinInv, Pinned
  <2> QED BY <1>1, <2>1, <2>3, PhaseIs DEF PhaseByBranch
<1> QED
  BY <1>2, <1>4, <1>5, <1>6, <1>7, <1>8
  DEF Promise!Next, Promise!Reserve, Promise!Drop, Promise!Finish, Promise!Move

\* Landing implements its promise, on the same conditions: work whose commit is on
\* the branch goes to done and nowhere else, and it gets there no other way.
THEOREM LandingKeepsItsPromise ==
  "land" \in Doings /\ LocalWork /\ NoMoveOutOfReview /\ LockOrNoCheckout =>
    (LandSpec => PromiseIsKept)
<1> SUFFICES ASSUME "land" \in Doings, LocalWork, NoMoveOutOfReview, LockOrNoCheckout
             PROVE  LandSpec => PromiseIsKept
  OBVIOUS
<1>1. LandInit => Promise!Init
  BY DEF LandInit, Init, Promise!Init, Phase
<1>2. Conditions
  BY DEF Conditions
<1>3. ASSUME Known, Known', [LandNext]_allVars PROVE [Promise!Next]_Phase
  BY <1>2, <1>3, BoardSide, UsersKeepPhase, PublishKeepsPromise, ServingKeepsPromise
<1>4. Known /\ Known' /\ [LandNext]_allVars => [Promise!Next]_Phase
  BY <1>3
<1> QED BY <1>1, <1>4, KnownHolds, PTL DEF LandSpec, PromiseIsKept, Promise!Spec
===============================================================================
