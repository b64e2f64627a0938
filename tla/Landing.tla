------------------------------ MODULE Landing -------------------------------
(***************************************************************************)
(* Landing approved local_commit work: runs of `odonian approve', with and *)
(* without --cancel-landing, against the task board, the branch all tasks  *)
(* of a merge request share and the lock on it (cmd/odonian/approve.go,    *)
(* internal/localcommit).                                                  *)
(*                                                                         *)
(* A run is named by its lock token.  It reads the task, takes the lock,   *)
(* prepares the commit, reserves the task on the board, publishes, marks   *)
(* the task done and cleans up, and it may stall or die between any two of *)
(* these steps; its calls to the board may be lost, answered into the void *)
(* or served after it gave up.  The lock expires on its own and is then    *)
(* anybody's.  Commits of a task are numbered in the order its worktree    *)
(* made them; who builds on whom is left out.                              *)
(***************************************************************************)
EXTENDS Board

CONSTANTS
  MaxCommit, \* bound on the commits of one task
  MaxTip     \* bound on the moves of the branch

ASSUME CommitAssumption == MaxCommit \in Nat /\ MaxTip \in Nat

VARIABLES
  wip,       \* the tip of wip/<id>, 0 when the branch does not exist
  trees,     \* the tasks whose worktree exists
  submitted, \* the commit link of the task's current review round
  landed,    \* the commits of a task that are on the branch wi/<slug>
  tip,       \* how often wi/<slug> moved: names its tip
  lock,      \* the token refs/odonian/locks/<slug> names, or None
  expired,   \* the lock is past the time its owner wrote into it
  pc,        \* what a run does next
  view,      \* the task as a run read it
  plan,      \* Prepare's result: the branch tip it saw, and if anything is to be published
  call       \* a request of the run the board has not served yet, or "none"

branchVars == <<landed, tip>>
lockVars == <<lock, expired>>
runVars == <<pc, view, plan, call>>
gitVars == <<wip, trees, submitted, branchVars, lockVars>>
landVars == <<gitVars, runVars>>
allVars == <<vars, landVars>>

NoView == [mode |-> "land", task |-> 0, round |-> 0, commit |-> 0, owner |-> None]
NoPlan == [source |-> 0, previous |-> 0, already |-> FALSE]

LandInit ==
  /\ Init
  /\ wip = [t \in TaskIds |-> 0] /\ trees = {}
  /\ submitted = [t \in TaskIds |-> 0]
  /\ landed = [t \in TaskIds |-> {}]
  /\ tip = 0 /\ lock = None /\ expired = FALSE
  /\ pc = [x \in Attempts |-> "idle"]
  /\ view = [x \in Attempts |-> NoView]
  /\ plan = [x \in Attempts |-> NoPlan]
  /\ call = [x \in Attempts |-> "none"]

-----------------------------------------------------------------------------
(* The rest of the system *)

\* Work that enters review names the commit its worktree is at.
UserStep ==
  LET submits == {t \in TaskIds : state[t] = "in_progress" /\ round'[t] > round[t]}
  IN /\ Users
     /\ \A t \in submits : wip[t] # 0
     /\ submitted' = [t \in TaskIds |-> IF t \in submits THEN wip[t] ELSE submitted[t]]
     /\ UNCHANGED <<wip, trees, branchVars, lockVars, runVars>>

\* A commit in the task's worktree, which nothing keeps from changing after the
\* work was submitted, or after it is done.  Work that is taken up gets a worktree
\* of its own only while it has no branch.
EditWip(t) ==
  LET last == IF wip[t] > submitted[t] THEN wip[t] ELSE submitted[t]
  IN /\ kind[t] = "implement"
     /\ \/ state[t] \in {"in_progress", "approved", "done"} /\ t \in trees
        \/ state[t] = "in_progress" /\ wip[t] = 0
     /\ last < MaxCommit
     /\ wip' = [wip EXCEPT ![t] = last + 1]
     /\ trees' = trees \cup {t}
     /\ UNCHANGED <<vars, submitted, branchVars, lockVars, runVars>>

\* Somebody moves the branch by hand.
BranchMoves ==
  /\ tip < MaxTip
  /\ tip' = tip + 1
  /\ UNCHANGED <<vars, wip, trees, submitted, landed, lockVars, runVars>>

LockExpires ==
  /\ "lock_expires" \in Doings
  /\ lock # None /\ ~expired
  /\ expired' = TRUE
  /\ UNCHANGED <<vars, wip, trees, submitted, branchVars, lock, runVars>>

-----------------------------------------------------------------------------
(* Starting and ending a run *)

Task(x) == view[x].task
Is(x, mode, at) == pc[x] = at /\ view[x].mode = mode
Goto(x, at) == pc' = [pc EXCEPT ![x] = at]

\* Release, deferred by every run: the lock is given back only if it is still the run's.
End(x) ==
  /\ Goto(x, "ended")
  /\ lock' = IF lock = x THEN None ELSE lock
  /\ expired' = (expired /\ lock # x)

Crash(x) ==
  /\ pc[x] \notin {"idle", "ended"}
  /\ Goto(x, "ended")
  /\ UNCHANGED <<vars, gitVars, view, plan, call>>

\* The run reads the task: it lands an approved task, finishes a done one whose
\* worktree is still there, or drops the reservation it reads.
ReadTask(x, t, mode) ==
  /\ pc[x] = "idle"
  /\ kind[t] = "implement" /\ "commit" \in links[t]
  /\ CASE mode = "land" -> state[t] = "approved"
       [] mode = "finish" -> state[t] = "done" /\ wip[t] # 0
       [] mode = "cancel" -> landingRound[t] # 0
  /\ view' = [view EXCEPT ![x] = [mode |-> mode, task |-> t, round |-> round[t],
                                  commit |-> submitted[t], owner |-> landingBy[t]]]
  /\ Goto(x, "locking")
  /\ UNCHANGED <<vars, gitVars, plan, call>>

\* A lock that expired is taken over, a live one refuses the run.
LockBranch(x) ==
  /\ pc[x] = "locking"
  /\ \/ /\ lock = None \/ expired
        /\ lock' = x /\ expired' = FALSE /\ Goto(x, "locked")
     \/ lock # None /\ ~expired /\ End(x)
  /\ UNCHANGED <<vars, wip, trees, submitted, branchVars, view, plan, call>>

-----------------------------------------------------------------------------
(* Landing *)

\* The worktree must be at the reviewed commit.  Building the merge or running
\* its gate may fail.
Prepare(x) ==
  /\ pc[x] = "locked" /\ view[x].mode # "cancel"
  /\ view[x].mode = "finish" => view[x].commit \notin landed[Task(x)]
  /\ \/ /\ wip[Task(x)] = view[x].commit
        /\ plan' = [plan EXCEPT ![x] = [source |-> wip[Task(x)], previous |-> tip,
                                        already |-> wip[Task(x)] \in landed[Task(x)]]]
        /\ Goto(x, IF view[x].mode = "land" THEN "prepared" ELSE "reserved")
        /\ UNCHANGED lockVars
     \/ End(x) /\ UNCHANGED plan
  /\ UNCHANGED <<vars, wip, trees, submitted, branchVars, view, call>>

\* A request goes to the board; the run waits for the answer at `at'.
Send(x, request, at) ==
  /\ call' = [call EXCEPT ![x] = request]
  /\ Goto(x, at)
  /\ UNCHANGED <<vars, gitVars, view, plan>>

SendBegin(x) == pc[x] = "prepared" /\ Send(x, "begin", "reserving")

\* The run waited in vain: it asks the board what became of its request.
GiveUp(x) ==
  \/ /\ pc[x] \in {"reserving", "completing"}
     /\ Goto(x, IF pc[x] = "reserving" THEN "asking" ELSE "checking")
     /\ UNCHANGED <<vars, gitVars, view, plan, call>>
  \/ /\ pc[x] = "cancelling"
     /\ End(x)
     /\ UNCHANGED <<vars, wip, trees, submitted, branchVars, view, plan, call>>

AskReserved(x) ==
  /\ pc[x] = "asking"
  /\ \/ /\ state[Task(x)] = "approved" /\ landingRound[Task(x)] = view[x].round
        /\ submitted[Task(x)] = plan[x].source /\ landingBy[Task(x)] = x
        /\ Goto(x, "reserved") /\ UNCHANGED lockVars
     \/ End(x)
  /\ UNCHANGED <<vars, wip, trees, submitted, branchVars, view, plan, call>>

\* One ref transaction: the lock is still the run's and the branch where Prepare
\* saw it, or nothing moves.  A worktree that has the branch checked out stops
\* the run before that, whoever has the lock.
Published(x) ==
  /\ landed' = [landed EXCEPT ![Task(x)] = @ \cup {plan[x].source}]
  /\ tip' = tip + 1
  /\ Goto(x, IF view[x].mode = "land" THEN "published" ELSE "cleaning")
VerifiedBranchOnly(x) == tip = plan[x].previous
Verified(x) == lock = x /\ tip = plan[x].previous
Publish(x) ==
  /\ pc[x] = "reserved"
  /\ \/ /\ plan[x].already
        /\ Goto(x, IF view[x].mode = "land" THEN "published" ELSE "cleaning")
        /\ UNCHANGED <<branchVars, lockVars>>
     \/ /\ ~plan[x].already /\ Verified(x)
        /\ Published(x) /\ UNCHANGED lockVars
     \/ /\ ~plan[x].already /\ ~Verified(x) /\ view[x].mode = "land"
        /\ Goto(x, "failed") /\ UNCHANGED <<branchVars, lockVars>>
     \/ /\ ~plan[x].already /\ view[x].mode = "land" /\ "checkout" \in Doings
        /\ Goto(x, "givingBack") /\ UNCHANGED <<branchVars, lockVars>>
     \/ /\ ~plan[x].already /\ view[x].mode = "finish"
        /\ End(x) /\ UNCHANGED branchVars
  /\ UNCHANGED <<vars, wip, trees, submitted, view, plan, call>>

\* A run that lost its lock leaves the reservation to whoever has it now.
JudgeFailure(x) ==
  /\ pc[x] = "failed"
  /\ IF lock = x THEN Goto(x, "givingBack") /\ UNCHANGED lockVars ELSE End(x)
  /\ UNCHANGED <<vars, wip, trees, submitted, branchVars, view, plan, call>>

GiveBack(x) == pc[x] = "givingBack" /\ Send(x, "cancel", "cancelling")

SendComplete(x) == pc[x] = "published" /\ Send(x, "complete", "completing")

CheckDone(x) ==
  /\ pc[x] = "checking"
  /\ \/ state[Task(x)] = "done" /\ Goto(x, "cleaning") /\ UNCHANGED lockVars
     \/ End(x)
  /\ UNCHANGED <<vars, wip, trees, submitted, branchVars, view, plan, call>>

-----------------------------------------------------------------------------
(* Cleaning up: three git commands, with anything in between *)

\* Newer work on the branch leaves everything in place, and so does an error.
CheckTip(x) ==
  /\ pc[x] = "cleaning"
  /\ \/ /\ wip[Task(x)] \in {0, plan[x].source}
        /\ Goto(x, "removing") /\ UNCHANGED lockVars
     \/ End(x)
  /\ UNCHANGED <<vars, wip, trees, submitted, branchVars, view, plan, call>>

\* The worktree goes by force, with all that is not committed in it, wherever its
\* branch is by now.  Git may refuse, or the branch be checked out elsewhere too.
RemoveWorktree(x) ==
  /\ pc[x] = "removing"
  /\ \/ /\ trees' = trees \ {Task(x)}
        /\ Goto(x, "deleting") /\ UNCHANGED lockVars
     \/ trees' \in {trees, trees \ {Task(x)}} /\ End(x)
  /\ UNCHANGED <<vars, wip, submitted, branchVars, view, plan, call>>

\* The branch goes only if it is still at the landed commit: git compares and
\* deletes in one step.
AtAnyCommit(x) == wip[Task(x)] # 0
AtLandedCommit(x) == wip[Task(x)] = plan[x].source
DeleteBranch(x) ==
  /\ pc[x] = "deleting"
  /\ \/ AtLandedCommit(x) /\ wip' = [wip EXCEPT ![Task(x)] = 0]
     \/ UNCHANGED wip
  /\ End(x)
  /\ UNCHANGED <<vars, trees, submitted, branchVars, view, plan, call>>

-----------------------------------------------------------------------------
(* Finishing a done task, dropping a reservation *)

\* The approved commit is on the branch already: only the worktree is left.
FinishLanded(x) ==
  /\ Is(x, "finish", "locked")
  /\ view[x].commit \in landed[Task(x)]
  /\ plan' = [plan EXCEPT ![x].source = view[x].commit]
  /\ Goto(x, "cleaning")
  /\ UNCHANGED <<vars, gitVars, view, call>>

\* Only work that is not on the branch is given up.
OnBranchNever(x) == FALSE
OnBranch(x) == view[x].commit \in landed[Task(x)]
SendCancel(x) ==
  /\ Is(x, "cancel", "locked")
  /\ ~OnBranch(x)
  /\ Send(x, "cancel", "cancelling")
RefuseCancel(x) ==
  /\ Is(x, "cancel", "locked")
  /\ OnBranch(x)
  /\ End(x)
  /\ UNCHANGED <<vars, wip, trees, submitted, branchVars, view, plan, call>>

-----------------------------------------------------------------------------
(* The board serves a request, of a run that may have given up or died *)

\* The answer, when it reaches a run that still waits for it.
Answer(x, waiting, at) ==
  \/ pc[x] = waiting /\ Goto(x, at) /\ UNCHANGED lockVars
  \/ UNCHANGED <<pc, lockVars>>
Refusal(x, waiting) ==
  \/ pc[x] = waiting /\ End(x)
  \/ UNCHANGED <<pc, lockVars>>

MayReserve(x) == Reservable(Task(x), view[x].round) /\ plan[x].source = submitted[Task(x)]

Canceller(x) == IF view[x].mode = "cancel" THEN view[x].owner ELSE x

Served(x) ==
  /\ call' = [call EXCEPT ![x] = "none"]
  /\ UNCHANGED <<wip, trees, submitted, branchVars, view, plan>>
ServeBegin(x) ==
  /\ call[x] = "begin"
  /\ \/ MayReserve(x) /\ Reserve(Task(x), view[x].round, x) /\ Answer(x, "reserving", "reserved")
     \/ ~MayReserve(x) /\ UNCHANGED vars /\ Refusal(x, "reserving")
  /\ Served(x)
ServeComplete(x) ==
  /\ call[x] = "complete"
  /\ \/ CompleteLanding(Task(x), x) /\ Answer(x, "completing", "cleaning")
     \/ /\ ~(state[Task(x)] = "approved" /\ OwnsLanding(Task(x), x))
        /\ UNCHANGED vars /\ Answer(x, "completing", "checking")
  /\ Served(x)
ServeCancel(x) ==
  /\ call[x] = "cancel"
  /\ \/ CancelLanding(Task(x), Canceller(x))
     \/ ~OwnsLanding(Task(x), Canceller(x)) /\ UNCHANGED vars
  /\ Refusal(x, "cancelling")
  /\ Served(x)
Lost(x) ==
  /\ call[x] # "none"
  /\ call' = [call EXCEPT ![x] = "none"]
  /\ UNCHANGED <<vars, gitVars, pc, view, plan>>

Run(x) ==
  \/ \E t \in Rows, mode \in {"land", "finish", "cancel"} : ReadTask(x, t, mode)
  \/ LockBranch(x) \/ Prepare(x) \/ SendBegin(x) \/ GiveUp(x) \/ AskReserved(x)
  \/ Publish(x) \/ JudgeFailure(x) \/ GiveBack(x) \/ SendComplete(x) \/ CheckDone(x)
  \/ CheckTip(x) \/ RemoveWorktree(x) \/ DeleteBranch(x) \/ FinishLanded(x) \/ SendCancel(x) \/ RefuseCancel(x)
  \/ Crash(x)

Serve(x) == ServeBegin(x) \/ ServeComplete(x) \/ ServeCancel(x) \/ Lost(x)

LandNext ==
  \/ UserStep \/ BranchMoves \/ LockExpires
  \/ \E t \in TaskIds : EditWip(t)
  \/ \E x \in Attempts : Run(x) \/ Serve(x)

LandSpec == LandInit /\ [][LandNext]_allVars

-----------------------------------------------------------------------------
(* Properties *)

\* A task whose round submitted a commit is done only when that commit is on the
\* branch its dependents start from.
DoneIsLanded ==
  \A t \in TaskIds : state[t] = "done" /\ "commit" \in links[t] => submitted[t] \in landed[t]

\* Work on the branch is the very commit the current round approved unanimously,
\* and its task is done or reserved, so that it cannot be rejected any more: no
\* stalled, crashed, replaced or cancelled approve breaks this.
PublishedIsPinned ==
  \A t \in TaskIds : \A c \in landed[t] :
    /\ c = submitted[t] /\ Unanimous(t)
    /\ state[t] = "done" \/ landingRound[t] # 0

\* The branch of a task is deleted only when its last commit is on wi/<slug>: a
\* commit made while a cleanup is under way is kept, whichever of its three steps
\* it comes between.  (The worktree and what is not committed in it are not.)
CleanupKeepsCommits ==
  [][\A t \in TaskIds : wip[t] # 0 /\ wip'[t] = 0 => wip[t] \in landed[t]]_allVars

\* Every task keeps the promise of LandingPromise: its work goes from reserved to
\* published to done, and back only before it is published.
Phase ==
  [t \in TaskIds |->
     IF "commit" \notin links[t] THEN "open"
     ELSE IF state[t] = "done" THEN "done"
     ELSE IF submitted[t] \in landed[t] THEN "published"
     ELSE IF landingRound[t] # 0 THEN "reserved" ELSE "open"]
Promise == INSTANCE LandingPromise WITH Tasks <- TaskIds, phase <- Phase
PromiseIsKept == Promise!Spec
=============================================================================
