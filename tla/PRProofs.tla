------------------------------ MODULE PRProofs ------------------------------
(***************************************************************************)
(* What is proved of PRWatch for every environment: work is done only when  *)
(* one of its pull requests was merged, the watcher is quiet when an owner   *)
(* is at its limit, and it answers a review once.                           *)
(***************************************************************************)
EXTENDS PRWatch, TLAPS

Entries == [task : Tasks, updated : Nat]
LinkRows == [pr : PRs, tombstoned : BOOLEAN]
TaskFields == {"state", "updated", "approved"}
RowFields == {"state", "target", "leased"}
PullFields == {"state", "conflicts", "found", "decision", "reviewed"}
MergerFields == {"pc", "row", "pr"}
WatchFields == {"pc", "phase", "list", "since", "checked", "listed", "pr", "seen", "action"}

TaskTypes ==
  /\ DOMAIN task = Tasks
  /\ \A t \in Tasks : DOMAIN task[t] = TaskFields /\ task[t].updated \in Nat
LinkTypes ==
  /\ links \in [Tasks -> Seq(LinkRows)]
  /\ \A t \in Tasks : \A i \in DOMAIN links[t] : TaskOf(links[t][i].pr) = t
RowTypes ==
  /\ DOMAIN row = RowIds
  /\ \A i \in RowIds : DOMAIN row[i] = RowFields /\ row[i].target \in Tasks
PullTypes ==
  /\ DOMAIN pr = PRs
  /\ \A p \in PRs : DOMAIN pr[p] = PullFields /\ pr[p].reviewed \in Nat
BoardTypes == env \in Environments /\ now \in Nat /\ TaskTypes /\ LinkTypes /\ RowTypes /\ PullTypes

\* A process that is at work has claimed its row.
MergerTypes ==
  /\ DOMAIN merger = Mergers
  /\ \A m \in Mergers :
       /\ DOMAIN merger[m] = MergerFields /\ merger[m].pr \in PRs
       /\ ~At(m, "idle") => merger[m].row \in RowIds /\ row[merger[m].row].state # "none"

\* What an owner's limit was said to be: in which pass, and until when.
Limits == [at : Nat, reset : Nat]

\* A list has each task once, and not the one that is being looked at.
WatchOK(w) ==
  /\ DOMAIN w = WatchFields
  /\ w.list \in SUBSET Entries /\ w.since \in Nat /\ w.pr \in PRs
  /\ \A e1, e2 \in w.list : e1.task = e2.task => e1 = e2
  /\ w.pc \notin {"rest", "list"} =>
       w.listed \in Entries /\ \A e \in w.list : e.task # w.listed.task
WatcherTypes ==
  /\ WatchOK(watch)
  /\ notBefore \in [Owners -> Nat] /\ told \in [Owners -> SUBSET Limits]
  /\ bounces \in [Tasks -> Nat] /\ reviews \in [Tasks -> Nat]

Types == BoardTypes /\ MergerTypes /\ WatcherTypes

-----------------------------------------------------------------------------
(* Types *)

LEMMA LinkRowFacts ==
  /\ \A p \in PRs : NewLink(p) \in LinkRows /\ NewLink(p).pr = p
  /\ \A l \in LinkRows : l.pr \in PRs
  /\ \A l \in LinkRows : [l EXCEPT !.tombstoned = TRUE] \in LinkRows /\ [l EXCEPT !.tombstoned = TRUE].pr = l.pr
BY DEF NewLink, LinkRows

LEMMA InitTypes == Init => Types
<1> SUFFICES ASSUME Init PROVE Types
  OBVIOUS
<1>1. Idle.pr \in PRs /\ (CHOOSE t \in Tasks : TRUE) \in Tasks
  BY PRConstants DEF Idle
<1>2. env \in Environments /\ now = 0 /\ TaskTypes
  BY DEF Init, PRInit, TaskTypes, TaskFields
<1>3. LinkTypes
  <2>1. \A t \in Tasks : \/ links[t] = <<>>
                         \/ t \in env.tasks /\ links[t] = <<NewLink(env.opened[t])>>
    BY DEF Init, PRInit
  <2>2. \A t \in env.tasks : env.opened[t] \in PRs /\ TaskOf(env.opened[t]) = t
    BY <1>2, PRConstants DEF TaskOf
  <2>3. ASSUME NEW t \in Tasks
        PROVE  /\ links[t] \in Seq(LinkRows)
               /\ \A i \in DOMAIN links[t] : TaskOf(links[t][i].pr) = t
    <3>1. CASE links[t] = <<>>
      BY <3>1
    <3>2. CASE t \in env.tasks /\ links[t] = <<NewLink(env.opened[t])>>
      BY <2>2, <3>2, LinkRowFacts
    <3> QED BY <2>1, <3>1, <3>2
  <2>4. links = [t \in Tasks |-> links[t]]
    BY DEF Init, PRInit
  <2> QED BY <2>3, <2>4 DEF LinkTypes
<1>4. RowTypes
  BY <1>1 DEF Init, PRInit, RowTypes, NoRow, RowFields
<1>5. PullTypes
  BY DEF Init, PRInit, PullTypes, PullFields
<1>6. MergerTypes
  BY <1>1 DEF Init, PRInit, MergerTypes, Idle, At, MergerFields
<1>7. WatcherTypes
  <2>1. WatchOK(Resting)
    BY <1>1 DEF WatchOK, Resting, WatchFields
  <2> QED BY <2>1 DEF Init, WatcherTypes
<1> QED BY <1>2, <1>3, <1>4, <1>5, <1>6, <1>7 DEF Types, BoardTypes

Joined(S, a, b, c) ==
  /\ c \in Seq(S) /\ Len(c) = Len(a) + Len(b)
  /\ \A j \in 1..Len(a) : c[j] = a[j]
  /\ \A j \in 1..Len(b) : c[Len(a) + j] = b[j]
LEMMA Concatenated ==
  ASSUME NEW S, NEW a \in Seq(S), NEW b \in Seq(S)
  PROVE  Joined(S, a, b, a \o b)
BY DEF Joined

\* Inserting an element into a sequence keeps the others.
LEMMA InsertAtKeeps ==
  ASSUME NEW S, NEW s \in Seq(S), NEW i \in 1..(Len(s) + 1), NEW e \in S
  PROVE  /\ InsertAt(s, i, e) \in Seq(S)
         /\ ToSet(InsertAt(s, i, e)) = ToSet(s) \cup {e}
<1> DEFINE u == InsertAt(s, i, e)
           v == SubSeq(s, 1, i - 1)
           w == SubSeq(s, i, Len(s))
           x == v \o <<e>>
<1>1. /\ v \in Seq(S) /\ Len(v) = i - 1
      /\ w \in Seq(S) /\ Len(w) = Len(s) - i + 1
      /\ \A j \in 1..(i - 1) : v[j] = s[j]
      /\ \A j \in 1..(Len(s) - i + 1) : w[j] = s[i + j - 1]
  OBVIOUS
<1>2. u = x \o w /\ <<e>> \in Seq(S) /\ Len(<<e>>) = 1 /\ <<e>>[1] = e
  BY DEF InsertAt
<1> HIDE DEF u, v, w
<1>3. /\ u \in Seq(S) /\ Len(u) = Len(s) + 1
      /\ \A j \in 1..(i - 1) : u[j] = s[j]
      /\ u[i] = e
      /\ \A j \in i..Len(s) : u[j + 1] = s[j]
  <2>1. /\ x \in Seq(S) /\ Len(x) = Len(v) + Len(<<e>>)
        /\ \A j \in 1..Len(v) : x[j] = v[j]
        /\ \A j \in 1..Len(<<e>>) : x[Len(v) + j] = <<e>>[j]
    <3> DEFINE y == <<e>>
    <3> HIDE DEF y
    <3>1. Joined(S, v, y, x)
      BY <1>1, <1>2, Concatenated DEF y
    <3> HIDE DEF x
    <3>2. Len(v) \in Nat /\ Len(y) = 1 /\ y = <<e>>
      BY <1>1, <1>2 DEF y
    <3> QED BY <3>1, <3>2 DEF Joined
  <2> HIDE DEF x
  <2>2. Len(x) = i /\ x[i] = e /\ \A j \in 1..(i - 1) : x[j] = s[j]
    <3>1. x[Len(v) + 1] = e /\ Len(v) + 1 = i
      BY <1>1, <1>2, <2>1
    <3> QED BY <1>1, <1>2, <2>1, <3>1
  <2>3. /\ u \in Seq(S) /\ Len(u) = Len(x) + Len(w)
        /\ \A j \in 1..Len(x) : u[j] = x[j]
        /\ \A j \in 1..Len(w) : u[Len(x) + j] = w[j]
    <3>1. Joined(S, x, w, x \o w)
      BY <1>1, <2>1, Concatenated
    <3> QED BY <1>2, <3>1 DEF Joined
  <2>4. ASSUME NEW j \in i..Len(s) PROVE u[j + 1] = s[j]
    <3> DEFINE k == j - i + 1
    <3>1. k \in 1..(Len(s) - i + 1) /\ i + k = j + 1 /\ i + k - 1 = j
      OBVIOUS
    <3> HIDE DEF k
    <3>2. u[i + k] = w[k] /\ w[k] = s[i + k - 1]
      BY <1>1, <2>2, <2>3, <3>1
    <3> QED BY <3>1, <3>2
  <2>5. u[i] = e /\ \A j \in 1..(i - 1) : u[j] = s[j]
    BY <2>2, <2>3
  <2> QED BY <1>1, <2>2, <2>3, <2>4, <2>5
<1>4. ToSet(s) \subseteq ToSet(u)
  <2>1. ASSUME NEW j \in 1..Len(s) PROVE \E k \in 1..Len(u) : u[k] = s[j]
    <3>1. CASE j \in 1..(i - 1)
      BY <1>3, <3>1
    <3>2. CASE j \in i..Len(s)
      <4>1. j + 1 \in 1..Len(u) /\ u[j + 1] = s[j]
        BY <1>3, <3>2
      <4> QED BY <4>1
    <3> QED BY <3>1, <3>2
  <2> QED BY <1>3, <2>1 DEF ToSet
<1>5. ToSet(u) \subseteq ToSet(s) \cup {e}
  <2>1. ASSUME NEW k \in 1..Len(u) PROVE u[k] = e \/ \E j \in 1..Len(s) : u[k] = s[j]
    <3>1. CASE k \in 1..(i - 1)
      BY <1>3, <3>1
    <3>2. CASE k = i
      BY <1>3, <3>2
    <3>3. CASE k \in (i + 1)..(Len(s) + 1)
      <4>1. k - 1 \in i..Len(s) /\ u[(k - 1) + 1] = s[k - 1] /\ (k - 1) + 1 = k
        BY <1>3, <3>3
      <4> QED BY <4>1
    <3> QED BY <1>3, <3>1, <3>2, <3>3
  <2> QED BY <1>3, <2>1 DEF ToSet
<1>6. e \in ToSet(u)
  <2>1. i \in DOMAIN u /\ u[i] = e
    BY <1>3
  <2> QED BY <2>1 DEF ToSet
<1> QED BY <1>3, <1>4, <1>5, <1>6 DEF u

\* The links a task is followed by are among its links.
LEMMA FirstLinks ==
  ASSUME Types, NEW t \in Tasks
  PROVE  /\ \A l \in FirstLink(t) \cup FirstActiveLink(t) : l.pr \in LinkedPRs(t)
         /\ \A p \in LinkedPRs(t) : p \in PRs /\ TaskOf(p) = t
<1>1. links[t] \in Seq(LinkRows) /\ \A i \in DOMAIN links[t] : TaskOf(links[t][i].pr) = t
  BY DEF Types, BoardTypes, LinkTypes
<1>2. \A i \in DOMAIN links[t] : links[t][i] \in LinkRows
  BY <1>1
<1>3. links[t] # <<>> => 1 \in DOMAIN links[t]
  BY <1>1
<1>4. \A l \in FirstLink(t) \cup FirstActiveLink(t) : \E i \in DOMAIN links[t] : l = links[t][i]
  BY <1>3 DEF FirstLink, FirstActiveLink
<1> QED BY <1>1, <1>2, <1>4, LinkRowFacts DEF LinkedPRs, ToSet

LEMMA MovedTypes ==
  ASSUME Types, now' = now, NEW t \in Tasks, NEW s, task' = Moved(t, s)
  PROVE  TaskTypes'
BY DEF Types, BoardTypes, TaskTypes, TaskFields, Moved

\* Every step but a submission and a tombstone keeps the links.
LEMMA LinkTypesKept ==
  ASSUME Types, [Next]_vars
  PROVE  /\ LinkTypes' /\ UNCHANGED env
         /\ \A t \in Tasks : LinkedPRs(t) \subseteq LinkedPRs(t)'
<1>1. CASE links' = links /\ env' = env
  BY <1>1 DEF Types, BoardTypes, LinkTypes, TaskOf, LinkedPRs
<1>2. ASSUME NEW t \in Tasks, NEW p \in PRs, SubmitTask(t, p), links' # links
      PROVE  LinkTypes' /\ UNCHANGED env /\ \A u \in Tasks : LinkedPRs(u) \subseteq LinkedPRs(u)'
  <2>1. links \in [Tasks -> Seq(LinkRows)] /\ env' = env
    BY <1>2 DEF Types, BoardTypes, LinkTypes, SubmitTask
  <2>2. PICK i \in 1..(Len(links[t]) + 1) : links' = [links EXCEPT ![t] = InsertAt(@, i, NewLink(p))]
    BY <1>2 DEF SubmitTask
  <2>3. links'[t] \in Seq(LinkRows) /\ ToSet(links'[t]) = ToSet(links[t]) \cup {NewLink(p)}
    <3>1. links[t] \in Seq(LinkRows) /\ NewLink(p) \in LinkRows
      BY <2>1, LinkRowFacts
    <3>2. links'[t] = InsertAt(links[t], i, NewLink(p))
      BY <2>1, <2>2
    <3> DEFINE l == NewLink(p)
               s == links[t]
    <3> HIDE DEF l, s
    <3>3. InsertAt(s, i, l) \in Seq(LinkRows) /\ ToSet(InsertAt(s, i, l)) = ToSet(s) \cup {l}
      <4>1. s \in Seq(LinkRows) /\ l \in LinkRows /\ i \in 1..(Len(s) + 1)
        BY <2>2, <3>1 DEF l, s
      <4> QED BY <4>1, InsertAtKeeps
    <3> QED BY <3>2, <3>3 DEF l, s
  <2>4. \A u \in Tasks \ {t} : links'[u] = links[u]
    BY <2>1, <2>2
  <2>5. \A u \in Tasks : ToSet(links[u]) \subseteq ToSet(links'[u])
    BY <2>3, <2>4
  <2>6. \A u \in Tasks : \A l \in ToSet(links'[u]) : TaskOf(l.pr) = u
    <3>1. \A u \in Tasks : \A l \in ToSet(links[u]) : TaskOf(l.pr) = u
      BY DEF Types, BoardTypes, LinkTypes, ToSet
    <3>2. NewLink(p).pr = p /\ TaskOf(p) = t
      BY <1>2, LinkRowFacts DEF SubmitTask
    <3> QED BY <2>3, <2>4, <3>1, <3>2
  <2>7. links' \in [Tasks -> Seq(LinkRows)]
    BY <2>1, <2>2, <2>3
  <2>8. \A u \in Tasks : \A j \in DOMAIN links'[u] : TaskOf(links'[u][j].pr) = u
    BY <2>6 DEF ToSet
  <2> QED BY <2>1, <2>5, <2>7, <2>8 DEF LinkTypes, TaskOf, LinkedPRs
<1>3. ASSUME NEW t, NEW p, TombstoneLink(t, p), env' = env
      PROVE  LinkTypes' /\ \A u \in Tasks : LinkedPRs(u) \subseteq LinkedPRs(u)'
  <2>1. links \in [Tasks -> Seq(LinkRows)]
    BY DEF Types, BoardTypes, LinkTypes
  <2>2. ASSUME NEW u \in Tasks
        PROVE  /\ links'[u] \in Seq(LinkRows)
               /\ DOMAIN links'[u] = DOMAIN links[u]
               /\ \A i \in DOMAIN links[u] : links'[u][i].pr = links[u][i].pr
    <3>1. CASE u = t
      <4> DEFINE Marked(i) == IF links[t][i].pr = p THEN [links[t][i] EXCEPT !.tombstoned = TRUE] ELSE links[t][i]
      <4>1. links'[u] = [i \in DOMAIN links[u] |-> Marked(i)]
        BY <1>3, <2>1, <3>1 DEF TombstoneLink
      <4>2. \A i \in DOMAIN links[u] : Marked(i) \in LinkRows /\ Marked(i).pr = links[u][i].pr
        <5>1. \A i \in DOMAIN links[u] : links[u][i] \in LinkRows
          BY <2>1
        <5> QED BY <3>1, <5>1, LinkRowFacts
      <4> HIDE DEF Marked
      <4>3. links'[u] \in Seq(LinkRows) /\ DOMAIN links'[u] = DOMAIN links[u]
        BY <2>1, <4>1, <4>2
      <4> QED BY <4>1, <4>2, <4>3
    <3>2. CASE u # t
      BY <1>3, <2>1, <3>2 DEF TombstoneLink
    <3> QED BY <3>1, <3>2
  <2>3. links' \in [Tasks -> Seq(LinkRows)]
    <3>1. links' = [u \in Tasks |-> links'[u]]
      BY <1>3, <2>1 DEF TombstoneLink
    <3> QED BY <2>2, <3>1
  <2>4. ASSUME NEW u \in Tasks, NEW i \in DOMAIN links'[u] PROVE env'.taskOf[links'[u][i].pr] = u
    <3>1. i \in DOMAIN links[u] /\ links'[u][i].pr = links[u][i].pr
      BY <2>2
    <3> QED BY <1>3, <3>1 DEF Types, BoardTypes, LinkTypes, TaskOf
  <2>5. \A u \in Tasks : LinkedPRs(u) \subseteq LinkedPRs(u)'
    <3>1. ASSUME NEW u \in Tasks, NEW i \in DOMAIN links[u]
          PROVE  \E j \in DOMAIN links'[u] : links'[u][j].pr = links[u][i].pr
      BY <2>2
    <3> QED BY <3>1 DEF LinkedPRs, ToSet
  <2> QED BY <2>3, <2>4, <2>5 DEF LinkTypes, TaskOf
<1>4. ASSUME NEW t \in Tasks, ClaimTask(t) \/ Approve(t) \/ Reject(t) \/ Operate(t) \/ CloseSupersededPR(t)
      PROVE  links' = links /\ env' = env
  BY <1>4 DEF ClaimTask, Approve, Reject, Operate, CloseSupersededPR, boardVars
<1>5. ASSUME MergeAgent PROVE links' = links /\ env' = env
  BY <1>5 DEF MergeAgent, MergeRun, Crash, MergeClaim, LeaseLapses, boardVars
<1>6. ASSUME NEW p \in PRs, PeopleStep(p) PROVE links' = links /\ env' = env
  BY <1>6 DEF PeopleStep, People, Review, boardVars
<1>7. ASSUME Reconcile \/ ListTasks \/ TakeTask \/ QuotaFloor \/ GetPRState \/ GetReviewDecision
             \/ Restart \/ Act \/ ClosePR \/ Tick \/ UNCHANGED vars
      PROVE  links' = links /\ env' = env
  BY <1>7 DEF Reconcile, ListTasks, TakeTask, QuotaFloor, GetPRState, GetReviewDecision, Restart, Act, ClosePR,
    Tick, boardVars, vars1, vars
<1>8. ASSUME Tombstone PROVE TombstoneLink(It, watch.pr) /\ env' = env
  BY <1>8 DEF Tombstone
<1>9. ASSUME NEW t \in Tasks, NEW p \in PRs, SubmitTask(t, p) PROVE env' = env
  BY <1>9 DEF SubmitTask
<1> QED BY <1>1, <1>2, <1>3, <1>4, <1>5, <1>6, <1>7, <1>8, <1>9 DEF Next, Board, Watcher

LEMMA PullTypesKept ==
  ASSUME Types, [Next]_vars
  PROVE  PullTypes' /\ \A p \in PRs : pr[p].state = "merged" => pr'[p].state = "merged"
<1> DEFINE Goal == PullTypes' /\ \A p \in PRs : pr[p].state = "merged" => pr'[p].state = "merged"
<1> USE DEF Types, BoardTypes, PullTypes, PullFields
<1>1. ASSUME pr' = pr PROVE Goal
  BY <1>1
<1>2. ASSUME NEW p \in PRs, pr[p].state # "merged", NEW s, pr' = [pr EXCEPT ![p].state = s] PROVE Goal
  BY <1>2
<1>3. ASSUME NEW p \in PRs, pr' = [pr EXCEPT ![p].state = "merged"] PROVE Goal
  BY <1>3
<1>4. ASSUME NEW p \in PRs, NEW b, pr' = [pr EXCEPT ![p].conflicts = b] \/ pr' = [pr EXCEPT ![p].found = b] PROVE Goal
  BY <1>4
<1>5. ASSUME NEW p \in PRs, NEW d, pr' = [pr EXCEPT ![p] = [@ EXCEPT !.decision = d, !.reviewed = now]] PROVE Goal
  BY <1>5
<1>6. ASSUME NEW p \in PRs, pr[p].state # "merged", NEW s, NEW b,
             pr' = [pr EXCEPT ![p] = [@ EXCEPT !.state = s, !.conflicts = b]] PROVE Goal
  BY <1>6
<1> HIDE DEF Goal, Types, BoardTypes, PullTypes, PullFields
<1>7. ASSUME NEW t \in Tasks, ClaimTask(t) PROVE Goal
  <2>1. PICK p \in PRs : pr' = IF pr[p].state \in {"none", "open"}
                              THEN [pr EXCEPT ![p] = [@ EXCEPT !.state = "open", !.conflicts = FALSE]] ELSE pr
    BY <1>7 DEF ClaimTask, OpenPRs
  <2> QED BY <1>1, <1>6, <2>1
<1>8. ASSUME NEW t \in Tasks, CloseSupersededPR(t) PROVE Goal
  <2>1. \A l \in FirstLink(t) : l.pr \in PRs
    BY FirstLinks
  <2> QED BY <1>2, <1>8, <2>1 DEF CloseSupersededPR
<1>9. ASSUME NEW t \in Tasks, Approve(t) \/ Reject(t) \/ Operate(t) \/ \E p \in PRs : SubmitTask(t, p) PROVE Goal
  BY <1>1, <1>9 DEF Approve, Reject, Operate, SubmitTask
<1>10. ASSUME MergeAgent PROVE Goal
  <2>1. ASSUME NEW m \in Mergers, Squash(m) PROVE Goal
    <3>1. merger[m].pr \in PRs
      BY DEF Types, MergerTypes
    <3> QED BY <1>1, <1>3, <2>1, <3>1 DEF Squash
  <2> QED BY <1>1, <1>10, <2>1 DEF MergeAgent, MergeRun, Crash, MergeClaim, LeaseLapses
<1>11. ASSUME NEW p \in PRs, PeopleStep(p) PROVE Goal
  BY <1>2, <1>3, <1>4, <1>5, <1>11 DEF PeopleStep, People, Review
<1>12. ASSUME Reconcile \/ ListTasks \/ TakeTask \/ QuotaFloor \/ GetPRState \/ GetReviewDecision
              \/ Restart \/ Act \/ Tombstone \/ Tick \/ UNCHANGED vars
       PROVE  Goal
  BY <1>1, <1>12 DEF Reconcile, ListTasks, TakeTask, QuotaFloor, GetPRState, GetReviewDecision, Restart, Act,
    Tombstone, Tick, vars1, vars
<1>13. ASSUME ClosePR PROVE Goal
  <2>1. watch.pr \in PRs
    BY DEF Types, WatcherTypes, WatchOK
  <2> QED BY <1>1, <1>2, <1>13, <2>1 DEF ClosePR
<1> QED BY <1>7, <1>8, <1>9, <1>10, <1>11, <1>12, <1>13 DEF Goal, Next, Board, Watcher

\* A row is taken once, for one task.
LEMMA RowTypesKept ==
  ASSUME Types, [Next]_vars
  PROVE  /\ RowTypes'
         /\ \A i \in RowIds : row[i].state # "none" => row'[i].state # "none" /\ row'[i].target = row[i].target
<1> DEFINE Goal == /\ RowTypes'
                   /\ \A i \in RowIds : row[i].state # "none" =>
                        row'[i].state # "none" /\ row'[i].target = row[i].target
<1> USE DEF Types, BoardTypes, RowTypes, RowFields
<1>1. ASSUME row' = row PROVE Goal
  BY <1>1
<1>2. ASSUME NEW i \in RowIds, row[i].state = "none", NEW t \in Tasks,
             row' = [row EXCEPT ![i] = [state |-> "ready", target |-> t, leased |-> FALSE]] PROVE Goal
  BY <1>2
<1>3. ASSUME NEW i \in RowIds, NEW s, s # "none", row' = [row EXCEPT ![i].state = s] PROVE Goal
  BY <1>3
<1>4. ASSUME NEW i \in RowIds, NEW b, row' = [row EXCEPT ![i].leased = b] PROVE Goal
  BY <1>4
<1>5. ASSUME NEW i \in RowIds, row' = [row EXCEPT ![i] = [@ EXCEPT !.state = "in_progress", !.leased = TRUE]] PROVE Goal
  BY <1>5
<1> HIDE DEF Goal, Types, BoardTypes, RowTypes, RowFields
<1>6. ASSUME NEW t \in Tasks, Approve(t) PROVE Goal
  BY <1>1, <1>2, <1>6 DEF Approve, NextRow
<1>7. ASSUME NEW t \in Tasks, \/ ClaimTask(t) \/ CloseSupersededPR(t) \/ Reject(t) \/ Operate(t)
                               \/ \E p \in PRs : SubmitTask(t, p)
      PROVE  Goal
  BY <1>1, <1>7 DEF ClaimTask, CloseSupersededPR, Reject, Operate, SubmitTask, boardVars
<1>8. ASSUME NEW m \in Mergers, MergeRun(m) PROVE Goal
  <2>1. ASSUME NEW pc, NEW s, pc # "idle", s # "none", EndRow(m, pc, s) PROVE Goal
    <3>1. merger[m].row \in RowIds
      BY <2>1 DEF Types, MergerTypes, EndRow, At
    <3> QED BY <1>1, <1>3, <2>1, <3>1 DEF EndRow
  <2> QED BY <1>1, <1>8, <2>1 DEF MergeRun
<1>9. ASSUME \/ \E m \in Mergers : Crash(m) \/ \E i \in RowIds : MergeClaim(m, i)
             \/ \E i \in RowIds : LeaseLapses(i)
      PROVE  Goal
  BY <1>1, <1>4, <1>5, <1>9 DEF MergeClaim, Crash, LeaseLapses, boardVars
<1>10. ASSUME NEW p \in PRs, PeopleStep(p) PROVE Goal
  BY <1>1, <1>10 DEF PeopleStep, People, Review, boardVars
<1>11. ASSUME Reconcile \/ ListTasks \/ TakeTask \/ QuotaFloor \/ GetPRState \/ GetReviewDecision
              \/ Restart \/ Act \/ Tombstone \/ ClosePR \/ Tick \/ UNCHANGED vars
       PROVE  Goal
  BY <1>1, <1>11 DEF Reconcile, ListTasks, TakeTask, QuotaFloor, GetPRState, GetReviewDecision, Restart, Act,
    Tombstone, ClosePR, Tick, vars1, vars, boardVars
<1> QED BY <1>6, <1>7, <1>8, <1>9, <1>10, <1>11 DEF Goal, Next, Board, MergeAgent, Watcher

\* Whoever writes a row of a task writes it as it is at that time.
LEMMA TaskTypesKept ==
  ASSUME Types, [Next]_vars
  PROVE  TaskTypes' /\ now' \in Nat /\ now' >= now
<1>1. ASSUME task' = task PROVE TaskTypes'
  BY <1>1 DEF Types, BoardTypes, TaskTypes
<1>2. ASSUME now' = now PROVE now' \in Nat /\ now' >= now
  BY <1>2 DEF Types, BoardTypes
<1>3. ASSUME NEW t \in Tasks, Approve(t) PROVE TaskTypes' /\ now' = now
  BY <1>3 DEF Types, BoardTypes, TaskTypes, TaskFields, Approve
<1>4. ASSUME NEW t \in Tasks, \/ ClaimTask(t) \/ CloseSupersededPR(t) \/ Reject(t) \/ Operate(t)
                               \/ \E p \in PRs : SubmitTask(t, p)
      PROVE  TaskTypes' /\ now' = now
  BY <1>1, <1>4, MovedTypes DEF ClaimTask, Reject, Operate, SubmitTask, CloseSupersededPR, TransitionTask, boardVars
<1>5. ASSUME NEW m \in Mergers, MergeRun(m) PROVE TaskTypes' /\ now' = now
  <2>1. ASSUME Advance(m) \/ Bounce(m), now' = now PROVE TaskTypes'
    <3>1. Parent(m) \in Tasks
      BY <2>1 DEF Types, BoardTypes, RowTypes, MergerTypes, Advance, Bounce, At, Parent
    <3> QED BY <1>1, <2>1, <3>1, MovedTypes DEF Advance, Bounce, TransitionTask
  <2> QED BY <1>1, <1>5, <2>1 DEF MergeRun
<1>6. ASSUME \/ \E m \in Mergers : Crash(m) \/ \E i \in RowIds : MergeClaim(m, i)
             \/ \E i \in RowIds : LeaseLapses(i)
      PROVE  TaskTypes' /\ now' = now
  BY <1>1, <1>6 DEF MergeClaim, Crash, LeaseLapses, boardVars
<1>7. ASSUME NEW p \in PRs, PeopleStep(p) PROVE TaskTypes' /\ now' = now
  BY <1>1, <1>7 DEF PeopleStep, People, Review, boardVars
<1>8. ASSUME Reconcile \/ ListTasks \/ TakeTask \/ QuotaFloor \/ GetPRState \/ GetReviewDecision
             \/ Restart \/ Tombstone \/ ClosePR \/ UNCHANGED vars
      PROVE  TaskTypes' /\ now' = now
  BY <1>1, <1>8 DEF Reconcile, ListTasks, TakeTask, QuotaFloor, GetPRState, GetReviewDecision, Restart,
    Tombstone, ClosePR, vars1, vars, boardVars
<1>9. ASSUME Act PROVE TaskTypes' /\ now' = now
  <2>1. It \in Tasks
    BY <1>9 DEF Types, WatcherTypes, WatchOK, Act, It, Entries
  <2> QED BY <1>1, <1>9, <2>1, MovedTypes DEF Act
<1>10. ASSUME Tick PROVE TaskTypes' /\ now' \in Nat /\ now' >= now
  BY <1>1, <1>10 DEF Types, BoardTypes, Tick, boardVars
<1> QED BY <1>2, <1>3, <1>4, <1>5, <1>6, <1>7, <1>8, <1>9, <1>10 DEF Next, Board, MergeAgent, Watcher

\* A process takes a row, reads its parent, asks for the merge and looks at the parent again
\* in this order; its row and its pull request are the same all along.
MergerGoes(m) ==
  \/ merger'[m] = merger[m]
  \/ merger'[m] = Idle
  \/ /\ DOMAIN merger'[m] = MergerFields /\ merger'[m].pr \in PRs
     /\ \/ /\ At(m, "idle") /\ merger'[m].pc = "row"
           /\ merger'[m].row \in RowIds /\ row'[merger'[m].row].state # "none"
        \/ /\ ~At(m, "idle") /\ merger'[m].row = merger[m].row
           /\ \/ merger'[m].pc \notin {"squash", "refresh", "advance"}
              \/ merger'[m].pc = "squash" /\ merger'[m].pr \in LinkedPRs(Parent(m))
              \/ /\ merger'[m].pr = merger[m].pr
                 /\ \/ At(m, "squash") /\ merger'[m].pc = "refresh" /\ pr'[merger[m].pr].state = "merged"
                    \/ At(m, "refresh") /\ merger'[m].pc = "advance"
LEMMA MergersGo ==
  ASSUME Types, [Next]_vars
  PROVE  DOMAIN merger' = Mergers /\ \A m \in Mergers : MergerGoes(m)
<1> DEFINE Goal == DOMAIN merger' = Mergers /\ \A m \in Mergers : MergerGoes(m)
<1>0. /\ DOMAIN merger = Mergers
      /\ \A m \in Mergers :
           /\ DOMAIN merger[m] = MergerFields /\ merger[m].pr \in PRs
           /\ ~At(m, "idle") => merger[m].row \in RowIds /\ row[merger[m].row].state # "none"
  BY DEF Types, MergerTypes
<1>1. ASSUME merger' = merger PROVE Goal
  BY <1>0, <1>1 DEF MergerGoes
<1>2. ASSUME NEW m \in Mergers, DOMAIN merger' = Mergers, MergerGoes(m),
             \A k \in Mergers \ {m} : merger'[k] = merger[k]
      PROVE  Goal
  BY <1>2 DEF MergerGoes
<1> HIDE DEF Goal
<1>3. ASSUME NEW m \in Mergers, Exit(m) PROVE Goal
  <2>1. DOMAIN merger' = Mergers /\ merger'[m] = Idle /\ \A k \in Mergers \ {m} : merger'[k] = merger[k]
    BY <1>0, <1>3 DEF Exit
  <2> QED BY <1>2, <2>1 DEF MergerGoes
<1>4. ASSUME NEW m \in Mergers, NEW pc, ~At(m, "idle"), Go(m, pc), 
             \/ pc \notin {"squash", "refresh", "advance"}
             \/ At(m, "squash") /\ pc = "refresh" /\ pr'[merger[m].pr].state = "merged"
             \/ At(m, "refresh") /\ pc = "advance"
      PROVE  Goal
  <2>1. DOMAIN merger' = Mergers /\ merger'[m] = [merger[m] EXCEPT !.pc = pc]
        /\ \A k \in Mergers \ {m} : merger'[k] = merger[k]
    BY <1>0, <1>4 DEF Go
  <2>2. /\ DOMAIN merger'[m] = MergerFields /\ merger'[m].pr = merger[m].pr /\ merger[m].pr \in PRs
        /\ merger'[m].pc = pc /\ merger'[m].row = merger[m].row
    BY <1>0, <2>1 DEF MergerFields
  <2> QED BY <1>2, <1>4, <2>1, <2>2 DEF MergerGoes
<1>5. ASSUME NEW m \in Mergers, ReadParent(m) PROVE Goal
  <2>1. ~At(m, "idle")
    BY <1>5 DEF ReadParent, At
  <2>2. ASSUME NEW l \in FirstLink(Parent(m)),
               merger' = [merger EXCEPT ![m] = [@ EXCEPT !.pc = "squash", !.pr = l.pr]]
        PROVE  Goal
    <3>1. Parent(m) \in Tasks
      BY <1>0, <2>1 DEF Types, BoardTypes, RowTypes, Parent
    <3>2. l.pr \in LinkedPRs(Parent(m)) /\ l.pr \in PRs
      BY <3>1, FirstLinks
    <3>3. DOMAIN merger' = Mergers /\ merger'[m] = [merger[m] EXCEPT !.pc = "squash", !.pr = l.pr]
          /\ \A k \in Mergers \ {m} : merger'[k] = merger[k]
      BY <1>0, <2>2
    <3>4. /\ DOMAIN merger'[m] = MergerFields /\ merger'[m].pr = l.pr
          /\ merger'[m].pc = "squash" /\ merger'[m].row = merger[m].row
      BY <1>0, <3>3 DEF MergerFields
    <3> QED BY <1>2, <2>1, <3>2, <3>3, <3>4 DEF MergerGoes
  <2> QED BY <1>3, <1>4, <1>5, <2>1, <2>2 DEF ReadParent
<1>6. ASSUME NEW m \in Mergers, Squash(m) PROVE Goal
  <2>1. ~At(m, "idle") /\ At(m, "squash") /\ merger[m].pr \in PRs
    BY <1>0, <1>6 DEF Squash, At
  <2>2. Squashes(merger[m].pr) \/ AlreadyMerged(merger[m].pr) => pr'[merger[m].pr].state = "merged"
    <3>1. CASE Squashes(merger[m].pr)
      <4>1. pr' = [pr EXCEPT ![merger[m].pr].state = "merged"]
        BY <1>6, <3>1 DEF Squash
      <4> QED BY <2>1, <4>1 DEF Types, BoardTypes, PullTypes, PullFields
    <3>2. CASE ~Squashes(merger[m].pr)
      BY <1>6, <3>2 DEF Squash, AlreadyMerged
    <3> QED BY <3>1, <3>2
  <2> QED BY <1>4, <1>6, <2>1, <2>2 DEF Squash
<1>7. ASSUME NEW m \in Mergers, MergeRun(m) PROVE Goal
  <2>1. CASE ReadRow(m) \/ Probe(m) \/ Refresh(m) \/ Reread(m)
    BY <1>3, <1>4, <2>1 DEF ReadRow, Probe, Refresh, Reread, At
  <2>2. CASE Advance(m) \/ Bounce(m)
    BY <1>3, <1>4, <2>2 DEF Advance, Bounce, At
  <2>3. CASE EndRow(m, "retire", "failed") \/ EndRow(m, "finish", "done")
    BY <1>3, <2>3 DEF EndRow
  <2> QED BY <1>5, <1>6, <1>7, <2>1, <2>2, <2>3 DEF MergeRun, MergeStep
<1>8. ASSUME NEW m \in Mergers, NEW i \in RowIds, MergeClaim(m, i) PROVE Goal
  <2>1. DOMAIN merger' = Mergers /\ merger'[m] = [pc |-> "row", row |-> i, pr |-> Idle.pr]
        /\ \A k \in Mergers \ {m} : merger'[k] = merger[k]
    BY <1>0, <1>8 DEF MergeClaim
  <2>2. row'[i].state # "none"
    BY <1>8, RowTypesKept DEF MergeClaim
  <2>3. Idle.pr \in PRs
    BY PRConstants DEF Idle
  <2> QED BY <1>2, <1>8, <2>1, <2>2, <2>3 DEF MergerGoes, MergeClaim, MergerFields
<1>9. ASSUME NEW m \in Mergers, Crash(m) PROVE Goal
  BY <1>3, <1>9 DEF Crash
<1>10. ASSUME Board PROVE Goal
  BY <1>1, <1>10 DEF Board, ClaimTask, Approve, Reject, Operate, CloseSupersededPR, SubmitTask
<1>11. ASSUME \/ \E p \in PRs : PeopleStep(p)
              \/ \E i \in RowIds : LeaseLapses(i)
              \/ Reconcile \/ ListTasks \/ TakeTask \/ QuotaFloor \/ GetPRState \/ GetReviewDecision
              \/ Restart \/ Act \/ Tombstone \/ ClosePR \/ Tick \/ UNCHANGED vars
       PROVE  Goal
  BY <1>1, <1>11 DEF PeopleStep, People, Review, LeaseLapses, Reconcile, ListTasks, TakeTask, QuotaFloor,
    GetPRState, GetReviewDecision, Restart, Act, Tombstone, ClosePR, Tick, vars1, vars
<1>12. Goal
  BY <1>7, <1>8, <1>9, <1>10, <1>11 DEF Next, MergeAgent, Watcher
<1> QED BY <1>12 DEF Goal

LEMMA MergerTypesKept ==
  ASSUME Types, [Next]_vars
  PROVE  MergerTypes'
<1>1. \A i \in RowIds : row[i].state # "none" => row'[i].state # "none"
  BY RowTypesKept
<1>2. ASSUME NEW m \in Mergers
      PROVE  /\ DOMAIN merger'[m] = MergerFields /\ merger'[m].pr \in PRs
             /\ merger'[m].pc # "idle" => merger'[m].row \in RowIds /\ row'[merger'[m].row].state # "none"
  <2>1. DOMAIN Idle = MergerFields /\ Idle.pr \in PRs /\ Idle.pc = "idle"
    BY PRConstants DEF Idle, MergerFields
  <2> QED BY <1>1, <2>1, MergersGo DEF MergerGoes, Types, MergerTypes, At
<1> QED BY <1>2, MergersGo DEF MergerTypes, At

-----------------------------------------------------------------------------
(* The watcher *)

\* The entries of a list are the rows as they are when it is read.
FreshList(w) == \A e \in w.list : e.updated = task[e.task].updated
LEMMA Lists ==
  ASSUME Types, NEW w, DOMAIN w = WatchFields, w.since \in Nat, w.pr \in PRs
  PROVE  /\ WatchOK(ListAfter(w)) /\ FreshList(ListAfter(w))
         /\ ListAfter(w).since \in {0, w.since} /\ ListAfter(w).pc \in {"rest", "list"}
         /\ ListAfter(w).pc = "list" => ListAfter(w).since = w.since
<1>1. CASE ListAfter(w) = Resting
  <2>1. Idle.pr \in PRs
    BY PRConstants DEF Idle
  <2> QED BY <1>1, <2>1 DEF Resting, WatchOK, FreshList, WatchFields
<1>2. CASE ListAfter(w) # Resting
  <2>1. PICK i : ListAfter(w) = [w EXCEPT !.pc = "list", !.phase = i,
                                          !.list = {[task |-> t, updated |-> task[t].updated] : t \in Listed(i)}]
    BY <1>2 DEF ListAfter
  <2> DEFINE listing == {[task |-> t, updated |-> task[t].updated] : t \in Listed(i)}
             v == ListAfter(w)
  <2>2. /\ DOMAIN v = WatchFields /\ v.list = listing /\ v.since = w.since /\ v.pr = w.pr /\ v.pc = "list"
    BY <2>1 DEF WatchFields
  <2>3. /\ listing \in SUBSET Entries
        /\ \A e1, e2 \in listing : e1.task = e2.task => e1 = e2
        /\ \A e \in listing : e.updated = task[e.task].updated
    BY DEF Listed, Entries, Types, BoardTypes, TaskTypes
  <2> HIDE DEF listing, v
  <2>4. WatchOK(v) /\ FreshList(v) /\ v.since = w.since /\ v.pc = "list"
    BY <2>2, <2>3 DEF WatchOK, FreshList
  <2> QED BY <2>4 DEF v
<1> QED BY <1>1, <1>2

\* What the watcher keeps from one step to the next.
Rests == watch.pc \in {"rest", "list"}
\* The watcher leaves the task it looks at, if any, and one entry of its list at most.
Leaves ==
  /\ watch.pc # "rest" /\ DOMAIN watch' = WatchFields
  /\ watch'.pc = "list" /\ watch'.list \subseteq watch.list
  /\ watch'.since = watch.since /\ watch'.pr \in PRs
\* It begins with a task of its list.
Takes ==
  /\ watch.pc # "rest" /\ DOMAIN watch' = WatchFields
  /\ watch'.pc \in {"state", "quota"} /\ watch'.since = watch.since
  /\ \E e \in watch.list : \E l \in Followed(e.task) :
       /\ watch'.listed = e /\ watch'.list = watch.list \ {e}
       /\ watch'.pr = l.pr /\ ~BackedOff(OwnerOf[l.pr])
       /\ notBefore' = [notBefore EXCEPT ![OwnerOf[l.pr]] = 0]
\* It goes on with it.
GoesOn ==
  /\ ~Rests
  /\ DOMAIN watch' = WatchFields
  /\ watch'.pc \notin {"rest", "list"}
  /\ watch'.since = watch.since /\ watch'.list = watch.list
  /\ watch'.listed = watch.listed /\ watch'.pr = watch.pr
  /\ UNCHANGED <<notBefore, told>>
\* It is about to act, and what it read says so.
Decides ==
  watch'.pc = "act" =>
    \/ watch'.action \in {"done", "converge"} /\ watch.pc = "state" /\ pr[watch.pr].state = "merged"
    \/ watch'.action = "done" /\ watch.pc = "decision" /\ watch.seen = "merged"
    \/ watch'.action = "abandon"
    \/ /\ watch'.action = "bounce" /\ watch.pc = "decision"
       /\ pr[watch.pr].decision = "changes_requested" /\ pr[watch.pr].reviewed > watch.listed.updated
Sees == watch'.pc = "decision" => watch'.seen = pr[watch.pr].state

WatcherMoves ==
  \/ UNCHANGED watchVars
  \/ /\ watch' = Resting /\ notBefore' = [o \in Owners |-> 0]
     /\ told' = [o \in Owners |-> {}]
  \/ \E w : /\ DOMAIN w = WatchFields /\ w.since \in Nat /\ w.pr \in PRs
            /\ watch' = ListAfter(w) /\ UNCHANGED <<notBefore, told>>
            /\ w.since = now \/ (w.since = watch.since /\ watch.pc # "rest")
  \/ Takes /\ UNCHANGED told
  \/ Leaves /\ UNCHANGED <<notBefore, told>>
  \/ /\ Leaves /\ ~Rests
     /\ \E n \in Nat, reset \in Nat :
          /\ n > watch.since /\ n >= reset
          /\ notBefore' = [notBefore EXCEPT ![Owner] = n]
          /\ told' = [told EXCEPT ![Owner] = @ \cup {[at |-> watch.since, reset |-> reset]}]
  \/ GoesOn /\ Decides /\ Sees

LEMMA Skips ==
  ASSUME Types, watch.pc # "rest", NEW w, watch' = Next1(w),
         w = watch \/ \E S \in SUBSET watch.list : w = [watch EXCEPT !.list = S]
  PROVE  Leaves
<1>1. DOMAIN watch = WatchFields /\ Idle.pr \in PRs
  BY PRConstants DEF Types, WatcherTypes, WatchOK, Idle
<1>2. DOMAIN w = WatchFields /\ w.list \subseteq watch.list /\ w.since = watch.since
  BY <1>1 DEF WatchFields
<1> QED BY <1>1, <1>2 DEF Next1, Leaves, WatchFields

LEMMA LimitMoves ==
  ASSUME Types, ~Rests, EnterBackoff(Owner)
  PROVE  WatcherMoves
<1>1. PICK reset \in 0..env.until :
        /\ notBefore' = [notBefore EXCEPT ![Owner] = NotBefore(reset)]
        /\ told' = [told EXCEPT ![Owner] = @ \cup {[at |-> watch.since, reset |-> reset]}]
  BY DEF EnterBackoff
<1>2. env.until \in Nat /\ BackoffInterval \in Nat \ {0} /\ watch.since \in Nat
  BY PRConstants, WatchConstants DEF Types, BoardTypes, WatcherTypes, WatchOK
<1>3. reset \in Nat /\ NotBefore(reset) \in Nat /\ NotBefore(reset) > watch.since /\ NotBefore(reset) >= reset
  BY <1>1, <1>2 DEF NotBefore
<1>4. Leaves
  BY Skips DEF EnterBackoff, Skip, Rests
<1> QED BY <1>1, <1>3, <1>4 DEF WatcherMoves

LEMMA WatcherSteps ==
  ASSUME Types, [Next]_vars
  PROVE  WatcherMoves
<1>1. DOMAIN watch = WatchFields /\ watch.since \in Nat /\ watch.pr \in PRs
  BY DEF Types, WatcherTypes, WatchOK
<1>2. ASSUME Reconcile PROVE WatcherMoves
  <2> DEFINE w == [Resting EXCEPT !.since = now]
  <2>1. DOMAIN w = WatchFields /\ w.since = now /\ w.since \in Nat /\ w.pr \in PRs
    BY PRConstants DEF Resting, WatchFields, Idle, Types, BoardTypes
  <2> HIDE DEF w
  <2>2. watch' = ListAfter(w) /\ UNCHANGED <<notBefore, told>>
    BY <1>2 DEF Reconcile, w
  <2> QED BY <2>1, <2>2 DEF WatcherMoves
<1>3. ASSUME ListTasks PROVE WatcherMoves
  BY <1>1, <1>3 DEF ListTasks, WatcherMoves
<1>4. ASSUME TakeTask PROVE WatcherMoves
  <2>1. PICK e \in watch.list :
          LET w == [watch EXCEPT !.list = @ \ {e}]
              l == CHOOSE l \in Followed(e.task) : TRUE
              o == OwnerOf[l.pr]
          IN IF Followed(e.task) = {} \/ BackedOff(o)
             THEN watch' = Next1(w) /\ UNCHANGED notBefore
             ELSE /\ notBefore' = [notBefore EXCEPT ![o] = 0]
                  /\ watch' = [w EXCEPT !.pc = IF o \in w.checked THEN "state" ELSE "quota",
                                        !.checked = @ \cup {o}, !.listed = e, !.pr = l.pr]
    BY <1>4 DEF TakeTask
  <2> DEFINE w == [watch EXCEPT !.list = @ \ {e}]
             l == CHOOSE l \in Followed(e.task) : TRUE
             o == OwnerOf[l.pr]
  <2>2. CASE Followed(e.task) = {} \/ BackedOff(o)
    <3>1. watch' = Next1(w) /\ UNCHANGED <<notBefore, told>> /\ watch.pc # "rest"
      BY <1>4, <2>1, <2>2 DEF TakeTask
    <3>2. \E S \in SUBSET watch.list : w = [watch EXCEPT !.list = S]
      OBVIOUS
    <3> HIDE DEF w
    <3> QED BY <3>1, <3>2, Skips DEF WatcherMoves
  <2>3. CASE ~(Followed(e.task) = {} \/ BackedOff(o))
    <3>1. l \in Followed(e.task)
      BY <2>3
    <3>2. DOMAIN w = WatchFields /\ w.list = watch.list \ {e} /\ w.since = watch.since
      BY <1>1 DEF WatchFields
    <3>3. /\ notBefore' = [notBefore EXCEPT ![o] = 0]
          /\ watch' = [w EXCEPT !.pc = IF o \in w.checked THEN "state" ELSE "quota",
                                !.checked = @ \cup {o}, !.listed = e, !.pr = l.pr]
          /\ UNCHANGED told /\ watch.pc # "rest"
      BY <1>4, <2>1, <2>3 DEF TakeTask
    <3> HIDE DEF w, l
    <3>4. /\ DOMAIN watch' = WatchFields /\ watch'.pc \in {"state", "quota"}
          /\ watch'.list = w.list /\ watch'.since = w.since /\ watch'.listed = e /\ watch'.pr = l.pr
      BY <3>2, <3>3 DEF WatchFields
    <3> QED BY <2>3, <3>1, <3>2, <3>3, <3>4 DEF Takes, WatcherMoves
  <2> QED BY <2>2, <2>3
<1>5. ASSUME NEW pc, pc \notin {"rest", "list", "act", "decision"}, ~Rests,
             watch' = [watch EXCEPT !.pc = pc], UNCHANGED <<notBefore, told>>
      PROVE  WatcherMoves
  <2>1. GoesOn /\ watch'.pc = pc
    BY <1>1, <1>5 DEF GoesOn, WatchFields
  <2> QED BY <1>5, <2>1 DEF WatcherMoves, Decides, Sees
<1>6. ASSUME NEW action, ~Rests, watch' = [watch EXCEPT !.pc = "act", !.action = action], UNCHANGED <<notBefore, told>>,
             \/ action \in {"done", "converge"} /\ watch.pc = "state" /\ pr[watch.pr].state = "merged"
             \/ action = "done" /\ watch.pc = "decision" /\ watch.seen = "merged"
             \/ action = "abandon"
             \/ /\ action = "bounce" /\ watch.pc = "decision"
                /\ pr[watch.pr].decision = "changes_requested" /\ pr[watch.pr].reviewed > watch.listed.updated
      PROVE  WatcherMoves
  <2>1. GoesOn /\ watch'.pc = "act" /\ watch'.action = action
    BY <1>1, <1>6 DEF GoesOn, WatchFields
  <2> QED BY <1>6, <2>1 DEF WatcherMoves, Decides, Sees
<1>7. ASSUME watch.pc # "rest", Skip, UNCHANGED <<notBefore, told>> PROVE WatcherMoves
  BY <1>7, Skips DEF Skip, WatcherMoves
<1>8. ASSUME QuotaFloor PROVE WatcherMoves
  <2>1. ~Rests
    BY <1>8 DEF QuotaFloor, Rests
  <2> QED BY <1>5, <1>8, <2>1, LimitMoves DEF QuotaFloor
<1>9. ASSUME GetPRState PROVE WatcherMoves
  <2>1. ~Rests /\ watch.pc = "state"
    BY <1>9 DEF GetPRState, Rests
  <2>2. ASSUME watch' = ReadsState(watch.pr), UNCHANGED <<notBefore, told>> PROVE WatcherMoves
    <3>1. CASE watch' = [watch EXCEPT !.pc = "decision", !.seen = pr[watch.pr].state]
      <4>1. GoesOn /\ watch'.pc = "decision" /\ watch'.seen = pr[watch.pr].state
        BY <1>1, <2>1, <2>2, <3>1 DEF GoesOn, WatchFields
      <4> QED BY <2>1, <4>1 DEF WatcherMoves, Decides, Sees
    <3>2. CASE watch' = Next1(watch)
      BY <1>7, <2>1, <2>2, <3>2 DEF Skip
    <3>3. CASE \E pc \in {"tombstone", "close"} : watch' = [watch EXCEPT !.pc = pc]
      BY <1>5, <2>1, <2>2, <3>3
    <3>4. CASE watch' = [watch EXCEPT !.pc = "act", !.action = "converge"] /\ pr[watch.pr].state = "merged"
      BY <1>6, <2>1, <2>2, <3>4
    <3> QED BY <2>2, <3>1, <3>2, <3>3, <3>4 DEF ReadsState
  <2> QED BY <1>7, <1>9, <2>1, <2>2, LimitMoves DEF GetPRState
<1>10. ASSUME GetReviewDecision PROVE WatcherMoves
  <2>1. ~Rests /\ watch.pc = "decision"
    BY <1>10 DEF GetReviewDecision, Rests
  <2> DEFINE action == Decide(watch.seen, Decision(watch.pr), pr[watch.pr].reviewed, watch.listed.updated)
  <2>3. CASE watch' = [watch EXCEPT !.pc = "act", !.action = action] /\ action # "noop" /\ UNCHANGED <<notBefore, told>>
    <3>1. \/ action = "done" /\ watch.seen = "merged"
          \/ action = "abandon"
          \/ /\ action = "bounce"
             /\ pr[watch.pr].decision = "changes_requested" /\ pr[watch.pr].reviewed > watch.listed.updated
      BY <2>3 DEF Decide, Decision, After
    <3> HIDE DEF action
    <3> QED BY <1>6, <2>1, <2>3, <3>1
  <2>4. CASE watch' = Next1(watch) /\ UNCHANGED <<notBefore, told>>
    BY <1>7, <2>1, <2>4 DEF Skip
  <2> QED BY <1>7, <1>10, <2>1, <2>3, <2>4, LimitMoves DEF GetReviewDecision
<1>11. ASSUME Act \/ Tombstone PROVE WatcherMoves
  BY <1>7, <1>11 DEF Act, Tombstone
<1>12. ASSUME ClosePR PROVE WatcherMoves
  <2>1. ~Rests
    BY <1>12 DEF ClosePR, Rests
  <2> QED BY <1>5, <1>7, <1>12, <2>1 DEF ClosePR
<1>13. ASSUME Restart PROVE WatcherMoves
  BY <1>13 DEF Restart, WatcherMoves
<1>14. ASSUME UNCHANGED watchVars PROVE WatcherMoves
  BY <1>14 DEF WatcherMoves
<1> QED BY <1>2, <1>3, <1>4, <1>8, <1>9, <1>10, <1>11, <1>12, <1>13, <1>14 DEF Next, Watcher, PeopleStep, vars

LEMMA FollowedIsLinked ==
  ASSUME Types, NEW t \in Tasks, NEW l \in Followed(t)
  PROVE  l.pr \in LinkedPRs(t) /\ l.pr \in PRs /\ TaskOf(l.pr) = t
BY FirstLinks DEF Followed

\* Only people review, and only the watcher answers.
Asks == \E p \in PRs :
  /\ pr' = [pr EXCEPT ![p] = [@ EXCEPT !.decision = "changes_requested", !.reviewed = now]]
  /\ reviews' = [reviews EXCEPT ![TaskOf(p)] = @ + 1]
  /\ UNCHANGED <<bounces, task, watchVars, now>>
Answers ==
  /\ watch.pc = "act" /\ watch.action = "bounce" /\ bounces' = [bounces EXCEPT ![It] = @ + 1]
  /\ task' = Moved(It, "ready") /\ UNCHANGED <<reviews, pr, now>>
\* The step of a review, as PeopleStep has it.
Reviews(p) ==
  /\ Review(p) /\ UNCHANGED <<watchVars, bounces>>
  /\ reviews' = IF pr'[p].decision = "changes_requested"
                THEN [reviews EXCEPT ![TaskOf(p)] = @ + 1] ELSE reviews
LEMMA ReviewsAsk ==
  ASSUME Types, NEW p \in PRs, Reviews(p), NEW decision,
         pr' = [pr EXCEPT ![p] = [@ EXCEPT !.decision = decision, !.reviewed = now]]
  PROVE  IF decision = "changes_requested" THEN Asks ELSE UNCHANGED history
<1>1. pr'[p].decision = decision
  BY DEF Types, BoardTypes, PullTypes, PullFields
<1> QED BY <1>1 DEF Reviews, Review, Asks, history, boardVars

LEMMA Counted ==
  ASSUME Types, [Next]_vars
  PROVE  Asks \/ Answers \/ UNCHANGED history
<1>1. ASSUME NEW p \in PRs, PeopleStep(p) PROVE Asks \/ UNCHANGED history
  <2>1. CASE People(p) /\ UNCHANGED reviews
    BY <1>1, <2>1 DEF PeopleStep, history
  <2>2. CASE Reviews(p)
    <3>1. PICK decision : pr' = [pr EXCEPT ![p] = [@ EXCEPT !.decision = decision, !.reviewed = now]]
      BY <2>2 DEF Reviews, Review
    <3> QED BY <2>2, <3>1, ReviewsAsk
  <2> QED BY <1>1, <2>1, <2>2 DEF PeopleStep, Reviews
<1>2. ASSUME Act PROVE Answers \/ UNCHANGED history
  BY <1>2 DEF Act, Answers, Target, history
<1> QED BY <1>1, <1>2 DEF Next, Watcher, vars

LEMMA Counters ==
  ASSUME Types, [Next]_vars
  PROVE  bounces' \in [Tasks -> Nat] /\ reviews' \in [Tasks -> Nat]
<1>1. bounces \in [Tasks -> Nat] /\ reviews \in [Tasks -> Nat]
  BY DEF Types, WatcherTypes
<1>2. CASE Asks
  <2>1. \A p \in PRs : TaskOf(p) \in Tasks
    BY PRConstants DEF TaskOf, Types, BoardTypes
  <2> QED BY <1>1, <1>2, <2>1 DEF Asks
<1>3. CASE Answers
  <2>1. It \in Tasks
    BY <1>3 DEF Types, WatcherTypes, WatchOK, Answers, It, Entries
  <2> QED BY <1>1, <1>3, <2>1 DEF Answers
<1> QED BY <1>1, <1>2, <1>3, Counted DEF history

LEMMA WatcherTypesKept ==
  ASSUME Types, [Next]_vars
  PROVE  WatcherTypes'
<1>0. /\ WatchOK(watch) /\ notBefore \in [Owners -> Nat] /\ told \in [Owners -> SUBSET Limits]
      /\ bounces \in [Tasks -> Nat] /\ reviews \in [Tasks -> Nat]
      /\ OwnerOf \in [PRs -> Owners] /\ Idle.pr \in PRs
  BY WatchConstants, PRConstants DEF Types, WatcherTypes, Idle
<1>1. WatchOK(watch')
  <2>1. CASE watch' = Resting
    BY <1>0, <2>1 DEF Resting, WatchOK, WatchFields
  <2>2. CASE Takes
    <3>1. PICK e \in watch.list : \E l \in Followed(e.task) :
            watch'.listed = e /\ watch'.list = watch.list \ {e} /\ watch'.pr = l.pr
      BY <2>2 DEF Takes
    <3>2. watch'.pr \in PRs /\ e \in Entries
      BY <1>0, <3>1, FollowedIsLinked DEF WatchOK, Entries
    <3> QED BY <1>0, <2>2, <3>1, <3>2 DEF Takes, WatchOK
  <2>3. CASE Leaves
    BY <1>0, <2>3 DEF Leaves, WatchOK
  <2>4. CASE GoesOn
    BY <1>0, <2>4 DEF GoesOn, Rests, WatchOK
  <2> QED BY <1>0, <2>1, <2>2, <2>3, <2>4, WatcherSteps, Lists DEF WatcherMoves, watchVars
<1>2. notBefore' \in [Owners -> Nat] /\ told' \in [Owners -> SUBSET Limits]
  <2>1. Owner \in Owners /\ \A reset \in Nat : [at |-> watch.since, reset |-> reset] \in Limits
    BY <1>0 DEF Owner, WatchOK, Limits
  <2> QED BY <1>0, <2>1, WatcherSteps DEF WatcherMoves, watchVars, Takes, GoesOn
<1>3. bounces' \in [Tasks -> Nat] /\ reviews' \in [Tasks -> Nat]
  BY <1>0, Counters
<1> QED BY <1>1, <1>2, <1>3 DEF WatcherTypes

LEMMA TypesKept ==
  ASSUME Types, [Next]_vars
  PROVE  Types'
BY TaskTypesKept, LinkTypesKept, RowTypesKept, PullTypesKept, MergerTypesKept, WatcherTypesKept DEF Types, BoardTypes

THEOREM PRTypesAlways == Spec => []Types
BY InitTypes, TypesKept, PTL DEF Spec

-----------------------------------------------------------------------------
(* The quota of an owner *)

\* A limit is behind the watcher when a pass began after it was met, and after the reset.
Past(limit, time) == time > limit.at /\ time >= limit.reset
\* An owner without a deadline has its limits behind it, as of now and of the pass.  Any
\* other owner will have them at its deadline.
QuietInv ==
  /\ \A o \in Owners : \A limit \in told[o] :
       /\ limit.at <= now
       /\ IF notBefore[o] # 0 THEN Past(limit, notBefore[o])
          ELSE Past(limit, now) /\ (watch.pc # "rest" => Past(limit, watch.since))
  /\ watch.pc # "rest" => watch.since <= now
  /\ ~Rests => notBefore[Owner] = 0

LEMMA TimeGoesOn ==
  ASSUME Types, [Next]_vars
  PROVE  now \in Nat /\ now' \in Nat /\ now' >= now
BY TaskTypesKept DEF Types, BoardTypes

\* Until the server restarts, an owner that a read or a quota lookup found limited is left
\* alone for the rest of that pass and until the reset it named (rateLimitBackoff of the
\* reconciler), whatever other owners and later lookups say.
THEOREM QuietWhenLimitedAlways == Spec => []QuietWhenLimited
<1>1. Init => QuietInv
  BY DEF Init, QuietInv, Resting, Rests
<1>2. ASSUME Types, QuietInv, [Next]_vars PROVE QuietInv'
  <2>0. /\ WatchOK(watch) /\ notBefore \in [Owners -> Nat] /\ told \in [Owners -> SUBSET Limits]
        /\ OwnerOf \in [PRs -> Owners] /\ watch.since \in Nat /\ watch.pr \in PRs /\ Owner \in Owners
    BY <1>2, WatchConstants DEF Types, WatcherTypes, WatchOK, Owner
  <2>1. now \in Nat /\ now' \in Nat /\ now' >= now
    BY <1>2, TimeGoesOn
  <2>2. \A o \in Owners : \A limit \in told[o] : limit.at \in Nat /\ limit.reset \in Nat
    BY <2>0 DEF Limits
  <2>3. CASE UNCHANGED watchVars
    BY <1>2, <2>0, <2>1, <2>2, <2>3 DEF QuietInv, Past, watchVars, Rests, Owner
  <2>4. CASE watch' = Resting /\ told' = [o \in Owners |-> {}]
    BY <2>4 DEF QuietInv, Resting, Rests
  <2>5. ASSUME NEW w, DOMAIN w = WatchFields, w.since \in Nat, w.pr \in PRs,
               watch' = ListAfter(w), UNCHANGED <<notBefore, told>>,
               w.since = now \/ (w.since = watch.since /\ watch.pc # "rest")
        PROVE  QuietInv'
    <3>1. watch'.pc \in {"rest", "list"} /\ (watch'.pc = "list" => watch'.since = w.since)
      BY <1>2, <2>5, Lists
    <3>2. w.since <= now
      BY <1>2, <2>0, <2>1, <2>5 DEF QuietInv
    <3>3. ASSUME NEW o \in Owners, NEW limit \in told[o]
          PROVE  /\ limit.at <= now'
                 /\ IF notBefore[o] # 0 THEN Past(limit, notBefore[o])
                    ELSE Past(limit, now') /\ (watch'.pc # "rest" => Past(limit, watch'.since))
      BY <1>2, <2>1, <2>2, <2>5, <3>1, <3>3 DEF QuietInv, Past
    <3> QED BY <2>1, <2>5, <3>1, <3>2, <3>3 DEF QuietInv, Rests, Past
  <2>6. CASE Takes /\ UNCHANGED told
    <3>1. PICK o \in Owners : OwnerOf[watch'.pr] = o /\ ~BackedOff(o) /\ notBefore' = [notBefore EXCEPT ![o] = 0]
      <4>1. PICK e \in watch.list : \E l \in Followed(e.task) :
              /\ watch'.pr = l.pr /\ ~BackedOff(OwnerOf[l.pr])
              /\ notBefore' = [notBefore EXCEPT ![OwnerOf[l.pr]] = 0]
        BY <2>6 DEF Takes
      <4>2. e.task \in Tasks
        BY <2>0 DEF WatchOK, Entries
      <4> QED BY <1>2, <2>0, <4>1, <4>2, FollowedIsLinked
    <3>2. watch'.pc # "rest" /\ watch'.since = watch.since
      BY <2>6 DEF Takes
    <3>3. watch.pc # "rest" /\ watch.since <= now
      BY <1>2, <2>6 DEF QuietInv, Takes
    <3>4. ASSUME NEW q \in Owners, NEW limit \in told[q]
          PROVE  /\ limit.at <= now'
                 /\ IF notBefore'[q] # 0 THEN Past(limit, notBefore'[q])
                    ELSE Past(limit, now') /\ Past(limit, watch.since)
      <4>1. limit.at <= now /\ (IF notBefore[q] # 0 THEN Past(limit, notBefore[q])
                                ELSE Past(limit, now) /\ Past(limit, watch.since))
        BY <1>2, <3>3 DEF QuietInv
      <4>2. CASE q # o
        BY <2>0, <2>1, <2>2, <3>1, <4>1, <4>2 DEF Past
      <4>3. CASE q = o
        <5>1. notBefore[q] # 0 => watch.since >= notBefore[q]
          BY <2>0, <3>1, <4>3 DEF BackedOff
        <5> QED BY <2>0, <2>1, <2>2, <3>1, <3>3, <4>1, <4>3, <5>1 DEF Past
      <4> QED BY <4>2, <4>3
    <3>5. notBefore'[Owner'] = 0
      BY <2>0, <3>1 DEF Owner
    <3> QED BY <2>0, <2>1, <2>6, <3>2, <3>3, <3>4, <3>5 DEF QuietInv
  <2>7. CASE Leaves /\ UNCHANGED <<notBefore, told>>
    <3>1. watch'.pc = "list" /\ watch'.since = watch.since
      BY <2>7 DEF Leaves
    <3>2. watch.pc # "rest" /\ watch.since <= now
      BY <1>2, <2>7 DEF QuietInv, Leaves
    <3> QED BY <1>2, <2>0, <2>1, <2>2, <2>7, <3>1, <3>2 DEF QuietInv, Rests, Past
  <2>8. ASSUME Leaves, ~Rests, NEW n \in Nat, NEW reset \in Nat, n > watch.since, n >= reset,
               notBefore' = [notBefore EXCEPT ![Owner] = n],
               told' = [told EXCEPT ![Owner] = @ \cup {[at |-> watch.since, reset |-> reset]}]
        PROVE  QuietInv'
    <3>1. watch'.pc = "list" /\ watch'.since = watch.since
      BY <2>8 DEF Leaves
    <3>2. watch.pc # "rest" /\ watch.since <= now /\ notBefore[Owner] = 0
      BY <1>2, <2>8 DEF QuietInv, Rests
    <3>3. ASSUME NEW q \in Owners, NEW limit \in told'[q]
          PROVE  /\ limit.at <= now'
                 /\ IF notBefore'[q] # 0 THEN Past(limit, notBefore'[q])
                    ELSE Past(limit, now') /\ Past(limit, watch.since)
      <4>1. CASE limit \in told[q]
        <5>1. limit.at <= now /\ (IF notBefore[q] # 0 THEN Past(limit, notBefore[q])
                                  ELSE Past(limit, now) /\ Past(limit, watch.since))
          BY <1>2, <3>2, <4>1 DEF QuietInv
        <5>2. limit.at \in Nat /\ limit.reset \in Nat
          BY <2>2, <4>1
        <5>3. CASE q = Owner
          BY <2>0, <2>1, <2>8, <3>2, <5>1, <5>2, <5>3 DEF Past
        <5>4. CASE q # Owner
          BY <2>0, <2>1, <2>8, <5>1, <5>2, <5>4 DEF Past
        <5> QED BY <5>3, <5>4
      <4>2. CASE limit \notin told[q]
        <5>1. q = Owner /\ limit = [at |-> watch.since, reset |-> reset]
          BY <2>0, <2>8, <3>3, <4>2
        <5>2. limit.at = watch.since /\ limit.reset = reset /\ notBefore'[q] = n
          BY <2>0, <2>8, <5>1
        <5> QED BY <2>0, <2>1, <2>8, <3>2, <5>2 DEF Past
      <4> QED BY <4>1, <4>2
    <3> QED BY <2>0, <2>1, <3>1, <3>2, <3>3 DEF QuietInv, Rests
  <2>9. CASE GoesOn
    <3>1. /\ watch.pc # "rest" /\ watch'.since = watch.since /\ watch'.pr = watch.pr
          /\ UNCHANGED <<notBefore, told>>
      BY <2>9 DEF GoesOn, Rests
    <3> QED BY <1>2, <2>0, <2>1, <2>2, <2>9, <3>1 DEF GoesOn, QuietInv, Past, Owner
  <2> QED BY <1>2, <2>3, <2>4, <2>5, <2>6, <2>7, <2>8, <2>9, WatcherSteps DEF WatcherMoves
<1>3. Types /\ QuietInv => QuietWhenLimited
  BY WatchConstants DEF Types, WatcherTypes, WatchOK, QuietInv, Past, QuietWhenLimited, Calling, Rests, Owner
<1> QED BY <1>1, <1>2, <1>3, InitTypes, TypesKept, PTL DEF Spec

-----------------------------------------------------------------------------
(* Done means merged *)

Merged(p) == pr[p].state = "merged"

\* Whatever a merge agent or the watcher still holds of what it read: the pull request is
\* one of the task's, and where it was merged when it was read it still is.
MergedInv ==
  /\ DoneMeansMerged
  /\ \A m \in Mergers :
       /\ merger[m].pc \in {"squash", "refresh", "advance"} => merger[m].pr \in LinkedPRs(Parent(m))
       /\ merger[m].pc \in {"refresh", "advance"} => Merged(merger[m].pr)
  /\ ~Rests => watch.pr \in LinkedPRs(It)
  /\ watch.pc = "decision" /\ watch.seen = "merged" => Merged(watch.pr)
  /\ watch.pc = "act" => watch.action \in {"abandon", "bounce"} \/ Merged(watch.pr)

LEMMA DoneBy ==
  ASSUME Types, [Next]_vars, NEW t \in Tasks, task'[t].state = "done"
  PROVE  \/ task[t].state = "done"
         \/ \E m \in Mergers : At(m, "advance") /\ t = Parent(m)
         \/ watch.pc = "act" /\ watch.action \notin {"abandon", "bounce"} /\ t = It
<1> DEFINE Goal == \/ task[t].state = "done"
                   \/ \E m \in Mergers : At(m, "advance") /\ t = Parent(m)
                   \/ watch.pc = "act" /\ watch.action \notin {"abandon", "bounce"} /\ t = It
<1>0. task'[t].state = "done"
  OBVIOUS
<1>1. ASSUME task' = task PROVE Goal
  BY <1>0, <1>1
<1>2. ASSUME NEW u \in Tasks, NEW s, task' = Moved(u, s), s # "done" \/ u # t \/ task[u].state = s PROVE Goal
  BY <1>0, <1>2 DEF Types, BoardTypes, TaskTypes, TaskFields, Moved
<1>3. ASSUME NEW u \in Tasks, Approve(u) PROVE Goal
  BY <1>0, <1>3 DEF Types, BoardTypes, TaskTypes, TaskFields, Approve
<1>4. ASSUME NEW u \in Tasks, \/ ClaimTask(u) \/ CloseSupersededPR(u) \/ Reject(u) \/ Operate(u)
                               \/ \E p \in PRs : SubmitTask(u, p)
      PROVE  Goal
  BY <1>1, <1>2, <1>4 DEF ClaimTask, Reject, Operate, SubmitTask, CloseSupersededPR, TransitionTask, boardVars
<1>5. ASSUME NEW m \in Mergers, MergeRun(m) PROVE Goal
  <2>1. ASSUME Advance(m) \/ Bounce(m) PROVE Goal
    <3>1. Parent(m) \in Tasks
      BY <2>1 DEF Types, BoardTypes, RowTypes, MergerTypes, Advance, Bounce, At, Parent
    <3>2. CASE Parent(m) = t /\ At(m, "advance")
      BY <3>2
    <3>3. CASE Parent(m) # t
      BY <1>1, <1>2, <2>1, <3>1, <3>3 DEF Advance, Bounce, TransitionTask
    <3>4. CASE ~At(m, "advance")
      BY <1>1, <1>2, <2>1, <3>1, <3>4 DEF Advance, Bounce, TransitionTask
    <3> QED BY <3>2, <3>3, <3>4
  <2> QED BY <1>1, <1>5, <2>1 DEF MergeRun
<1>6. ASSUME \/ \E m \in Mergers : Crash(m) \/ \E i \in RowIds : MergeClaim(m, i)
             \/ \E i \in RowIds : LeaseLapses(i)
             \/ \E p \in PRs : PeopleStep(p)
             \/ Reconcile \/ ListTasks \/ TakeTask \/ QuotaFloor \/ GetPRState \/ GetReviewDecision
             \/ Restart \/ Tombstone \/ ClosePR \/ Tick \/ UNCHANGED vars
      PROVE  Goal
  BY <1>1, <1>6 DEF MergeClaim, Crash, LeaseLapses, PeopleStep, People, Review, Reconcile, ListTasks,
    TakeTask, QuotaFloor, GetPRState, GetReviewDecision, Restart, Tombstone, ClosePR, Tick, vars1, vars, boardVars
<1>7. ASSUME Act PROVE Goal
  <2>1. It \in Tasks /\ watch.pc = "act"
    BY <1>7 DEF Types, WatcherTypes, WatchOK, Act, It, Entries
  <2>2. CASE watch.action \in {"abandon", "bounce"}
    <3>1. Target # "done"
      BY <2>2 DEF Target
    <3> QED BY <1>1, <1>2, <1>7, <2>1, <3>1 DEF Act
  <2>3. CASE It # t
    BY <1>1, <1>2, <1>7, <2>1, <2>3 DEF Act
  <2> QED BY <2>1, <2>2, <2>3
<1> HIDE DEF Goal
<1>8. Goal
  BY <1>3, <1>4, <1>5, <1>6, <1>7 DEF Next, Board, MergeAgent, Watcher
<1> QED BY <1>8 DEF Goal

LEMMA MergedKept ==
  ASSUME Types, MergedInv, [Next]_vars
  PROVE  MergedInv'
<1>1. /\ \A t \in Tasks : LinkedPRs(t) \subseteq LinkedPRs(t)'
      /\ \A p \in PRs : Merged(p) => Merged(p)'
      /\ \A t \in Tasks : \A p \in LinkedPRs(t) : p \in PRs
  BY LinkTypesKept, PullTypesKept, FirstLinks DEF Merged
<1>2. DoneMeansMerged'
  <2>1. ASSUME NEW t \in Tasks, NEW p \in LinkedPRs(t), Merged(p) PROVE \E q \in LinkedPRs(t)' : pr'[q].state = "merged"
    BY <1>1, <2>1 DEF Merged
  <2>2. ASSUME NEW t \in Tasks, task'[t].state = "done" PROVE \E p \in LinkedPRs(t) : Merged(p)
    <3>1. CASE task[t].state = "done"
      BY <3>1 DEF MergedInv, DoneMeansMerged, Merged
    <3>2. CASE \E m \in Mergers : At(m, "advance") /\ t = Parent(m)
      BY <3>2 DEF MergedInv, At
    <3>3. CASE watch.pc = "act" /\ watch.action \notin {"abandon", "bounce"} /\ t = It
      BY <3>3 DEF MergedInv, Rests
    <3> QED BY <2>2, <3>1, <3>2, <3>3, DoneBy
  <2> QED BY <2>1, <2>2 DEF DoneMeansMerged
<1>3. ASSUME NEW m \in Mergers
      PROVE  /\ merger'[m].pc \in {"squash", "refresh", "advance"} => merger'[m].pr \in LinkedPRs(Parent(m))'
             /\ merger'[m].pc \in {"refresh", "advance"} => pr'[merger'[m].pr].state = "merged"
  <2>1. ~At(m, "idle") => Parent(m) \in Tasks /\ row'[merger[m].row].target = Parent(m)
    BY RowTypesKept DEF Types, MergerTypes, BoardTypes, RowTypes, Parent
  <2>2. CASE merger'[m] = merger[m]
    BY <1>1, <2>1, <2>2, PullTypesKept DEF MergedInv, Merged, At, Parent, Types, MergerTypes
  <2>3. CASE merger'[m] = Idle
    BY <2>3 DEF Idle
  <2>4. CASE ~At(m, "idle") /\ merger'[m].row = merger[m].row /\ merger'[m] # merger[m] /\ merger'[m] # Idle
    <3>1. Parent(m)' = Parent(m) /\ Parent(m) \in Tasks
      BY <2>1, <2>4 DEF Parent
    <3>2. merger[m].pr \in PRs
      BY DEF Types, MergerTypes
    <3>3. LinkedPRs(Parent(m)) \subseteq LinkedPRs(Parent(m))'
      <4>1. PICK u \in Tasks : u = Parent(m)
        BY <3>1
      <4> QED BY <1>1, <3>1, <4>1 DEF LinkedPRs
    <3>4. CASE merger'[m].pc = "squash" /\ merger'[m].pr \in LinkedPRs(Parent(m))
      BY <3>3, <3>4
    <3>5. CASE merger'[m].pr = merger[m].pr /\ At(m, "squash") /\ pr'[merger[m].pr].state = "merged"
      BY <3>3, <3>5 DEF MergedInv, At
    <3>6. CASE merger'[m].pr = merger[m].pr /\ At(m, "refresh")
      BY <1>1, <3>2, <3>3, <3>6 DEF MergedInv, At, Merged
    <3>7. CASE merger'[m].pc \notin {"squash", "refresh", "advance"}
      BY <3>7
    <3>8. \/ merger'[m].pc \notin {"squash", "refresh", "advance"}
          \/ merger'[m].pc = "squash" /\ merger'[m].pr \in LinkedPRs(Parent(m))
          \/ /\ merger'[m].pr = merger[m].pr
             /\ (At(m, "squash") /\ pr'[merger[m].pr].state = "merged") \/ At(m, "refresh")
      BY <2>4, MergersGo DEF MergerGoes
    <3> QED BY <3>4, <3>5, <3>6, <3>7, <3>8
  <2> QED BY <2>2, <2>3, <2>4, MergersGo DEF MergerGoes
<1>4. /\ ~Rests' => watch'.pr \in LinkedPRs(It)'
      /\ watch'.pc = "decision" /\ watch'.seen = "merged" => pr'[watch'.pr].state = "merged"
      /\ watch'.pc = "act" => watch'.action \in {"abandon", "bounce"} \/ pr'[watch'.pr].state = "merged"
  <2>1. watch.pr \in PRs /\ (~Rests => It \in Tasks) /\ watch.list \subseteq Entries
    BY DEF Types, WatcherTypes, WatchOK, Rests, It, Entries
  <2>2. CASE watch' = watch
    <3>1. ~Rests => watch.pr \in LinkedPRs(It)' /\ It' = It
      <4>1. ASSUME ~Rests PROVE watch.pr \in LinkedPRs(It)'
        <5>1. PICK u \in Tasks : u = It
          BY <2>1, <4>1
        <5>2. It' = u
          BY <2>2, <5>1 DEF It
        <5> QED BY <1>1, <4>1, <5>1, <5>2 DEF LinkedPRs, MergedInv
      <4> QED BY <2>2, <4>1 DEF It
    <3> QED BY <1>1, <2>1, <2>2, <3>1 DEF MergedInv, Merged, Rests
  <2>3. CASE watch'.pc \in {"rest", "list"}
    BY <2>3 DEF Rests
  <2>4. CASE Takes
    <3>1. PICK e \in watch.list : \E l \in Followed(e.task) : watch'.listed = e /\ watch'.pr = l.pr
      BY <2>4 DEF Takes
    <3>2. PICK u \in Tasks : u = e.task
      BY <2>1 DEF Entries
    <3>3. watch'.pr \in LinkedPRs(u)
      BY <3>1, <3>2, FollowedIsLinked
    <3>4. It' = u
      BY <3>1, <3>2 DEF It
    <3>5. watch'.pr \in LinkedPRs(It)'
      BY <1>1, <3>3, <3>4 DEF LinkedPRs
    <3> QED BY <2>4, <3>5 DEF Takes, Rests
  <2>5. CASE GoesOn /\ Decides /\ Sees
    <3>1. PICK u \in Tasks : u = It
      BY <2>1, <2>5 DEF GoesOn
    <3>2. It' = u /\ watch'.pr = watch.pr
      BY <2>5, <3>1 DEF GoesOn, It
    <3>3. watch'.pr \in LinkedPRs(It)'
      BY <1>1, <2>5, <3>1, <3>2 DEF GoesOn, MergedInv, LinkedPRs
    <3>4. pr[watch.pr].state = "merged" => pr'[watch.pr].state = "merged"
      BY <1>1, <2>1 DEF Merged
    <3> QED BY <2>5, <3>2, <3>3, <3>4 DEF Decides, Sees, GoesOn, MergedInv, Merged
  <2>6. watch' = watch \/ watch'.pc \in {"rest", "list"} \/ Takes \/ (GoesOn /\ Decides /\ Sees)
    BY WatcherSteps, Lists DEF WatcherMoves, watchVars, Leaves, Resting
  <2> QED BY <2>2, <2>3, <2>4, <2>5, <2>6
<1> QED BY <1>2, <1>3, <1>4 DEF MergedInv, Merged, Rests

\* Whoever finishes a task, a merge agent or the watcher, and however stale what it read is
\* by then, the task is done only when one of its pull requests was merged.
THEOREM DoneMeansMergedAlways == Spec => []DoneMeansMerged
<1>1. Init => MergedInv
  <2> SUFFICES ASSUME Init PROVE MergedInv
    OBVIOUS
  <2>1. \A t \in Tasks : task[t].state # "done"
    BY DEF Init, PRInit
  <2>2. \A m \in Mergers : merger[m].pc = "idle"
    BY DEF Init, PRInit, Idle
  <2>3. watch.pc = "rest"
    BY DEF Init, Resting
  <2> QED BY <2>1, <2>2, <2>3 DEF MergedInv, DoneMeansMerged, Rests
<1>2. MergedInv => DoneMeansMerged
  BY DEF MergedInv
<1> QED BY <1>1, <1>2, InitTypes, TypesKept, MergedKept, PTL DEF Spec

-----------------------------------------------------------------------------
(* Reviews *)

\* The reviews of t's pull requests after time, where changes are requested, are not yet all
\* answered.
Unanswered(t, time) ==
  \A p \in PRs : TaskOf(p) = t /\ pr[p].decision = "changes_requested" /\ pr[p].reviewed > time =>
    bounces[t] < reviews[t]
ReviewsInv ==
  /\ BouncesAnswerReviews
  /\ \A t \in Tasks : task[t].updated <= now
  /\ \A p \in PRs : pr[p].reviewed <= now
  /\ \A t \in Tasks : Unanswered(t, task[t].updated)
  /\ \A e \in watch.list : Unanswered(e.task, e.updated)
  /\ ~Rests => TaskOf(watch.pr) = It /\ Unanswered(It, watch.listed.updated)
  /\ watch.pc = "act" /\ watch.action = "bounce" => bounces[It] < reviews[It]

\* Rows and reviews get the time of the step that writes them, or stay.
LEMMA Stamped ==
  ASSUME Types, [Next]_vars
  PROVE  /\ \A t \in Tasks : task'[t].updated \in {task[t].updated, now}
         /\ ~Asks => \A p \in PRs :
              \/ pr'[p].decision = pr[p].decision /\ pr'[p].reviewed = pr[p].reviewed
              \/ pr'[p].decision # "changes_requested" /\ pr'[p].reviewed = now
<1>1. \A t \in Tasks : task'[t].updated \in {task[t].updated, now}
  <2> DEFINE Goal == \A t \in Tasks : task'[t].updated \in {task[t].updated, now}
  <2>1. ASSUME task' = task PROVE Goal
    BY <2>1
  <2>2. ASSUME NEW u \in Tasks, NEW s, task' = Moved(u, s) PROVE Goal
    BY <2>2 DEF Types, BoardTypes, TaskTypes, TaskFields, Moved
  <2>3. ASSUME NEW u \in Tasks, Approve(u) PROVE Goal
    BY <2>3 DEF Types, BoardTypes, TaskTypes, TaskFields, Approve
  <2> HIDE DEF Goal
  <2>4. ASSUME NEW u \in Tasks, \/ ClaimTask(u) \/ CloseSupersededPR(u) \/ Reject(u) \/ Operate(u)
                                 \/ \E p \in PRs : SubmitTask(u, p)
        PROVE  Goal
    BY <2>1, <2>2, <2>4 DEF ClaimTask, Reject, Operate, SubmitTask, CloseSupersededPR, TransitionTask, boardVars
  <2>5. ASSUME NEW m \in Mergers, MergeRun(m) PROVE Goal
    <3>1. ASSUME Advance(m) \/ Bounce(m) PROVE Goal
      <4>1. Parent(m) \in Tasks
        BY <3>1 DEF Types, BoardTypes, RowTypes, MergerTypes, Advance, Bounce, At, Parent
      <4> QED BY <2>1, <2>2, <3>1, <4>1 DEF Advance, Bounce, TransitionTask
    <3> QED BY <2>1, <2>5, <3>1 DEF MergeRun
  <2>6. ASSUME \/ \E m \in Mergers : Crash(m) \/ \E i \in RowIds : MergeClaim(m, i)
               \/ \E i \in RowIds : LeaseLapses(i)
               \/ \E p \in PRs : PeopleStep(p)
               \/ Reconcile \/ ListTasks \/ TakeTask \/ QuotaFloor \/ GetPRState \/ GetReviewDecision
               \/ Restart \/ Tombstone \/ ClosePR \/ Tick \/ UNCHANGED vars
        PROVE  Goal
    BY <2>1, <2>6 DEF MergeClaim, Crash, LeaseLapses, PeopleStep, People, Review, Reconcile, ListTasks,
      TakeTask, QuotaFloor, GetPRState, GetReviewDecision, Restart, Tombstone, ClosePR, Tick, vars1, vars, boardVars
  <2>7. ASSUME Act PROVE Goal
    <3>1. It \in Tasks
      BY <2>7 DEF Types, WatcherTypes, WatchOK, Act, It, Entries
    <3> QED BY <2>1, <2>2, <2>7, <3>1 DEF Act
  <2>8. Goal
    BY <2>3, <2>4, <2>5, <2>6, <2>7 DEF Next, Board, MergeAgent, Watcher
  <2> QED BY <2>8 DEF Goal
<1>2. ~Asks => \A p \in PRs :
        \/ pr'[p].decision = pr[p].decision /\ pr'[p].reviewed = pr[p].reviewed
        \/ pr'[p].decision # "changes_requested" /\ pr'[p].reviewed = now
  <2> DEFINE Goal == \A p \in PRs :
        \/ pr'[p].decision = pr[p].decision /\ pr'[p].reviewed = pr[p].reviewed
        \/ pr'[p].decision # "changes_requested" /\ pr'[p].reviewed = now
  <2> USE DEF Types, BoardTypes, PullTypes, PullFields
  <2>1. ASSUME pr' = pr PROVE Goal
    BY <2>1
  <2>2. ASSUME NEW p \in PRs, NEW s, pr' = [pr EXCEPT ![p].state = s] PROVE Goal
    BY <2>2
  <2>3. ASSUME NEW p \in PRs, NEW b, pr' = [pr EXCEPT ![p].conflicts = b] \/ pr' = [pr EXCEPT ![p].found = b] PROVE Goal
    BY <2>3
  <2>4. ASSUME NEW p \in PRs, NEW d, d # "changes_requested",
               pr' = [pr EXCEPT ![p] = [@ EXCEPT !.decision = d, !.reviewed = now]]
        PROVE  Goal
    BY <2>4
  <2>5. ASSUME NEW p \in PRs, NEW s, NEW b, pr' = [pr EXCEPT ![p] = [@ EXCEPT !.state = s, !.conflicts = b]] PROVE Goal
    BY <2>5
  <2> HIDE DEF Goal, Types, BoardTypes, PullTypes, PullFields
  <2>6. ASSUME NEW t \in Tasks, ClaimTask(t) PROVE Goal
    <3>1. PICK p \in PRs : pr' = IF pr[p].state \in {"none", "open"}
                                THEN [pr EXCEPT ![p] = [@ EXCEPT !.state = "open", !.conflicts = FALSE]] ELSE pr
      BY <2>6 DEF ClaimTask, OpenPRs
    <3> QED BY <2>1, <2>5, <3>1
  <2>7. ASSUME NEW t \in Tasks, CloseSupersededPR(t) PROVE Goal
    <3>1. \A l \in FirstLink(t) : l.pr \in PRs
      BY FirstLinks
    <3> QED BY <2>2, <2>7, <3>1 DEF CloseSupersededPR
  <2>8. ASSUME NEW t \in Tasks, Approve(t) \/ Reject(t) \/ Operate(t) \/ \E p \in PRs : SubmitTask(t, p) PROVE Goal
    BY <2>1, <2>8 DEF Approve, Reject, Operate, SubmitTask
  <2>9. ASSUME MergeAgent PROVE Goal
    <3>1. ASSUME NEW m \in Mergers, Squash(m) PROVE Goal
      <4>1. merger[m].pr \in PRs
        BY DEF Types, MergerTypes
      <4> QED BY <2>1, <2>2, <3>1, <4>1 DEF Squash
    <3> QED BY <2>1, <2>9, <3>1 DEF MergeAgent, MergeRun, Crash, MergeClaim, LeaseLapses
  <2>10. ASSUME NEW p \in PRs, PeopleStep(p), ~Asks PROVE Goal
    <3>1. CASE Reviews(p)
      <4>1. PICK decision : pr' = [pr EXCEPT ![p] = [@ EXCEPT !.decision = decision, !.reviewed = now]]
        BY <3>1 DEF Reviews, Review
      <4>2. decision # "changes_requested"
        BY <2>10, <3>1, <4>1, ReviewsAsk
      <4> QED BY <2>4, <4>1, <4>2
    <3>2. CASE People(p)
      BY <2>2, <2>3, <3>2 DEF People
    <3> QED BY <2>10, <3>1, <3>2 DEF PeopleStep, Reviews
  <2>11. ASSUME Reconcile \/ ListTasks \/ TakeTask \/ QuotaFloor \/ GetPRState \/ GetReviewDecision
                \/ Restart \/ Act \/ Tombstone \/ Tick \/ UNCHANGED vars
         PROVE  Goal
    BY <2>1, <2>11 DEF Reconcile, ListTasks, TakeTask, QuotaFloor, GetPRState, GetReviewDecision, Restart, Act,
      Tombstone, Tick, vars1, vars
  <2>12. ASSUME ClosePR PROVE Goal
    <3>1. watch.pr \in PRs
      BY DEF Types, WatcherTypes, WatchOK
    <3> QED BY <2>1, <2>2, <2>12, <3>1 DEF ClosePR
  <2>13. ~Asks => Goal
    BY <2>6, <2>7, <2>8, <2>9, <2>10, <2>11, <2>12 DEF Next, Board, Watcher
  <2> QED BY <2>13 DEF Goal
<1> QED BY <1>1, <1>2

LEMMA AnswersLeave ==
  ASSUME Types, [Next]_vars, Answers
  PROVE  watch'.pc = "list"
<1>1. bounces' # bounces
  <2>1. It \in Tasks /\ bounces \in [Tasks -> Nat]
    BY DEF Types, WatcherTypes, WatchOK, Answers, It, Entries
  <2> HIDE DEF It
  <2> QED BY <2>1 DEF Answers
<1>2. Act
  BY <1>1 DEF Next, Watcher, PeopleStep, vars, history
<1>3. Leaves
  BY <1>2, Skips DEF Act, Skip
<1> QED BY <1>3 DEF Leaves

\* A list is read in a step that changes no row.
LEMMA ListsKeepTasks ==
  ASSUME Types, [Next]_vars, ~(watch'.list \subseteq watch.list)
  PROVE  task' = task
<1>1. Skip /\ watch.pc # "rest" => Leaves
  BY Skips DEF Skip
<1>2. Act => watch'.list \subseteq watch.list
  BY <1>1 DEF Act, Leaves
<1> QED BY <1>2 DEF Next, Watcher, PeopleStep, vars, watchVars, Reconcile, ListTasks, TakeTask, QuotaFloor, GetPRState,
     GetReviewDecision, ClosePR, Tombstone, Restart, vars1, boardVars

LEMMA ReviewsKept ==
  ASSUME Types, ReviewsInv, [Next]_vars
  PROVE  ReviewsInv'
<1>0. /\ now \in Nat /\ now' \in Nat /\ now' >= now /\ UNCHANGED env
      /\ \A t \in Tasks : task[t].updated \in Nat /\ task'[t].updated \in Nat
      /\ \A p \in PRs : pr[p].reviewed \in Nat /\ pr'[p].reviewed \in Nat /\ TaskOf(p) \in Tasks
      /\ bounces \in [Tasks -> Nat] /\ reviews \in [Tasks -> Nat]
      /\ bounces' \in [Tasks -> Nat] /\ reviews' \in [Tasks -> Nat]
      /\ watch.list \subseteq Entries /\ (~Rests => watch.listed \in Entries /\ It \in Tasks)
      /\ ~Rests => \A e \in watch.list : e.task # It
  BY TypesKept, PRConstants, LinkTypesKept, TaskTypesKept, Counters
     DEF Types, BoardTypes, TaskTypes, PullTypes, WatcherTypes, WatchOK, TaskOf, Rests, It, Entries
<1>1. (\A t \in Tasks : task'[t].updated <= now') /\ \A p \in PRs : pr'[p].reviewed <= now'
  <2>1. \A t \in Tasks : task'[t].updated <= now'
    BY <1>0, Stamped DEF ReviewsInv
  <2>2. CASE Asks
    <3>1. \A p \in PRs : pr'[p].reviewed \in {pr[p].reviewed, now}
      BY <2>2 DEF Asks, Types, BoardTypes, PullTypes, PullFields
    <3> QED BY <1>0, <2>1, <3>1 DEF ReviewsInv
  <2>3. CASE ~Asks
    BY <1>0, <2>1, <2>3, Stamped DEF ReviewsInv
  <2> QED BY <2>2, <2>3
\* Only an answer brings bounces closer to reviews, and only those of its own task.
<1>2. ASSUME NEW t \in Tasks, NEW time \in Nat, Unanswered(t, time), ~Answers \/ t # It
      PROVE  Unanswered(t, time)'
  <2>1. CASE Asks
    <3>1. PICK p \in PRs : /\ pr' = [pr EXCEPT ![p] = [@ EXCEPT !.decision = "changes_requested", !.reviewed = now]]
                          /\ reviews' = [reviews EXCEPT ![TaskOf(p)] = @ + 1] /\ bounces' = bounces
      BY <2>1 DEF Asks
    <3>2. CASE TaskOf(p) = t
      <4>1. bounces'[t] < reviews'[t]
        BY <1>0, <3>1, <3>2 DEF ReviewsInv, BouncesAnswerReviews
      <4> QED BY <4>1 DEF Unanswered
    <3>3. CASE TaskOf(p) # t
      <4>1. /\ \A q \in PRs : TaskOf(q) = t => pr'[q] = pr[q]
            /\ reviews'[t] = reviews[t] /\ bounces'[t] = bounces[t]
        BY <1>0, <3>1, <3>3 DEF Types, BoardTypes, PullTypes
      <4> QED BY <1>0, <1>2, <4>1 DEF Unanswered, TaskOf
    <3> QED BY <3>2, <3>3
  <2>2. CASE Answers
    <3>1. pr' = pr /\ reviews' = reviews /\ bounces'[t] = bounces[t]
      BY <1>0, <1>2, <2>2 DEF Answers
    <3> QED BY <1>0, <1>2, <3>1 DEF Unanswered, TaskOf
  <2>3. CASE ~Asks /\ ~Answers
    <3>1. bounces' = bounces /\ reviews' = reviews
      BY <2>3, Counted DEF history
    <3>2. \A p \in PRs : pr'[p].decision = "changes_requested" =>
            pr[p].decision = "changes_requested" /\ pr'[p].reviewed = pr[p].reviewed
      BY <2>3, Stamped
    <3> QED BY <1>0, <1>2, <3>1, <3>2 DEF Unanswered, TaskOf
  <2> QED BY <2>1, <2>2, <2>3
\* A bounce writes the row after whatever has been asked for so far.
<1>3. \A t \in Tasks : Unanswered(t, task[t].updated)'
  <2>1. ASSUME NEW t \in Tasks, NEW p \in PRs, TaskOf(p)' = t,
               pr'[p].decision = "changes_requested", pr'[p].reviewed > task'[t].updated
        PROVE  bounces'[t] < reviews'[t]
    <3>1. CASE Answers /\ t = It
      <4>1. task'[t].updated = now
        BY <1>0, <3>1 DEF Answers, Moved, Types, BoardTypes, TaskTypes, TaskFields
      <4>2. pr'[p].reviewed <= now
        BY <3>1 DEF Answers, ReviewsInv
      <4> QED BY <1>0, <2>1, <4>1, <4>2
    <3>2. CASE ~Answers \/ t # It
      <4>1. CASE task'[t].updated = task[t].updated
        <5>1. Unanswered(t, task[t].updated)
          BY DEF ReviewsInv
        <5>2. PICK time \in Nat : time = task[t].updated
          BY <1>0
        <5>3. Unanswered(t, time)'
          BY <1>2, <3>2, <5>1, <5>2
        <5> QED BY <2>1, <4>1, <5>2, <5>3 DEF Unanswered
      <4>2. CASE task'[t].updated = now /\ task[t].updated <= now
        <5>1. Unanswered(t, now)
          BY <1>0, <4>2 DEF Unanswered, ReviewsInv
        <5>2. PICK time \in Nat : time = now
          BY <1>0
        <5>3. Unanswered(t, time)'
          BY <1>2, <3>2, <5>1, <5>2
        <5> QED BY <2>1, <4>2, <5>2, <5>3 DEF Unanswered
      <4> QED BY <4>1, <4>2, Stamped DEF ReviewsInv
    <3> QED BY <3>1, <3>2
  <2> QED BY <1>0, <2>1 DEF Unanswered
<1>4. BouncesAnswerReviews'
  <2>1. ASSUME NEW t \in Tasks PROVE bounces'[t] <= reviews'[t]
    <3>1. CASE Asks
      BY <1>0, <3>1 DEF Asks, ReviewsInv, BouncesAnswerReviews
    <3>2. CASE Answers
      <4>1. bounces[It] < reviews[It] /\ It \in Tasks
        BY <1>0, <3>2 DEF Answers, ReviewsInv, Rests
      <4>2. bounces' = [bounces EXCEPT ![It] = @ + 1] /\ reviews' = reviews
        BY <3>2 DEF Answers
      <4> HIDE DEF It
      <4> QED BY <1>0, <4>1, <4>2 DEF ReviewsInv, BouncesAnswerReviews
    <3>3. CASE UNCHANGED history
      BY <3>3 DEF history, ReviewsInv, BouncesAnswerReviews
    <3> QED BY <3>1, <3>2, <3>3, Counted
  <2> QED BY <2>1 DEF BouncesAnswerReviews
<1>5. \A e \in watch'.list : Unanswered(e.task, e.updated)'
  <2>1. ASSUME NEW e \in watch.list, e \in watch'.list PROVE Unanswered(e.task, e.updated)'
    <3>1. PICK t \in Tasks, time \in Nat : t = e.task /\ time = e.updated
      BY <1>0 DEF Entries
    <3>2. Unanswered(t, time) 
      BY <3>1 DEF ReviewsInv
    <3>3. ~Answers \/ t # It
      BY <1>0, <3>1 DEF Answers, Rests
    <3>4. Unanswered(t, time)'
      BY <1>2, <3>2, <3>3
    <3> QED BY <3>1, <3>4 DEF Unanswered
  <2>2. CASE watch'.list \subseteq watch.list
    BY <2>1, <2>2
  <2>3. ASSUME NEW w, DOMAIN w = WatchFields, w.since \in Nat, w.pr \in PRs, watch' = ListAfter(w), task' = task
        PROVE  \A e \in watch'.list : Unanswered(e.task, e.updated)'
    <3>1. ASSUME NEW e \in watch'.list PROVE Unanswered(e.task, e.updated)'
      <4>1. e \in Entries /\ e.updated = task[e.task].updated
        BY <2>3, <3>1, Lists DEF FreshList, WatchOK
      <4>2. PICK t \in Tasks : t = e.task
        BY <4>1 DEF Entries
      <4>3. Unanswered(t, task[t].updated)'
        BY <1>3
      <4> QED BY <2>3, <4>1, <4>2, <4>3 DEF Unanswered
    <3> QED BY <3>1
  <2>4. CASE watch' = Resting
    BY <2>4 DEF Resting
  <2> QED BY <2>2, <2>3, <2>4, WatcherSteps, ListsKeepTasks DEF WatcherMoves, watchVars, Takes, Leaves, GoesOn
<1>6. /\ ~Rests' => TaskOf(watch.pr)' = It' /\ Unanswered(It, watch.listed.updated)'
      /\ watch'.pc = "act" /\ watch'.action = "bounce" => (bounces[It] < reviews[It])'
  <2>1. CASE watch' = watch /\ ~Rests
    <3>1. PICK t \in Tasks, time \in Nat : t = It /\ time = watch.listed.updated
      BY <1>0, <2>1 DEF Entries
    <3>2. ~Answers
      BY <1>0, <2>1, AnswersLeave DEF Rests
    <3>3. Unanswered(t, time)'
      BY <1>2, <2>1, <3>1, <3>2 DEF ReviewsInv
    <3>4. It' = It /\ TaskOf(watch.pr)' = TaskOf(watch.pr)
      BY <1>0, <2>1 DEF It, TaskOf
    <3>5. bounces[t] < reviews[t] => bounces'[t] < reviews'[t]
      <4>1. CASE Asks
        BY <1>0, <4>1 DEF Asks
      <4>2. CASE UNCHANGED history
        BY <4>2 DEF history
      <4> QED BY <3>2, <4>1, <4>2, Counted
    <3> QED BY <2>1, <3>1, <3>3, <3>4, <3>5 DEF ReviewsInv, Unanswered
  <2>2. CASE watch'.pc \in {"rest", "list"}
    BY <2>2 DEF Rests
  <2>3. CASE Takes
    <3>1. PICK e \in watch.list : \E l \in Followed(e.task) : watch'.listed = e /\ watch'.pr = l.pr
      BY <2>3 DEF Takes
    <3>2. PICK t \in Tasks, time \in Nat : t = e.task /\ time = e.updated
      BY <1>0 DEF Entries
    <3>3. TaskOf(watch'.pr) = t
      BY <3>1, <3>2, FollowedIsLinked
    <3>4. Unanswered(t, time) /\ ~Answers
      BY <2>3, <3>2, AnswersLeave DEF ReviewsInv, Takes
    <3>5. Unanswered(t, time)'
      BY <1>2, <3>4
    <3>6. It' = t /\ TaskOf(watch.pr)' = t /\ watch'.listed.updated = time
      BY <1>0, <3>1, <3>2, <3>3 DEF It, TaskOf
    <3> QED BY <2>3, <3>5, <3>6 DEF Takes, Unanswered
  <2>4. CASE GoesOn /\ Decides
    <3>1. PICK t \in Tasks, time \in Nat : t = It /\ time = watch.listed.updated
      BY <1>0, <2>4 DEF Entries, GoesOn
    <3>2. Unanswered(t, time) /\ ~Answers /\ TaskOf(watch.pr) = t
      BY <2>4, <3>1, AnswersLeave DEF ReviewsInv, GoesOn
    <3>3. Unanswered(t, time)'
      BY <1>2, <3>2
    <3>4. It' = t /\ TaskOf(watch.pr)' = t /\ watch'.listed.updated = time
      BY <1>0, <2>4, <3>1, <3>2 DEF It, TaskOf, GoesOn
    <3>5. ASSUME watch'.pc = "act", watch'.action = "bounce" PROVE bounces'[t] < reviews'[t]
      <4>1. watch.pr \in PRs
        BY DEF Types, WatcherTypes, WatchOK
      <4>2. bounces[t] < reviews[t]
        BY <2>4, <3>1, <3>2, <3>5, <4>1 DEF Decides, Unanswered
      <4>3. CASE Asks
        BY <1>0, <4>2, <4>3 DEF Asks
      <4>4. CASE UNCHANGED history
        BY <4>2, <4>4 DEF history
      <4> QED BY <3>2, <4>3, <4>4, Counted
    <3> QED BY <3>3, <3>4, <3>5 DEF Unanswered
  <2>5. watch' = watch \/ watch'.pc \in {"rest", "list"} \/ Takes \/ (GoesOn /\ Decides)
    BY WatcherSteps, Lists DEF WatcherMoves, watchVars, Leaves, Resting
  <2>6. CASE watch' = watch /\ Rests
    BY <2>6 DEF Rests
  <2> QED BY <2>1, <2>2, <2>3, <2>4, <2>5, <2>6
<1> QED BY <1>1, <1>3, <1>4, <1>5, <1>6 DEF ReviewsInv, Unanswered, Rests, It

\* However its passes interleave with people, writes of the row and restarts, the watcher
\* sends a task back at most as often as reviews came in while changes were requested.
THEOREM BouncesAnswerReviewsAlways == Spec => []BouncesAnswerReviews
<1>1. Init => ReviewsInv
  <2> SUFFICES ASSUME Init PROVE ReviewsInv
    OBVIOUS
  <2>1. \A p \in PRs : pr[p].decision = "pending" /\ pr[p].reviewed = 0
    BY DEF Init, PRInit
  <2>2. (\A t \in Tasks : task[t].updated = 0 /\ bounces[t] = 0 /\ reviews[t] = 0) /\ now = 0
    BY DEF Init, PRInit
  <2>3. watch.pc = "rest" /\ watch.list = {}
    BY DEF Init, Resting
  <2> QED BY <2>1, <2>2, <2>3 DEF ReviewsInv, BouncesAnswerReviews, Rests, Unanswered
<1>2. ReviewsInv => BouncesAnswerReviews
  BY DEF ReviewsInv
<1> QED BY <1>1, <1>2, InitTypes, TypesKept, ReviewsKept, PTL DEF Spec
=============================================================================
