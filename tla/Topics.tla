------------------------------- MODULE Topics -------------------------------
(***************************************************************************)
(* Topics of the work queue: the task rows that belong to one piece of      *)
(* work, the priority they share (internal/store/priority.go), and the      *)
(* continuation children a research task brings into its topic when it is   *)
(* merged (InsertManifestChildren, continuation_info.go).                   *)
(*                                                                         *)
(* An operation is one transaction of the store, as in Board; a refusal is  *)
(* a disabled action.  Board and ResearchRounds decide review rounds; here  *)
(* a round that is full may have any outcome of theirs, since every row an  *)
(* outcome inserts has to find its topic.  A digest is the manifest itself. *)
(***************************************************************************)
EXTENDS Manifests

CONSTANTS
  Environments,        \* by name: what is created, submitted, decided and asked for
  DefaultPriority,     \* 500
  MaxManualPriority,   \* 1000
  MaxPriority,         \* the largest int64
  None,                \* no manifest, no origin
  MaxTasks, MaxRound   \* bounds of the model

ASSUME TopicsConstants ==
  /\ MaxManualPriority \in Nat /\ DefaultPriority \in 1..MaxManualPriority
  /\ MaxPriority \in Nat /\ MaxManualPriority < MaxPriority
  /\ MaxTasks \in Nat /\ MaxRound \in Nat
  /\ \A e \in DOMAIN Environments :
       /\ Environments[e].rows \in 0..MaxTasks
       /\ None \notin Environments[e].offers
       /\ \A m \in Environments[e].offers :
            /\ m.children \in Seq(ToSet(m.children))
            /\ \A c \in Children(m) : \A f \in ToSet(c.files) : f \in Seq(ToSet(f))
            /\ \A p \in 1..MaxTasks, k \in KeysOf(m) :
                 None # [parent |-> p, key |-> k, digest |-> m]

VARIABLES
  env,       \* the name of the environment, which stays
  used,      \* rows 1..used have been inserted, in this order
  task,      \* the task table
  manifest,  \* task_submission_manifest: what a task submitted in a round
  ledger     \* priority_action, in the order of its transactions

vars == <<env, used, task, manifest, ledger>>

TaskIds == 1..MaxTasks
Rows == 1..used
Finished == {"done", "failed", "abandoned", "superseded"}
Active == {"backlog", "ready", "in_progress", "review", "approved"}

Here == Environments[env]
Room == Here.rows   \* the bound of the model on used

\* origin is the continuation_parent and continuation_child_dedup link of a child,
\* followUpOf the research_parent link of a review-finding follow-up, 0 is NULL; replaces
\* is a history field, the row a replacement was made for.
Blank == [kind |-> "implement", state |-> "absent", target |-> 0, round |-> 0,
          successor |-> 0, origin |-> None, followUpOf |-> 0, optsIn |-> FALSE,
          archived |-> FALSE, held |-> FALSE, priority |-> DefaultPriority, deps |-> {},
          replaces |-> 0]

Init ==
  /\ env \in DOMAIN Environments
  /\ used = 0
  /\ task = [t \in TaskIds |-> Blank]
  /\ manifest = [t \in TaskIds |-> [r \in 1..MaxRound |-> None]]
  /\ ledger = <<>>

\* The table tk with the rows of a sequence inserted after the last one.
Insert(tk, rows) ==
  [t \in TaskIds |-> IF t - used \in DOMAIN rows THEN rows[t - used] ELSE tk[t]]

-----------------------------------------------------------------------------
(* Lineage *)

\* lineageParentSQL: the target of a review or merge row, else the first row it
\* supersedes, else the parent it continues.
Superseded(t) == {o \in Rows \ {t} : task[o].successor = t}
Parents(t) ==
  IF task[t].target # 0 THEN {task[t].target}
  ELSE IF Superseded(t) # {} THEN {Min(Superseded(t))}
  ELSE IF task[t].origin # None THEN {task[t].origin.parent}
  ELSE {}

\* root: the rows on the way up from t, and the one without a parent; t itself if the
\* way leads round in a circle.
WayUp(t) ==
  LET W[n \in 0..used] ==
        LET below == IF n = 0 THEN {t} ELSE W[n - 1]
        IN  below \cup UNION {Parents(x) : x \in below}
  IN  W[used]
Root(t) ==
  LET tops == {x \in WayUp(t) : Parents(x) = {}}
  IN  IF tops = {} THEN t ELSE CHOOSE x \in tops : TRUE
Members(a) == {t \in Rows : a \in WayUp(t)}

\* effectiveTaskPriority: what a row shows, and what its spawn inherits.
Effective(t) == task[Root(t)].priority

Outstanding == {Root(t) : t \in {x \in Rows : ~task[x].archived /\ task[x].state \notin Finished}}

\* The order in which ListTasks gives rows to workers and people.  Rows of one
\* transaction are in the order of their random ids, which no property looks at.
ListedBefore(t, u) ==
  Effective(t) > Effective(u) \/ (Effective(t) = Effective(u) /\ t < u)

-----------------------------------------------------------------------------
(* Priority actions *)

Request(e) == [key |-> e.key, action |-> e.action, task |-> e.task, asked |-> e.asked]

Highest == Max({task[a].priority : a \in Outstanding} \cup {0})
FrontOfQueue == Highest + 1
FrontPriority == Max({MaxManualPriority, Highest}) + 1

\* applyPriorityAction of a key that is new: one value for the whole topic.
Apply(q) ==
  LET a == Root(q.task)
      p == IF q.action = "front" THEN FrontPriority ELSE q.asked
  IN /\ ~task[q.task].archived
     /\ q.action = "front" => a \in Outstanding /\ Highest < MaxPriority
     /\ task' = [t \in TaskIds |-> IF t \in Members(a) THEN [task[t] EXCEPT !.priority = p]
                                   ELSE task[t]]
     /\ ledger' = Append(ledger,
          [key |-> q.key, action |-> q.action, task |-> q.task, asked |-> q.asked,
           anchor |-> a, old |-> task[a].priority, new |-> p,
           asleep |-> {Root(t) : t \in Rows} \ Outstanding])   \* a history field
     /\ UNCHANGED <<env, used, manifest>>

\* A key that was used before answers what it answered then, or is refused.
Recorded(key) == {i \in DOMAIN ledger : ledger[i].key = key}
Perform(q) ==
  IF Recorded(q.key) # {}
  THEN (\E i \in Recorded(q.key) : Request(ledger[i]) = q) /\ UNCHANGED vars
  ELSE Apply(q)

SetPriority(key, t, p) ==
  /\ p \in 1..MaxManualPriority
  /\ Perform([key |-> key, action |-> "set", task |-> t, asked |-> p])
MoveToFront(key, t) ==
  Perform([key |-> key, action |-> "front", task |-> t, asked |-> 0])

-----------------------------------------------------------------------------
(* Rows come to the board *)

\* POST /tasks: the default priority, or a manual one.
CreateTask(p, optsIn) ==
  /\ used < Room /\ p \in 1..MaxManualPriority
  /\ used' = used + 1
  /\ task' = Insert(task, <<[Blank EXCEPT !.state = "backlog", !.priority = p, !.optsIn = optsIn]>>)
  /\ UNCHANGED <<env, manifest, ledger>>

\* supersedeTaskTx
Replace(tk, p, first) ==
  LET n == used + 1
      moved == [t \in TaskIds |-> IF p \in tk[t].deps
                 THEN [tk[t] EXCEPT !.deps = (@ \ {p}) \cup {n}] ELSE tk[t]]
      heir == [Blank EXCEPT !.kind = tk[p].kind, !.state = first, !.optsIn = tk[p].optsIn,
                            !.priority = Effective(p), !.deps = tk[p].deps, !.replaces = p]
  IN /\ tk[p].state \notin Finished /\ n <= Room
     /\ used' = n
     /\ task' = Insert([moved EXCEPT ![p].state = "superseded", ![p].successor = n], <<heir>>)

\* A row that works for p: a review, an adjudication (a review that rules on a finding
\* and is not counted in the round) or a merge.
SpawnAtDefault(p, k) ==
  [Blank EXCEPT !.kind = k, !.state = "ready", !.target = p,
                !.round = IF k = "merge" THEN 0 ELSE task[p].round]
Spawn(p, k) ==
  [Blank EXCEPT !.kind = k, !.state = "ready", !.target = p, !.priority = Effective(p),
                !.round = IF k = "merge" THEN 0 ELSE task[p].round]
\* A follow-up of a finding is a topic of its own.
FollowUp(p) == [Blank EXCEPT !.state = "backlog", !.followUpOf = p]

\* submitTask of work: its manifest is checked, a round begins, a review is asked for.
Submit(t, m) ==
  LET r == task[t].round + 1
      tk == [task EXCEPT ![t].state = "review", ![t].round = r]
  IN /\ task[t].state = "in_progress" /\ task[t].kind = "implement"
     /\ m # None => task[t].optsIn /\ m.parent = t /\ Valid(m)
     /\ r <= MaxRound /\ used < Room
     /\ used' = used + 1
     /\ task' = Insert(tk, <<[Spawn(t, "review") EXCEPT !.round = r]>>)
     /\ manifest' = [manifest EXCEPT ![t][r] = m]
     /\ UNCHANGED <<env, ledger>>

\* What becomes of p, in the table tk, when its round is full.
Settle(tk, p, outcome) ==
  \/ /\ outcome \in {"approved", "done", "ready", "blocked"}
     /\ task' = [tk EXCEPT ![p].state = outcome] /\ UNCHANGED used
  \/ /\ outcome \in {"merge", "follow_up"} /\ used < Room
     /\ used' = used + 1
     /\ task' = Insert([tk EXCEPT ![p].state = "approved"],
                       <<IF outcome = "merge" THEN Spawn(p, "merge") ELSE FollowUp(p)>>)
  \/ /\ outcome = "adjudicate" /\ used < Room
     /\ used' = used + 1 /\ task' = Insert(tk, <<Spawn(p, "adjudication")>>)
  \/ outcome = "escalate" /\ Replace(tk, p, "ready")

RoundFull(tk, p) ==
  \A c \in Rows : tk[c].kind = "review" /\ tk[c].target = p /\ tk[c].round = tk[p].round =>
    tk[c].state \in {"done", "abandoned"}

\* submitTask of a review or an adjudication, at whatever time it comes.
Vote(c, outcome) ==
  LET p == task[c].target
      tk == [task EXCEPT ![c].state = "done"]
      decided == /\ ~task[p].held /\ RoundFull(tk, p)
                 /\ task[p].state \notin {"failed", "blocked", "abandoned"}
  IN /\ task[c].state = "in_progress" /\ task[c].kind \in {"review", "adjudication"}
     /\ IF p # 0 /\ decided THEN Settle(tk, p, outcome) ELSE task' = tk /\ UNCHANGED used
     /\ UNCHANGED <<env, manifest, ledger>>

-----------------------------------------------------------------------------
(* Continuation children *)

\* The manifest of the round that was approved.
Planned(p) == IF task[p].round = 0 THEN None ELSE manifest[p][task[p].round]

\* The rows made of a child of m before, if any: by parent, key and digest.
MadeNever(p, m, k) == {}
Made(p, m, k) ==
  {t \in Rows : task[t].origin # None /\ task[t].origin = [parent |-> p, key |-> k, digest |-> m]}

InitialState(track) == IF track = "research" THEN "ready" ELSE "backlog"

\* InsertManifestChildren: the children of m that are not made yet, in its order.  A
\* reference to no task, and an edge listed twice, fail the whole transaction.
Fresh(p, m) ==
  LET F[n \in 0..Len(m.children)] ==
        IF n = 0 THEN <<>>
        ELSE IF Made(p, m, m.children[n].key) = {} THEN Append(F[n - 1], m.children[n])
        ELSE F[n - 1]
  IN  F[Len(m.children)]
IdOf(p, m, k) ==
  LET fresh == Fresh(p, m)
      new == {i \in DOMAIN fresh : fresh[i].key = k}
  IN  IF new = {} THEN Min(Made(p, m, k)) ELSE used + Min(new)
Edge(p, m, d) == IF d.kind = "child" THEN IdOf(p, m, d.ref) ELSE d.ref
Edges(p, m, c) == [i \in DOMAIN c.deps |-> Edge(p, m, c.deps[i])]
Insertable(p, m) ==
  /\ Valid(m)
  /\ \A c \in ToSet(Fresh(p, m)) :
       /\ \A d \in ToSet(c.deps) : d.kind = "task" => d.ref \in Rows
       /\ IsInjective(Edges(p, m, c))
ChildRow(p, m, c) ==
  [Blank EXCEPT !.state = InitialState(c.track), !.priority = Effective(p),
                !.origin = [parent |-> p, key |-> c.key, digest |-> m],
                !.deps = ToSet(Edges(p, m, c))]
InsertChildren(tk, p, m) ==
  LET fresh == Fresh(p, m)
  IN /\ Insertable(p, m)
     /\ used + Len(fresh) <= Room
     /\ used' = used + Len(fresh)
     /\ task' = Insert(tk, [i \in DOMAIN fresh |-> ChildRow(p, m, fresh[i])])

MayMove(from, to, k) ==
  \/ to = "done" /\ (from = "approved" \/ (from = "in_progress" /\ k = "merge"))
  \/ to = "ready" /\ from \in {"approved", "blocked"}
  \/ to \in {"blocked", "superseded"} /\ from \in Active
  \/ to = "failed" /\ from \in Active \cup {"blocked"}
  \/ to = "abandoned" /\ from = "approved"

\* transitionTask: approved work that is merged brings its children with it, or stays.
Continues(t, to) ==
  to = "done" /\ task[t].state = "approved" /\ task[t].optsIn /\ Planned(t) # None
TransitionTask(t, to) ==
  LET tk == [task EXCEPT ![t].state = to]
  IN /\ MayMove(task[t].state, to, task[t].kind)
     /\ IF Continues(t, to) THEN InsertChildren(tk, t, Planned(t))
        ELSE task' = tk /\ UNCHANGED used
     /\ UNCHANGED <<env, manifest, ledger>>

\* The watcher found the pull request merged outside the board: no children.
Converge(t) ==
  LET unvoted(c) == task[c].kind \in {"review", "adjudication"} /\ task[c].target = t
                    /\ task[c].round = task[t].round
                    /\ task[c].state \notin {"done", "abandoned"}
  IN /\ task[t].state \in {"ready", "in_progress", "review", "blocked", "approved"}
     /\ task' = [x \in TaskIds |-> IF x = t THEN [task[t] EXCEPT !.state = "done"]
                                   ELSE IF unvoted(x) THEN [task[x] EXCEPT !.state = "abandoned"]
                                   ELSE task[x]]
     /\ UNCHANGED <<env, used, manifest, ledger>>

-----------------------------------------------------------------------------
(* Other operations on a row *)

Promote(t) ==
  /\ task[t].state = "backlog"
  /\ task' = [task EXCEPT ![t].state = "ready"] /\ UNCHANGED <<env, used, manifest, ledger>>

\* claimableSQL; leases are Board's.
Claimable(t) ==
  /\ task[t].state = "ready" /\ ~task[t].held
  /\ \A d \in task[t].deps : task[d].state = "done"
Claim(t) ==
  /\ Claimable(t)
  /\ task' = [task EXCEPT ![t].state = "in_progress"] /\ UNCHANGED <<env, used, manifest, ledger>>

SupersedeTask(t) ==
  Replace(task, t, "backlog") /\ UNCHANGED <<env, manifest, ledger>>

\* Archiving and holding are orthogonal to the state.
Archive(t, b) ==
  /\ task' = [task EXCEPT ![t].archived = b] /\ UNCHANGED <<env, used, manifest, ledger>>
Hold(t, b) ==
  /\ task' = [task EXCEPT ![t].held = b] /\ UNCHANGED <<env, used, manifest, ledger>>

-----------------------------------------------------------------------------
(* The view of a continuation *)

CreatedChildren(p) == {t \in Rows : task[t].origin # None /\ task[t].origin.parent = p}

ProposedStatus(p, k) ==
  IF \E t \in CreatedChildren(p) : task[t].origin.key = k /\ task[t].origin.digest = Planned(p)
  THEN "created"
  ELSE IF task[p].state \in {"done", "failed"} THEN "not_created" ELSE "pending"

BlockedBy(c) == {d \in task[c].deps : task[d].state # "done"}
DependencyStatus(c) ==
  IF task[c].deps = {} THEN "none" ELSE IF BlockedBy(c) = {} THEN "satisfied" ELSE "blocked"
ShownClaimable(c) == task[c].state = "ready" /\ ~task[c].held /\ BlockedBy(c) = {}

\* What an operator has to replace or retarget by hand.
Unsettled(t) ==
  task[t].state \notin {"done", "failed"} /\ ~task[t].archived /\ task[t].successor = 0
HeldFollowUps(p) ==
  {t \in Rows : task[t].followUpOf = p /\ Unsettled(t) /\ (task[t].held \/ task[t].state = "backlog")}
HeldDependents(p) ==
  {t \in Rows : /\ p \in task[t].deps /\ task[t].kind = "implement"
                /\ task[t].held /\ Unsettled(t) /\ t \notin CreatedChildren(p)}
ActionItems(p) ==
  IF Planned(p) # None \/ CreatedChildren(p) # {} THEN HeldFollowUps(p) \cup HeldDependents(p) ELSE {}

-----------------------------------------------------------------------------
(* The board and those who use it *)

\* What is created stands in the environment, in the order of creation.
Created == Cardinality({t \in Rows : Parents(t) = {} /\ task[t].followUpOf = 0})
Create ==
  /\ Created < Len(Here.inputs)
  /\ \E p \in Here.inputs[Created + 1].priorities :
       CreateTask(p, Here.inputs[Created + 1].optsIn)

Ask ==
  \E t \in Rows, key \in 1..Here.keys :
    /\ key <= Cardinality({e.key : e \in ToSet(ledger)}) + 1
    /\ \/ \E p \in Here.manual : SetPriority(key, t, p)
       \/ MoveToFront(key, t)

Operate(t) ==
  \/ Promote(t)
  \/ \E to \in Finished \cup {"ready", "blocked"} :
       <<task[t].state, to>> \in Here.moves /\ TransitionTask(t, to)
  \/ "converge" \in Here.doings /\ task[t].kind = "implement" /\ Converge(t)
  \/ "supersede" \in Here.doings /\ SupersedeTask(t)
  \/ "archive" \in Here.doings /\ \E b \in BOOLEAN : Archive(t, b)
  \/ "hold" \in Here.doings /\ \E b \in BOOLEAN : Hold(t, b)

\* Nobody can name a task that is yet to come: its id is random.
Writable(m) ==
  \A c \in Children(m) : \A d \in ToSet(c.deps) : d.kind = "task" => d.ref \in Rows \cup {0}

Work(t) ==
  \/ Claim(t)
  \/ \E m \in Here.offers \cup {None} : (m # None => Writable(m)) /\ Submit(t, m)
  \/ \E outcome \in Here.outcomes : Vote(t, outcome)

Next == Create \/ Ask \/ \E t \in Rows : Operate(t) \/ Work(t)

Spec == Init /\ [][Next]_vars

-----------------------------------------------------------------------------
(* Properties *)

\* Every row of a topic, whenever and by whatever operation it came to be, has the
\* priority the last action on the topic gave it, or before any action the one the
\* topic was created with, and the actions on a topic read each other's result:
\* reshapeOpenReviewRound hands on the row's own column and everything else the
\* anchor's, so they must never differ.  A key is recorded once, whatever is retried.
\* Left out are replacements that lost their topic: a late vote brought the row they
\* replace back, and it was superseded again, which overwrites superseded_by.
Strays == {t \in Rows : task[t].replaces # 0 /\ task[task[t].replaces].successor # t}
LedgerExplainsPriority ==
  /\ \A i, j \in DOMAIN ledger :
       i < j => /\ ledger[i].key # ledger[j].key
                /\ ledger[i].anchor = ledger[j].anchor
                   /\ (\A k \in i + 1..j - 1 : ledger[k].anchor # ledger[i].anchor)
                     => ledger[j].old = ledger[i].new
  /\ \A t \in {x \in Rows : Root(x) \notin Strays} :
       LET asked == {i \in DOMAIN ledger : ledger[i].anchor = Root(t)}
       IN  IF asked = {} THEN task[t].priority = Effective(t) /\ Effective(t) <= MaxManualPriority
           ELSE task[t].priority = ledger[Max(asked)].new

\* A topic that was moved to the front, and not asked about since, is listed before
\* every other topic that has work left, until that one is moved to the front in its
\* turn: no manual priority, new task or spawned row overtakes it.  Topics that were
\* finished or archived at the time and came back are left out, and so are strays.
FrontIsFirst ==
  \A i \in DOMAIN ledger :
    LET later(a) == {j \in DOMAIN ledger : j > i /\ ledger[j].anchor = a}
        front == ledger[i].anchor
    IN  ledger[i].action = "front" /\ later(front) = {} =>
          \A t \in Members(front), u \in Rows \ Members(front) :
            /\ Root(u) \in Outstanding \ (ledger[i].asleep \cup Strays)
            /\ \A j \in later(Root(u)) : ledger[j].action = "set"
            => ListedBefore(t, u)

\* Children come whole: each child of a manifest once, all of them or none, only of
\* manifests their parent submitted in a round that is reviewed; the view of the
\* parent never shows a proposal half made; and where no pull request is merged behind
\* the board's back and no round ends without a change, a parent that opted in is not
\* done without them.
ChildrenAreWhole ==
  \A p \in Rows :
    LET shown == IF Planned(p) = None THEN {}
                 ELSE {ProposedStatus(p, k) : k \in KeysOf(Planned(p))}
    IN /\ \A c \in CreatedChildren(p) :
            LET m == task[c].origin.digest
            IN /\ \E r \in 1..task[p].round : manifest[p][r] = m
               /\ \A k \in KeysOf(m) :
                    Cardinality({t \in CreatedChildren(p) :
                      task[t].origin = [parent |-> p, key |-> k, digest |-> m]}) = 1
       /\ Cardinality(shown) <= 1
       /\ "converge" \notin Here.doings /\ "done" \notin Here.outcomes /\ task[p].state = "done"
            => shown \subseteq {"created"}

\* Children can be worked on at the same time and finished: those made of one manifest
\* share no claim and no path (two paths part at some name), no set of rows waits
\* for itself, and what the view of the parent shows as claimable is what a claim gets;
\* it calls for no repair by hand of rows that are the continuation's own or settled.
ChildrenFit ==
  /\ \A c, d \in Rows :
       /\ c # d /\ task[c].origin # None /\ task[d].origin # None
       /\ task[c].origin.parent = task[d].origin.parent
       /\ task[c].origin.digest = task[d].origin.digest
       => LET m == task[c].origin.digest
              x == ChildOf(m, task[c].origin.key)
              y == ChildOf(m, task[d].origin.key)
          IN /\ \A claim \in ToSet(x.claims) : claim \notin ToSet(y.claims)
             /\ \A f \in ToSet(x.files), g \in ToSet(y.files) :
                  \E i \in DOMAIN f \cap DOMAIN g : f[i] # g[i]
  /\ \A S \in SUBSET Rows : S # {} => \E t \in S : task[t].deps \cap S = {}
  /\ \A p \in Rows :
       /\ \A c \in CreatedChildren(p) :
            /\ ShownClaimable(c) <=> Claimable(c)
            /\ ShownClaimable(c) => DependencyStatus(c) # "blocked"
       /\ \A t \in ActionItems(p) : t \notin CreatedChildren(p) /\ task[t].state # "done"
=============================================================================
