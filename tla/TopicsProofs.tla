---------------------------- MODULE TopicsProofs -----------------------------
(***************************************************************************)
(* What is proved of Topics for every environment: which topic a row is of *)
(* does not change, so every row has the priority its topic was given and  *)
(* the front of the queue stays the front; and the children of a manifest  *)
(* come together, each once, and can be worked on side by side.            *)
(***************************************************************************)
EXTENDS Topics, TLAPS, WellFoundedInduction, FiniteSetTheorems

-----------------------------------------------------------------------------
(* Numbers *)

\* Induction over the natural numbers, for a set.
LEMMA NatSetInduction ==
  ASSUME NEW P, 0 \in P, \A n \in Nat : n \in P => n + 1 \in P
  PROVE  Nat \subseteq P
<1> DEFINE Bad == Nat \ P
<1> SUFFICES ASSUME Bad # {} PROVE FALSE
  OBVIOUS
<1>1. PICK k \in Bad : \A j \in Bad : ~(<<j, k>> \in OpToRel(<, Nat))
  BY NatLessThanWellFounded, WFMin
<1>2. \A j \in Bad : ~(j < k)
  BY <1>1 DEF OpToRel
<1>3. k \in Nat /\ k # 0 /\ k - 1 \in Nat /\ k - 1 < k
  OBVIOUS
<1>4. k - 1 \in P
  BY <1>2, <1>3
<1> QED BY <1>3, <1>4

\* A set of numbers with a bound has a greatest one.
LEMMA MaxExists ==
  ASSUME NEW S \in SUBSET Nat, S # {}, NEW b \in Nat, \A x \in S : x <= b
  PROVE  Max(S) \in S /\ \A x \in S : x <= Max(S)
<1> DEFINE P == {n \in Nat : \A T \in SUBSET Nat : T # {} /\ (\A x \in T : x <= n) =>
                               \E x \in T : \A y \in T : x >= y}
<1>1. 0 \in P
  <2> SUFFICES ASSUME NEW T \in SUBSET Nat, T # {}, \A x \in T : x <= 0
               PROVE  \E x \in T : \A y \in T : x >= y
    OBVIOUS
  <2>1. \A x \in T : x = 0
    OBVIOUS
  <2> QED BY <2>1
<1>2. ASSUME NEW n \in Nat, n \in P PROVE n + 1 \in P
  <2> SUFFICES ASSUME NEW T \in SUBSET Nat, T # {}, \A x \in T : x <= n + 1
               PROVE  \E x \in T : \A y \in T : x >= y
    OBVIOUS
  <2>1. CASE n + 1 \in T
    BY <2>1
  <2>2. CASE n + 1 \notin T
    <3>1. \A x \in T : x <= n
      BY <2>2
    <3> QED BY <1>2, <3>1
  <2> QED BY <2>1, <2>2
<1>3. b \in P
  BY <1>1, <1>2, NatSetInduction
<1>4. \E x \in S : \A y \in S : x >= y
  BY <1>3
<1> QED BY <1>4 DEF Max

\* And any set of numbers that is not empty has a least one.
LEMMA MinExists ==
  ASSUME NEW S \in SUBSET Nat, S # {}
  PROVE  Min(S) \in S /\ \A x \in S : Min(S) <= x
<1>1. PICK k \in S : \A j \in S : ~(<<j, k>> \in OpToRel(<, Nat))
  BY NatLessThanWellFounded, WFMin
<1>2. \A j \in S : ~(j < k)
  BY <1>1 DEF OpToRel
<1>3. \A j \in S : k <= j
  BY <1>2
<1> QED BY <1>3 DEF Min

-----------------------------------------------------------------------------
(* The way up from a row ends at one row, its topic's first *)

Fields == {"kind", "state", "target", "round", "successor", "origin", "followUpOf", "optsIn",
           "archived", "held", "priority", "deps", "replaces"}

\* The rows that are there, and whom they can belong to: only rows before them, and a
\* replacement to the row it was made for.
Table ==
  /\ env \in DOMAIN Environments /\ used \in 0..Room
  /\ DOMAIN task = TaskIds
  /\ \A t \in TaskIds : DOMAIN task[t] = Fields /\ task[t].round \in 0..MaxRound
  /\ \A t \in TaskIds \ Rows : task[t] = Blank
  /\ manifest \in [TaskIds -> [1..MaxRound -> Here.offers \cup {None}]]
Lineage ==
  \A t \in Rows :
    /\ task[t].target \in 0..(t - 1)
    /\ task[t].origin # None => task[t].origin.parent \in 1..(t - 1)
    /\ task[t].successor # 0 => task[t].successor \in (t + 1)..used /\ task[task[t].successor].replaces = t
    /\ task[t].replaces # 0 =>
         task[t].replaces \in 1..(t - 1) /\ task[t].target = 0 /\ task[t].origin = None

LEMMA RowsAreTasks == Table => used \in Nat /\ used <= MaxTasks /\ Rows \subseteq TaskIds
BY TopicsConstants DEF Table, Room, Here, Rows, TaskIds

\* A row belongs to at most one row, which came before it.
LEMMA OneParent ==
  ASSUME Table, Lineage, NEW t \in Rows
  PROVE  Parents(t) = {} \/ \E x \in Rows : x < t /\ Parents(t) = {x}
<1>1. used \in Nat
  BY RowsAreTasks
<1>2. CASE task[t].target # 0
  BY <1>1, <1>2 DEF Parents, Lineage, Rows
<1>3. CASE task[t].target = 0 /\ Superseded(t) # {}
  <2>1. \A o \in Superseded(t) : o \in Rows /\ o = task[t].replaces /\ o < t
    BY <1>1 DEF Superseded, Lineage, Rows
  <2>2. PICK o \in Rows : Superseded(t) = {o} /\ o < t
    BY <1>3, <2>1
  <2>3. Min({o}) = o
    BY DEF Min
  <2> QED BY <1>3, <2>2, <2>3 DEF Parents
<1>4. CASE task[t].target = 0 /\ Superseded(t) = {}
  BY <1>1, <1>4 DEF Parents, Lineage, Rows
<1> QED BY <1>2, <1>3, <1>4

\* One step up from each row of a set.
Climbed(S) == S \cup UNION {Parents(x) : x \in S}

LEMMA WayUpSteps ==
  ASSUME NEW t, used \in Nat
  PROVE  \E W : /\ W = [n \in 0..used |-> Climbed(IF n = 0 THEN {t} ELSE W[n - 1])]
                /\ WayUp(t) = W[used]
<1> DEFINE Fits(g, k) == g = [n \in 0..k |-> Climbed(IF n = 0 THEN {t} ELSE g[n - 1])]
           P == {k \in Nat : \E g : Fits(g, k)}
<1>1. 0 \in P
  <2>1. Fits([n \in 0..0 |-> Climbed({t})], 0)
    OBVIOUS
  <2> QED BY <2>1
<1>2. ASSUME NEW k \in Nat, k \in P PROVE k + 1 \in P
  <2>1. PICK g : Fits(g, k)
    BY <1>2
  <2> DEFINE h == [n \in 0..(k + 1) |-> Climbed(IF n = 0 THEN {t} ELSE g[n - 1])]
  <2>2. ASSUME NEW n \in 0..k PROVE h[n] = g[n]
    <3>1. n \in 0..(k + 1)
      OBVIOUS
    <3>2. h[n] = Climbed(IF n = 0 THEN {t} ELSE g[n - 1])
      BY <3>1
    <3>3. g[n] = Climbed(IF n = 0 THEN {t} ELSE g[n - 1])
      BY <2>1
    <3> QED BY <3>2, <3>3
  <2>3. \A n \in 0..(k + 1) : n # 0 => n - 1 \in 0..k
    OBVIOUS
  <2>4. Fits(h, k + 1)
    BY <2>2, <2>3
  <2> HIDE DEF h, Fits
  <2>5. \E gg : Fits(gg, k + 1)
    BY <2>4
  <2> QED BY <2>5
<1>3. used \in P
  BY <1>1, <1>2, NatSetInduction
<1> DEFINE R == CHOOSE g : Fits(g, used)
<1>4. Fits(R, used)
  BY <1>3
<1>5. WayUp(t) = R[used]
  BY DEF WayUp, Climbed
<1> QED BY <1>4, <1>5

\* The walk up is long enough, finds the row it starts from and whoever those found
\* belong to, and nothing else.
LEMMA WayIsClosed ==
  ASSUME Table, Lineage, NEW t \in Rows
  PROVE  /\ t \in WayUp(t) /\ WayUp(t) \subseteq Rows
         /\ \A x \in WayUp(t) : Parents(x) \subseteq WayUp(t)
         /\ \A C \in SUBSET Rows : t \in C /\ (\A x \in C : Parents(x) \subseteq C) => WayUp(t) \subseteq C
<1>1. used \in Nat /\ t \in Nat /\ t >= 1 /\ t <= used
  BY RowsAreTasks DEF Rows
<1>2. PICK W : /\ W = [n \in 0..used |-> Climbed(IF n = 0 THEN {t} ELSE W[n - 1])]
               /\ WayUp(t) = W[used]
  BY <1>1, WayUpSteps
<1>3. \A x \in Rows : Parents(x) \subseteq Rows /\ \A y \in Parents(x) : y < x
  BY OneParent
<1>4. W[0] = Climbed({t})
  <2>1. 0 \in 0..used
    BY <1>1
  <2> QED BY <1>2, <2>1
<1>5. ASSUME NEW n \in Nat, n + 1 <= used PROVE W[n + 1] = Climbed(W[n])
  <2>1. n + 1 \in 0..used /\ n + 1 # 0 /\ (n + 1) - 1 = n
    BY <1>1, <1>5
  <2> QED BY <1>2, <2>1
<1> DEFINE Open(x, n) == x \in Nat /\ x <= t - 1 - n
           Good(n) == /\ t \in W[n] /\ W[n] \subseteq Rows
                      /\ \A x \in W[n] : Parents(x) \subseteq W[n] \/ Open(x, n)
                      /\ \A C \in SUBSET Rows :
                           t \in C /\ (\A x \in C : Parents(x) \subseteq C) => W[n] \subseteq C
           P == {n \in Nat : n <= used => Good(n)}
<1>6. 0 \in P
  <2>1. t \in W[0] /\ W[0] \subseteq Rows
    BY <1>3, <1>4 DEF Climbed
  <2>2. \A x \in W[0] : Parents(x) \subseteq W[0] \/ Open(x, 0)
    <3> SUFFICES ASSUME NEW x \in W[0], x # t PROVE Open(x, 0)
      BY <1>4 DEF Climbed
    <3>1. x \in Parents(t)
      BY <1>4 DEF Climbed
    <3>2. x < t /\ x \in Rows
      BY <1>3, <3>1
    <3> QED BY <1>1, <3>2 DEF Rows
  <2>3. \A C \in SUBSET Rows : t \in C /\ (\A x \in C : Parents(x) \subseteq C) => W[0] \subseteq C
    BY <1>4 DEF Climbed
  <2> QED BY <2>1, <2>2, <2>3
<1>7. ASSUME NEW n \in Nat, n \in P PROVE n + 1 \in P
  <2> SUFFICES ASSUME n + 1 <= used PROVE Good(n + 1)
    OBVIOUS
  <2>1. Good(n)
    BY <1>1, <1>7
  <2>2. W[n + 1] = Climbed(W[n])
    BY <1>5
  <2>3. t \in W[n + 1] /\ W[n + 1] \subseteq Rows
    BY <1>3, <2>1, <2>2 DEF Climbed
  <2>4. ASSUME NEW x \in W[n + 1] PROVE Parents(x) \subseteq W[n + 1] \/ Open(x, n + 1)
    <3>1. CASE x \in W[n]
      BY <2>2, <3>1 DEF Climbed
    <3>2. CASE x \notin W[n]
      <4>1. PICK y \in W[n] : x \in Parents(y)
        BY <2>2, <3>2 DEF Climbed
      <4>2. ~(Parents(y) \subseteq W[n])
        BY <3>2, <4>1
      <4>3. Open(y, n)
        BY <2>1, <4>2
      <4>4. x < y /\ x \in Nat
        BY <1>3, <2>1, <4>1 DEF Rows
      <4> QED BY <1>1, <4>3, <4>4
    <3> QED BY <3>1, <3>2
  <2>5. \A C \in SUBSET Rows : t \in C /\ (\A x \in C : Parents(x) \subseteq C) => W[n + 1] \subseteq C
    BY <2>1, <2>2 DEF Climbed
  <2> QED BY <2>3, <2>4, <2>5
<1>8. Good(used)
  <2>1. used \in P
    BY <1>1, <1>6, <1>7, NatSetInduction
  <2> QED BY <1>1, <2>1
<1>9. \A x \in WayUp(t) : Parents(x) \subseteq WayUp(t)
  <2> SUFFICES ASSUME NEW x \in WayUp(t), Open(x, used) PROVE FALSE
    BY <1>2, <1>8
  <2>1. x \in Rows
    BY <1>2, <1>8
  <2> QED BY <1>1, <2>1 DEF Rows
<1> QED BY <1>2, <1>8, <1>9

\* What a topic is: its rows lead up to one row that belongs to no other.
RootFacts ==
  \A t \in Rows :
    /\ Root(t) \in Rows /\ Parents(Root(t)) = {}
    /\ Parents(t) = {} => Root(t) = t
    /\ \A x \in Parents(t) : x \in Rows /\ x < t /\ Parents(t) = {x} /\ Root(t) = Root(x)
    /\ \A a \in Rows : Parents(a) = {} => (a \in WayUp(t) <=> a = Root(t))

LEMMA RootsHold == Table /\ Lineage => RootFacts
<1> SUFFICES ASSUME Table, Lineage PROVE RootFacts
  OBVIOUS
<1> DEFINE Tops(t) == {x \in WayUp(t) : Parents(x) = {}}
           One(t) == \E r \in Rows : Tops(t) = {r} /\ Parents(r) = {}
           P == {n \in Nat : \A t \in Rows : t <= n => One(t)}
<1>0. used \in Nat
  BY RowsAreTasks
<1>1. ASSUME NEW t \in Rows, Parents(t) = {} PROVE Tops(t) = {t}
  <2>1. t \in WayUp(t) /\ WayUp(t) \subseteq {t}
    BY <1>1, WayIsClosed
  <2> QED BY <1>1, <2>1
<1>2. ASSUME NEW t \in Rows, NEW x \in Rows, Parents(t) = {x} PROVE Tops(t) = Tops(x)
  <2>1. t \in WayUp(t) /\ WayUp(t) \subseteq Rows /\ \A y \in WayUp(t) : Parents(y) \subseteq WayUp(t)
    BY WayIsClosed
  <2>2. x \in WayUp(x) /\ WayUp(x) \subseteq Rows /\ \A y \in WayUp(x) : Parents(y) \subseteq WayUp(x)
    BY WayIsClosed
  <2>3. WayUp(x) \subseteq WayUp(t)
    <3>1. x \in WayUp(t)
      BY <1>2, <2>1
    <3> QED BY <2>1, <3>1, WayIsClosed
  <2>4. WayUp(t) \subseteq {t} \cup WayUp(x)
    <3> DEFINE C == {t} \cup WayUp(x)
    <3>1. C \in SUBSET Rows /\ t \in C /\ \A y \in C : Parents(y) \subseteq C
      BY <1>2, <2>2
    <3> HIDE DEF C
    <3>2. WayUp(t) \subseteq C
      BY <3>1, WayIsClosed
    <3> QED BY <3>2 DEF C
  <2>5. Parents(t) # {}
    BY <1>2
  <2> QED BY <2>3, <2>4, <2>5
<1> HIDE DEF Tops
<1>3. 0 \in P
  BY <1>0 DEF Rows
<1>4. ASSUME NEW n \in Nat, n \in P PROVE n + 1 \in P
  <2> SUFFICES ASSUME NEW t \in Rows, t = n + 1 PROVE One(t)
    BY <1>0, <1>4 DEF Rows
  <2>1. CASE Parents(t) = {}
    BY <1>1, <2>1
  <2>2. ASSUME NEW x \in Rows, x < t, Parents(t) = {x} PROVE One(t)
    <3>1. x <= n
      BY <1>0, <2>2 DEF Rows
    <3>2. One(x)
      BY <1>4, <3>1
    <3>3. Tops(t) = Tops(x)
      BY <1>2, <2>2
    <3> QED BY <3>2, <3>3
  <2> QED BY <2>1, <2>2, OneParent
<1>5. ASSUME NEW t \in Rows PROVE One(t)
  <2>1. t \in Nat
    BY <1>0 DEF Rows
  <2>2. t \in P
    BY <1>3, <1>4, <2>1, NatSetInduction
  <2> QED BY <2>1, <2>2
<1>6. \A t \in Rows : Root(t) = IF Tops(t) = {} THEN t ELSE CHOOSE x \in Tops(t) : TRUE
  BY DEF Root, Tops
<1>7. ASSUME NEW t \in Rows PROVE Tops(t) = {Root(t)} /\ Root(t) \in Rows /\ Parents(Root(t)) = {}
  <2>1. PICK r \in Rows : Tops(t) = {r} /\ Parents(r) = {}
    BY <1>5
  <2>2. Root(t) = r
    BY <1>6, <2>1
  <2> QED BY <2>1, <2>2
<1> SUFFICES ASSUME NEW t \in Rows
             PROVE  /\ Root(t) \in Rows /\ Parents(Root(t)) = {}
                    /\ Parents(t) = {} => Root(t) = t
                    /\ \A x \in Parents(t) : x \in Rows /\ x < t /\ Parents(t) = {x} /\ Root(t) = Root(x)
                    /\ \A a \in Rows : Parents(a) = {} => (a \in WayUp(t) <=> a = Root(t))
  BY DEF RootFacts
<1>8. Parents(t) = {} => Root(t) = t
  BY <1>1, <1>7
<1>9. ASSUME NEW x \in Parents(t) PROVE x \in Rows /\ x < t /\ Parents(t) = {x} /\ Root(t) = Root(x)
  <2>1. x \in Rows /\ x < t /\ Parents(t) = {x}
    BY OneParent
  <2>2. {Root(t)} = {Root(x)}
    BY <1>2, <1>7, <2>1
  <2> QED BY <2>1, <2>2
<1>10. ASSUME NEW a \in Rows, Parents(a) = {} PROVE a \in WayUp(t) <=> a = Root(t)
  <2>1. a \in Tops(t) <=> a \in WayUp(t)
    BY <1>10 DEF Tops
  <2> QED BY <1>7, <2>1
<1> QED BY <1>7, <1>8, <1>9, <1>10

LEMMA RootsHoldNext == Table' /\ Lineage' => RootFacts'
BY RootsHold, PTL

-----------------------------------------------------------------------------
(* What a step does to the topics *)

\* A row that comes to the topic of p, and one that is a topic of its own.
Joins(r, p) ==
  /\ r.priority = Effective(p) /\ r.replaces = 0 /\ r.successor = 0
  /\ \/ r.target = p /\ r.origin = None
     \/ r.target = 0 /\ r.origin # None /\ r.origin.parent = p
Founds(r) ==
  /\ r.priority \in 1..MaxManualPriority /\ r.replaces = 0 /\ r.successor = 0
  /\ r.target = 0 /\ r.origin = None
SameLine(r, s) == r.target = s.target /\ r.origin = s.origin /\ r.replaces = s.replaces

\* Rows are added, or there are none to add.
Grows ==
  /\ used' \in Nat /\ used' >= used /\ ledger' = ledger
  /\ \A t \in Rows : /\ SameLine(task'[t], task[t])
                     /\ task'[t].successor = task[t].successor /\ task'[t].priority = task[t].priority
  /\ \A n \in (used + 1)..used' : Founds(task'[n]) \/ \E p \in Rows : Joins(task'[n], p)
\* A row is replaced by a new one.
Hands(p) ==
  /\ used' = used + 1 /\ ledger' = ledger
  /\ \A t \in Rows : /\ SameLine(task'[t], task[t]) /\ task'[t].priority = task[t].priority
                     /\ t # p => task'[t].successor = task[t].successor
  /\ task'[p].successor = used + 1
  /\ LET n == task'[used + 1]
     IN /\ n.priority = Effective(p) /\ n.replaces = p /\ n.successor = 0
        /\ n.target = 0 /\ n.origin = None

\* The table within a step, before rows are inserted: nobody's topic or rank has changed.
Drafts(tk) ==
  /\ DOMAIN tk = TaskIds
  /\ \A t \in TaskIds : DOMAIN tk[t] = Fields /\ tk[t].round \in 0..MaxRound
  /\ \A t \in TaskIds \ Rows : tk[t] = Blank
  /\ \A t \in Rows : SameLine(tk[t], task[t]) /\ tk[t].successor = task[t].successor
                     /\ tk[t].priority = task[t].priority
Entered == /\ env' = env
           /\ manifest' \in [TaskIds -> [1..MaxRound -> Here.offers \cup {None}]]

LEMMA DraftsStay ==
  ASSUME Table, NEW tk, Drafts(tk), task' = tk, used' = used, Entered, ledger' = ledger
  PROVE  Table' /\ Grows
<1>1. Table'
  BY DEF Table, Drafts, Entered, Rows, Room, Here, TaskIds, Fields, Blank
<1>2. Grows
  BY RowsAreTasks DEF Grows, Drafts
<1> QED BY <1>1, <1>2

LEMMA OneInserted ==
  ASSUME Table, NEW tk, DOMAIN tk = TaskIds, NEW r, used < Room, task' = Insert(tk, <<r>>)
  PROVE  /\ used + 1 \in TaskIds /\ DOMAIN task' = TaskIds /\ task'[used + 1] = r
         /\ \A t \in TaskIds : t # used + 1 => task'[t] = tk[t]
<1>1. used \in Nat /\ used + 1 \in TaskIds
  BY TopicsConstants DEF Table, Room, Here, TaskIds
<1>2. \A t \in TaskIds : t \in Int
  BY DEF TaskIds
<1>3. DOMAIN <<r>> = {1} /\ <<r>>[1] = r
  OBVIOUS
<1>4. task' = [t \in TaskIds |-> IF t - used \in {1} THEN <<r>>[t - used] ELSE tk[t]]
  BY <1>3 DEF Insert
<1>5. task'[used + 1] = r
  <2>1. (used + 1) - used = 1
    BY <1>1
  <2> QED BY <1>1, <1>3, <1>4, <2>1
<1>6. \A t \in TaskIds : t # used + 1 => task'[t] = tk[t]
  <2>1. \A t \in TaskIds : t # used + 1 => t - used # 1
    BY <1>1, <1>2
  <2> QED BY <1>4, <2>1
<1> QED BY <1>1, <1>4, <1>5, <1>6

LEMMA DraftGrows ==
  ASSUME Table, NEW tk, Drafts(tk), NEW r, used < Room, task' = Insert(tk, <<r>>), used' = used + 1,
         DOMAIN r = Fields, r.round \in 0..MaxRound, Founds(r) \/ \E p \in Rows : Joins(r, p),
         Entered, ledger' = ledger
  PROVE  Table' /\ Grows
<1>1. /\ used + 1 \in TaskIds /\ DOMAIN task' = TaskIds /\ task'[used + 1] = r
      /\ \A t \in TaskIds : t # used + 1 => task'[t] = tk[t]
  BY OneInserted DEF Drafts
<1>2. used \in Nat /\ Room \in Nat /\ Rows \subseteq TaskIds
  BY RowsAreTasks, TopicsConstants DEF Table, Room, Here
<1>3. \A t \in Rows : t # used + 1
  BY <1>2 DEF Rows
<1>4. Table'
  <2>1. \A t \in TaskIds : DOMAIN task'[t] = Fields /\ task'[t].round \in 0..MaxRound
    BY <1>1 DEF Drafts
  <2>2. \A t \in TaskIds \ Rows' : task'[t] = Blank
    BY <1>1, <1>2 DEF Drafts, Rows
  <2>3. used' \in 0..Room
    BY <1>2 DEF Table
  <2> QED BY <1>1, <2>1, <2>2, <2>3 DEF Table, Entered, Room, Here, TaskIds, Fields, Blank
<1>5. Grows
  <2>1. \A n \in (used + 1)..used' : n = used + 1
    BY <1>2
  <2> QED BY <1>1, <1>2, <1>3, <2>1 DEF Grows, Drafts
<1> QED BY <1>4, <1>5

LEMMA ReplaceHands ==
  ASSUME Table, NEW tk, Drafts(tk), NEW p \in Rows, NEW first, Replace(tk, p, first),
         Entered, ledger' = ledger
  PROVE  Table' /\ Hands(p)
<1> DEFINE n == used + 1
           moved == [t \in TaskIds |-> IF p \in tk[t].deps
                      THEN [tk[t] EXCEPT !.deps = (@ \ {p}) \cup {n}] ELSE tk[t]]
           heir == [Blank EXCEPT !.kind = tk[p].kind, !.state = first, !.optsIn = tk[p].optsIn,
                                 !.priority = Effective(p), !.deps = tk[p].deps, !.replaces = p]
           old == [moved EXCEPT ![p].state = "superseded", ![p].successor = n]
<1>1. n <= Room /\ used' = n /\ task' = Insert(old, <<heir>>)
  BY DEF Replace
<1>2. used \in Nat /\ Room \in Nat /\ Rows \subseteq TaskIds /\ p \in TaskIds
  BY RowsAreTasks, TopicsConstants DEF Table, Room, Here
<1>3. /\ DOMAIN moved = TaskIds
      /\ \A t \in TaskIds : DOMAIN moved[t] = Fields /\ moved[t].round = tk[t].round
                            /\ SameLine(moved[t], tk[t]) /\ moved[t].successor = tk[t].successor
                            /\ moved[t].priority = tk[t].priority
      /\ \A t \in TaskIds \ Rows : moved[t] = Blank
  <2>1. \A t \in TaskIds \ Rows : tk[t].deps = {}
    BY DEF Drafts, Blank
  <2> QED BY <2>1 DEF Drafts, SameLine, Fields
<1> HIDE DEF moved
<1>4. /\ DOMAIN old = TaskIds
      /\ \A t \in TaskIds : /\ DOMAIN old[t] = Fields /\ old[t].round = moved[t].round
                            /\ SameLine(old[t], moved[t]) /\ old[t].priority = moved[t].priority
                            /\ t # p => old[t] = moved[t]
      /\ old[p].successor = n
  BY <1>2, <1>3 DEF SameLine, Fields
<1>5. /\ DOMAIN heir = Fields /\ heir.round \in 0..MaxRound
      /\ heir.priority = Effective(p) /\ heir.replaces = p /\ heir.successor = 0
      /\ heir.target = 0 /\ heir.origin = None
  BY TopicsConstants DEF Blank, Fields
<1> HIDE DEF old, heir
<1>6. /\ n \in TaskIds /\ DOMAIN task' = TaskIds /\ task'[n] = heir
      /\ \A t \in TaskIds : t # n => task'[t] = old[t]
  BY <1>1, <1>2, <1>4, OneInserted
<1>7. \A t \in Rows : t # n
  BY <1>2 DEF Rows
<1>8. Table'
  <2>1. ASSUME NEW t \in TaskIds
        PROVE  /\ DOMAIN task'[t] = Fields /\ task'[t].round \in 0..MaxRound
               /\ t \notin Rows' => task'[t] = Blank
    <3>1. CASE t = n
      BY <1>1, <1>2, <1>5, <1>6, <3>1 DEF Rows
    <3>2. CASE t # n
      <4>1. task'[t] = old[t]
        BY <1>6, <3>2
      <4>2. DOMAIN old[t] = Fields /\ old[t].round \in 0..MaxRound
        BY <1>3, <1>4 DEF Drafts
      <4>3. ASSUME t \notin Rows' PROVE old[t] = Blank
        <5>1. t \notin Rows
          BY <1>1, <1>2, <4>3 DEF Rows
        <5>2. t # p /\ moved[t] = Blank
          BY <1>3, <5>1
        <5> QED BY <1>4, <5>2
      <4> QED BY <4>1, <4>2, <4>3
    <3> QED BY <3>1, <3>2
  <2>3. used' \in 0..Room
    BY <1>1, <1>2
  <2> QED BY <1>6, <2>1, <2>3 DEF Table, Entered, Room, Here, TaskIds, Fields, Blank
<1>9. Hands(p)
  <2>1. ASSUME NEW t \in Rows
        PROVE  /\ SameLine(task'[t], task[t]) /\ task'[t].priority = task[t].priority
               /\ t # p => task'[t].successor = task[t].successor
    <3>1. t \in TaskIds /\ task'[t] = old[t]
      BY <1>2, <1>6, <1>7
    <3>2. SameLine(old[t], moved[t]) /\ old[t].priority = moved[t].priority
          /\ (t # p => old[t].successor = moved[t].successor)
      BY <1>4, <3>1
    <3>3. SameLine(moved[t], tk[t]) /\ moved[t].priority = tk[t].priority
          /\ moved[t].successor = tk[t].successor
      BY <1>3, <3>1
    <3>4. SameLine(tk[t], task[t]) /\ tk[t].priority = task[t].priority
          /\ tk[t].successor = task[t].successor
      BY DEF Drafts
    <3> QED BY <3>1, <3>2, <3>3, <3>4 DEF SameLine
  <2>2. task'[p].successor = n
    BY <1>2, <1>4, <1>6, <1>7
  <2> QED BY <1>1, <1>5, <1>6, <2>1, <2>2 DEF Hands
<1> QED BY <1>8, <1>9

-----------------------------------------------------------------------------
(* The children a parent brings *)

LEMMA FreshSteps ==
  ASSUME NEW p, NEW m, m.children \in Seq(ToSet(m.children))
  PROVE  \E F : /\ F = [n \in 0..Len(m.children) |->
                         IF n = 0 THEN <<>>
                         ELSE IF Made(p, m, m.children[n].key) = {}
                         THEN Append(F[n - 1], m.children[n]) ELSE F[n - 1]]
                /\ Fresh(p, m) = F[Len(m.children)]
<1> DEFINE step(g, n) == IF n = 0 THEN <<>>
                         ELSE IF Made(p, m, m.children[n].key) = {}
                         THEN Append(g[n - 1], m.children[n]) ELSE g[n - 1]
           Fits(g, k) == g = [n \in 0..k |-> step(g, n)]
           P == {k \in Nat : \E g : Fits(g, k)}
<1>1. 0 \in P
  <2>1. Fits([n \in 0..0 |-> <<>>], 0)
    OBVIOUS
  <2> QED BY <2>1
<1>2. ASSUME NEW k \in Nat, k \in P PROVE k + 1 \in P
  <2>1. PICK g : Fits(g, k)
    BY <1>2
  <2> DEFINE h == [n \in 0..(k + 1) |-> step(g, n)]
  <2>2. ASSUME NEW n \in 0..k PROVE h[n] = g[n]
    <3>1. n \in 0..(k + 1)
      OBVIOUS
    <3> HIDE DEF step
    <3>2. h[n] = step(g, n)
      BY <3>1
    <3>3. g[n] = step(g, n)
      BY <2>1
    <3> QED BY <3>2, <3>3
  <2>3. \A n \in 0..(k + 1) : n # 0 => n - 1 \in 0..k
    OBVIOUS
  <2>4. ASSUME NEW n \in 0..(k + 1) PROVE step(h, n) = step(g, n)
    <3> HIDE DEF h
    <3>1. n # 0 => h[n - 1] = g[n - 1]
      BY <2>2, <2>3
    <3> QED BY <3>1
  <2> HIDE DEF step
  <2>5. Fits(h, k + 1)
    BY <2>4
  <2> HIDE DEF h, Fits
  <2>6. \E gg : Fits(gg, k + 1)
    BY <2>5
  <2> QED BY <2>6
<1>3. Len(m.children) \in P
  <2>1. Len(m.children) \in Nat
    OBVIOUS
  <2> HIDE DEF P
  <2> QED BY <1>1, <1>2, <2>1, NatSetInduction
<1> DEFINE R == CHOOSE g : Fits(g, Len(m.children))
<1>4. Fits(R, Len(m.children))
  BY <1>3
<1>5. Fresh(p, m) = R[Len(m.children)]
  BY DEF Fresh
<1> QED BY <1>4, <1>5

\* The children that are inserted: those of the manifest that are not made yet, all of
\* them, in its order when none is.
LEMMA FreshFacts ==
  ASSUME NEW p, NEW m, m.children \in Seq(ToSet(m.children))
  PROVE  /\ Fresh(p, m) \in Seq(Children(m))
         /\ \A i \in DOMAIN Fresh(p, m) : Made(p, m, Fresh(p, m)[i].key) = {}
         /\ \A c \in Children(m) : Made(p, m, c.key) = {} => \E i \in DOMAIN Fresh(p, m) : Fresh(p, m)[i] = c
         /\ (\A c \in Children(m) : Made(p, m, c.key) = {}) => Fresh(p, m) = m.children
         /\ (\A c \in Children(m) : Made(p, m, c.key) # {}) => Fresh(p, m) = <<>>
<1> DEFINE cs == m.children
           C == ToSet(m.children)
           fresh(c) == Made(p, m, c.key) = {}
<1>1. PICK F : /\ F = [n \in 0..Len(cs) |->
                         IF n = 0 THEN <<>>
                         ELSE IF fresh(cs[n]) THEN Append(F[n - 1], cs[n]) ELSE F[n - 1]]
               /\ Fresh(p, m) = F[Len(cs)]
  BY FreshSteps
<1>2. /\ cs \in Seq(C) /\ Len(cs) \in Nat /\ DOMAIN cs = 1..Len(cs)
      /\ \A i \in 1..Len(cs) : cs[i] \in C
      /\ \A c \in C : \E i \in 1..Len(cs) : cs[i] = c
  BY DEF ToSet
<1> HIDE DEF cs, C, fresh
<1> DEFINE Good(n) ==
             /\ F[n] \in Seq(C) /\ \A i \in DOMAIN F[n] : fresh(F[n][i])
             /\ \A i \in 1..n : fresh(cs[i]) => \E j \in DOMAIN F[n] : F[n][j] = cs[i]
             /\ (\A c \in C : fresh(c)) => Len(F[n]) = n /\ \A i \in 1..n : F[n][i] = cs[i]
             /\ (\A c \in C : ~fresh(c)) => F[n] = <<>>
           P == {n \in Nat : n <= Len(cs) => Good(n)}
<1>3. 0 \in P
  <2>1. F[0] = <<>>
    BY <1>1, <1>2
  <2>2. <<>> \in Seq(C) /\ DOMAIN <<>> = {} /\ Len(<<>>) = 0 /\ 1..0 = {}
    OBVIOUS
  <2>3. Good(0)
    BY <2>1, <2>2
  <2> HIDE DEF Good
  <2> QED BY <2>3
<1>4. ASSUME NEW n \in Nat, n \in P PROVE n + 1 \in P
  <2> SUFFICES ASSUME n + 1 <= Len(cs) PROVE Good(n + 1)
    OBVIOUS
  <2> DEFINE c == cs[n + 1]
  <2>1. Good(n)
    BY <1>2, <1>4
  <2>2. F[n + 1] = IF fresh(c) THEN Append(F[n], c) ELSE F[n]
    <3>1. n + 1 \in 0..Len(cs) /\ n + 1 # 0 /\ (n + 1) - 1 = n
      BY <1>2
    <3> QED BY <1>1, <3>1
  <2>3. c \in C
    BY <1>2
  <2>4. PICK s : s = F[n] /\ s \in Seq(C) /\ Len(s) \in Nat
    BY <2>1
  <2>5. CASE ~fresh(c)
    <3>1. F[n + 1] = F[n]
      BY <2>2, <2>5
    <3>2. ~(\A x \in C : fresh(x))
      BY <2>3, <2>5
    <3>3. \A i \in 1..(n + 1) : fresh(cs[i]) => i \in 1..n
      BY <2>5
    <3> QED BY <2>1, <3>1, <3>2, <3>3
  <2>6. CASE fresh(c)
    <3>1. PICK z : z = F[n + 1] /\ z = Append(s, c)
      BY <2>2, <2>4, <2>6
    <3>2. /\ z \in Seq(C) /\ Len(z) = Len(s) + 1 /\ DOMAIN z = 1..(Len(s) + 1) /\ z[Len(s) + 1] = c
          /\ \A i \in 1..Len(s) : z[i] = s[i]
      BY <2>3, <2>4, <3>1
    <3>3. DOMAIN s = 1..Len(s) /\ \A i \in DOMAIN s : fresh(s[i])
      BY <2>1, <2>4
    <3>4. \A i \in DOMAIN z : fresh(z[i])
      BY <2>4, <2>6, <3>2, <3>3
    <3>5. ASSUME NEW i \in 1..(n + 1), fresh(cs[i]) PROVE \E j \in DOMAIN z : z[j] = cs[i]
      <4>1. CASE i = n + 1
        BY <2>4, <3>2, <4>1
      <4>2. CASE i # n + 1
        <5>1. PICK j \in DOMAIN s : s[j] = cs[i]
          BY <2>1, <2>4, <3>5, <4>2
        <5> QED BY <2>4, <3>2, <3>3, <5>1
      <4> QED BY <4>1, <4>2
    <3>6. ASSUME \A x \in C : fresh(x) PROVE Len(z) = n + 1 /\ \A i \in 1..(n + 1) : z[i] = cs[i]
      <4>1. Len(s) = n /\ \A i \in 1..n : s[i] = cs[i]
        BY <2>1, <2>4, <3>6
      <4> QED BY <3>2, <4>1
    <3>7. ~(\A x \in C : ~fresh(x))
      BY <2>3, <2>6
    <3> QED BY <3>1, <3>2, <3>4, <3>5, <3>6, <3>7
  <2> QED BY <2>5, <2>6
<1>5. Good(Len(cs))
  <2>1. Len(cs) \in P
    BY <1>2, <1>3, <1>4, NatSetInduction
  <2> QED BY <1>2, <2>1
<1>6. PICK z : z = Fresh(p, m) /\ z = F[Len(cs)]
  BY <1>1
<1>7. /\ z \in Seq(C) /\ \A i \in DOMAIN z : fresh(z[i])
      /\ \A i \in 1..Len(cs) : fresh(cs[i]) => \E j \in DOMAIN z : z[j] = cs[i]
      /\ (\A c \in C : fresh(c)) => Len(z) = Len(cs) /\ \A i \in 1..Len(cs) : z[i] = cs[i]
      /\ (\A c \in C : ~fresh(c)) => z = <<>>
  BY <1>5, <1>6
<1>8. \A c \in C : fresh(c) => \E i \in DOMAIN z : z[i] = c
  BY <1>2, <1>7
<1>9. (\A c \in C : fresh(c)) => z = cs
  BY <1>2, <1>7
<1> QED BY <1>6, <1>7, <1>8, <1>9 DEF Children, C, cs, fresh


LEMMA ChildrenGrow ==
  ASSUME Table, NEW tk, Drafts(tk), NEW p \in Rows, NEW m \in Here.offers,
         InsertChildren(tk, p, m), Entered, ledger' = ledger
  PROVE  Table' /\ Grows
<1> DEFINE fresh == Fresh(p, m)
           rows == [i \in DOMAIN fresh |-> ChildRow(p, m, fresh[i])]
<1>1. m.children \in Seq(ToSet(m.children))
  BY TopicsConstants DEF Table, Here
<1>2. fresh \in Seq(Children(m)) /\ Len(fresh) \in Nat /\ DOMAIN fresh = 1..Len(fresh)
  BY <1>1, FreshFacts
<1>3. used + Len(fresh) <= Room /\ used' = used + Len(fresh) /\ task' = Insert(tk, rows)
  BY DEF InsertChildren
<1>4. used \in Nat /\ Room \in Nat /\ Room <= MaxTasks /\ Rows \subseteq TaskIds
  BY RowsAreTasks, TopicsConstants DEF Table, Room, Here
<1>5. ASSUME NEW i \in DOMAIN fresh
      PROVE  DOMAIN rows[i] = Fields /\ rows[i].round = 0 /\ Joins(rows[i], p)
  <2>1. fresh[i] \in Children(m)
    BY <1>2
  <2>2. fresh[i].key \in KeysOf(m)
    BY <2>1 DEF KeysOf
  <2>3. None # [parent |-> p, key |-> fresh[i].key, digest |-> m]
    BY <1>4, <2>2, TopicsConstants DEF Table, Here, TaskIds
  <2> HIDE DEF fresh
  <2>4. rows[i] = ChildRow(p, m, fresh[i])
    OBVIOUS
  <2>5. ChildRow(p, m, fresh[i]).origin.parent = p
    BY DEF ChildRow, Blank
  <2> QED BY <2>3, <2>4, <2>5 DEF ChildRow, Blank, Fields, Joins
<1> HIDE DEF fresh
<1>6. DOMAIN rows = 1..Len(fresh)
  BY <1>2
<1> HIDE DEF rows
<1>7. task' = [t \in TaskIds |-> IF t - used \in 1..Len(fresh) THEN rows[t - used] ELSE tk[t]]
  BY <1>3, <1>6 DEF Insert
<1>8. Table'
  <2>1. ASSUME NEW t \in TaskIds
        PROVE  /\ DOMAIN task'[t] = Fields /\ task'[t].round \in 0..MaxRound
               /\ t \notin Rows' => task'[t] = Blank
    <3>1. CASE t - used \in 1..Len(fresh)
      <4>1. task'[t] = rows[t - used] /\ t \in Rows'
        BY <1>2, <1>3, <1>4, <1>7, <3>1 DEF Rows, TaskIds
      <4>2. DOMAIN rows[t - used] = Fields /\ rows[t - used].round = 0
        BY <1>2, <1>5, <3>1
      <4> QED BY <4>1, <4>2, TopicsConstants
    <3>2. CASE t - used \notin 1..Len(fresh)
      <4>1. task'[t] = tk[t]
        BY <1>7, <3>2
      <4>2. t \notin Rows' => t \notin Rows
        BY <1>2, <1>3, <1>4 DEF Rows
      <4> QED BY <4>1, <4>2 DEF Drafts
    <3> QED BY <3>1, <3>2
  <2>2. used' \in 0..Room
    BY <1>2, <1>3, <1>4
  <2> QED BY <1>7, <2>1, <2>2 DEF Table, Entered, Room, Here, TaskIds, Fields, Blank
<1>9. Grows
  <2>1. ASSUME NEW t \in Rows PROVE task'[t] = tk[t]
    <3>1. t \in TaskIds /\ t - used \notin 1..Len(fresh)
      BY <1>2, <1>4 DEF Rows
    <3> QED BY <1>7, <3>1
  <2>2. ASSUME NEW n \in (used + 1)..used' PROVE Joins(task'[n], p)
    <3>0. n \in (used + 1)..(used + Len(fresh)) /\ used + Len(fresh) <= MaxTasks
      BY <1>2, <1>3, <1>4, TopicsConstants
    <3>1. n \in TaskIds /\ n - used \in 1..Len(fresh)
      BY <1>2, <1>4, <3>0, TopicsConstants DEF TaskIds
    <3>2. task'[n] = rows[n - used]
      BY <1>7, <3>1
    <3> QED BY <1>2, <1>5, <3>1, <3>2
  <2>3. used' \in Nat /\ used' >= used
    BY <1>2, <1>3, <1>4
  <2> QED BY <2>1, <2>2, <2>3 DEF Grows, Drafts
<1> QED BY <1>8, <1>9

-----------------------------------------------------------------------------
(* The ways a step goes *)

LEMMA TaskIsDraft == Table => Drafts(task)
BY DEF Table, Drafts, SameLine

LEMMA EditIsDraft ==
  ASSUME Table, NEW t \in Rows, NEW v
  PROVE  /\ Drafts([task EXCEPT ![t].state = v]) /\ Drafts([task EXCEPT ![t].archived = v])
         /\ Drafts([task EXCEPT ![t].held = v])
         /\ \A r \in 0..MaxRound : Drafts([task EXCEPT ![t].state = v, ![t].round = r])
<1>1. Drafts(task) /\ t \in TaskIds
  BY TaskIsDraft, RowsAreTasks
<1> DEFINE F(tk) == DOMAIN tk = TaskIds /\ \A u \in TaskIds :
                      /\ u # t => tk[u] = task[u]
                      /\ DOMAIN tk[u] = Fields /\ tk[u].round \in 0..MaxRound
                      /\ SameLine(tk[u], task[u]) /\ tk[u].successor = task[u].successor
                      /\ tk[u].priority = task[u].priority
<1>2. ASSUME NEW tk, F(tk) PROVE Drafts(tk)
  BY <1>1, <1>2, RowsAreTasks DEF Drafts
<1>3. F([task EXCEPT ![t].state = v])
  BY <1>1 DEF Drafts, SameLine, Fields
<1>4. F([task EXCEPT ![t].archived = v])
  BY <1>1 DEF Drafts, SameLine, Fields
<1>5. F([task EXCEPT ![t].held = v])
  BY <1>1 DEF Drafts, SameLine, Fields
<1>6. \A r \in 0..MaxRound : F([task EXCEPT ![t].state = v, ![t].round = r])
  BY <1>1 DEF Drafts, SameLine, Fields
<1> HIDE DEF F
<1> QED BY <1>2, <1>3, <1>4, <1>5, <1>6

LEMMA SpawnJoins ==
  ASSUME Table, NEW p \in Rows, NEW k, NEW r \in 0..MaxRound
  PROVE  /\ DOMAIN Spawn(p, k) = Fields /\ Spawn(p, k).round \in 0..MaxRound /\ Joins(Spawn(p, k), p)
         /\ LET s == [Spawn(p, k) EXCEPT !.round = r]
            IN DOMAIN s = Fields /\ s.round \in 0..MaxRound /\ Joins(s, p)
BY RowsAreTasks, TopicsConstants DEF Spawn, Blank, Fields, Joins, Table

LEMMA FollowUpFounds ==
  ASSUME NEW p
  PROVE  DOMAIN FollowUp(p) = Fields /\ FollowUp(p).round \in 0..MaxRound /\ Founds(FollowUp(p))
BY TopicsConstants DEF FollowUp, Blank, Fields, Founds

LEMMA SettleGoes ==
  ASSUME Table, NEW tk, Drafts(tk), NEW p \in Rows, NEW outcome, Settle(tk, p, outcome),
         Entered, ledger' = ledger
  PROVE  Table' /\ (Grows \/ Hands(p))
<1>1. CASE task' = [tk EXCEPT ![p].state = outcome] /\ UNCHANGED used
  <2> DEFINE z == [tk EXCEPT ![p].state = outcome]
  <2>1. Drafts(z)
    BY RowsAreTasks DEF Drafts, SameLine, Fields
  <2> HIDE DEF z
  <2>2. task' = z /\ used' = used
    BY <1>1 DEF z
  <2> QED BY <2>1, <2>2, DraftsStay
<1>2. CASE /\ used < Room /\ used' = used + 1
           /\ task' = Insert([tk EXCEPT ![p].state = "approved"],
                             <<IF outcome = "merge" THEN Spawn(p, "merge") ELSE FollowUp(p)>>)
  <2> DEFINE z == [tk EXCEPT ![p].state = "approved"]
             r == IF outcome = "merge" THEN Spawn(p, "merge") ELSE FollowUp(p)
  <2>1. Drafts(z)
    BY RowsAreTasks DEF Drafts, SameLine, Fields
  <2>2. DOMAIN r = Fields /\ r.round \in 0..MaxRound /\ (Founds(r) \/ \E q \in Rows : Joins(r, q))
    <3>1. CASE outcome = "merge"
      <4>1. r = Spawn(p, "merge") /\ 0 \in 0..MaxRound
        BY <3>1, TopicsConstants
      <4> HIDE DEF r
      <4> QED BY <4>1, SpawnJoins
    <3>2. CASE outcome # "merge"
      <4>1. r = FollowUp(p)
        BY <3>2
      <4> HIDE DEF r
      <4> QED BY <4>1, FollowUpFounds
    <3> QED BY <3>1, <3>2
  <2> HIDE DEF z, r
  <2>3. task' = Insert(z, <<r>>) /\ used < Room /\ used' = used + 1
    BY <1>2 DEF z, r
  <2> QED BY <2>1, <2>2, <2>3, DraftGrows
<1>3. CASE used < Room /\ used' = used + 1 /\ task' = Insert(tk, <<Spawn(p, "adjudication")>>)
  <2>0. PICK r : r = Spawn(p, "adjudication")
    OBVIOUS
  <2>1. DOMAIN r = Fields /\ r.round \in 0..MaxRound /\ (Founds(r) \/ \E q \in Rows : Joins(r, q))
    <3>1. 0 \in 0..MaxRound
      BY TopicsConstants
    <3> QED BY <2>0, <3>1, SpawnJoins
  <2>2. task' = Insert(tk, <<r>>) /\ used < Room /\ used' = used + 1
    BY <1>3, <2>0
  <2> QED BY <2>1, <2>2, DraftGrows
<1>4. CASE Replace(tk, p, "ready")
  BY <1>4, ReplaceHands
<1> QED BY <1>1, <1>2, <1>3, <1>4 DEF Settle

\* A priority action asks for the priority of a whole topic.
Asks(q) ==
  /\ q.task \in Rows /\ q.action \in {"set", "front"} /\ q.key \in Int /\ q.asked \in Int
  /\ q.action = "set" => q.asked \in 1..MaxManualPriority
  /\ Recorded(q.key) = {} /\ Apply(q)

LEMMA CreateGoes == ASSUME Table, Create PROVE Table' /\ Grows
<1>1. PICK p, o : CreateTask(p, o)
  BY DEF Create
<1> DEFINE r == [Blank EXCEPT !.state = "backlog", !.priority = p, !.optsIn = o]
<1>2. DOMAIN r = Fields /\ r.round \in 0..MaxRound /\ Founds(r)
  BY <1>1, TopicsConstants DEF CreateTask, Blank, Fields, Founds
<1>3. used < Room /\ used' = used + 1 /\ task' = Insert(task, <<r>>) /\ ledger' = ledger
  BY <1>1 DEF CreateTask
<1>4. Entered
  BY <1>1 DEF CreateTask, Entered, Table
<1> HIDE DEF r
<1> QED BY <1>2, <1>3, <1>4, TaskIsDraft, DraftGrows

LEMMA SubmitGoes ==
  ASSUME Table, NEW t \in Rows, NEW m \in Here.offers \cup {None}, Submit(t, m)
  PROVE  Table' /\ Grows
<1> DEFINE r == task[t].round + 1
           tk == [task EXCEPT ![t].state = "review", ![t].round = r]
           row == [Spawn(t, "review") EXCEPT !.round = r]
<1>1. r \in 1..MaxRound /\ t \in TaskIds
  BY RowsAreTasks, TopicsConstants DEF Submit, Table
<1>2. /\ used < Room /\ used' = used + 1 /\ task' = Insert(tk, <<row>>)
      /\ manifest' = [manifest EXCEPT ![t][r] = m] /\ env' = env /\ ledger' = ledger
  BY DEF Submit
<1> HIDE DEF r
<1>3. DOMAIN row = Fields /\ row.round \in 0..MaxRound /\ Joins(row, t)
  <2>1. r \in 0..MaxRound
    BY <1>1
  <2> QED BY <2>1, SpawnJoins
<1>4. Drafts(tk)
  <2>1. r \in 0..MaxRound
    BY <1>1
  <2> QED BY <2>1, EditIsDraft
<1>5. Entered
  <2>1. manifest \in [TaskIds -> [1..MaxRound -> Here.offers \cup {None}]]
    BY DEF Table
  <2>2. manifest' \in [TaskIds -> [1..MaxRound -> Here.offers \cup {None}]]
    BY <1>1, <1>2, <2>1
  <2> QED BY <1>2, <2>2 DEF Entered
<1> HIDE DEF tk, row
<1> QED BY <1>2, <1>3, <1>4, <1>5, DraftGrows

LEMMA VoteGoes ==
  ASSUME Table, Lineage, NEW c \in Rows, NEW outcome, Vote(c, outcome)
  PROVE  Table' /\ (Grows \/ \E p \in Rows : Hands(p))
<1> DEFINE p == task[c].target
           tk == [task EXCEPT ![c].state = "done"]
<1>1. Drafts(tk)
  BY EditIsDraft
<1>2. Entered /\ ledger' = ledger
  BY DEF Vote, Entered, Table
<1>3. (p # 0 /\ Settle(tk, p, outcome)) \/ (task' = tk /\ used' = used)
  BY DEF Vote
<1>4. p # 0 => p \in Rows
  BY RowsAreTasks DEF Lineage, Rows
<1> HIDE DEF tk, p
<1>5. CASE task' = tk /\ used' = used
  BY <1>1, <1>2, <1>5, DraftsStay
<1>6. CASE p # 0 /\ Settle(tk, p, outcome)
  BY <1>1, <1>2, <1>4, <1>6, SettleGoes
<1> QED BY <1>3, <1>5, <1>6

LEMMA TransitionGoes ==
  ASSUME Table, NEW t \in Rows, NEW to, TransitionTask(t, to)
  PROVE  Table' /\ Grows
<1> DEFINE tk == [task EXCEPT ![t].state = to]
<1>1. Drafts(tk)
  BY EditIsDraft
<1>2. Entered /\ ledger' = ledger
  BY DEF TransitionTask, Entered, Table
<1>3. \/ Planned(t) # None /\ InsertChildren(tk, t, Planned(t))
      \/ task' = tk /\ used' = used
  BY DEF TransitionTask, Continues
<1>4. Planned(t) # None => Planned(t) \in Here.offers
  <2>1. t \in TaskIds /\ task[t].round \in 0..MaxRound
    BY RowsAreTasks DEF Table
  <2>2. task[t].round # 0 => task[t].round \in 1..MaxRound
    BY <2>1, TopicsConstants
  <2> QED BY <2>1, <2>2 DEF Planned, Table
<1> HIDE DEF tk
<1>5. CASE task' = tk /\ used' = used
  BY <1>1, <1>2, <1>5, DraftsStay
<1>6. CASE Planned(t) # None /\ InsertChildren(tk, t, Planned(t))
  BY <1>1, <1>2, <1>4, <1>6, ChildrenGrow
<1> QED BY <1>3, <1>5, <1>6

LEMMA ConvergeGoes ==
  ASSUME Table, NEW t \in Rows, Converge(t)
  PROVE  Table' /\ Grows
<1>1. Entered /\ ledger' = ledger /\ used' = used
  BY DEF Converge, Entered, Table
<1>2. Drafts(task')
  <2>1. DOMAIN task' = TaskIds
    BY DEF Converge
  <2>2. ASSUME NEW x \in TaskIds
        PROVE  \E v : task'[x] = [task[x] EXCEPT !.state = v] \/ task'[x] = task[x]
    BY <2>2 DEF Converge
  <2>3. ASSUME NEW x \in TaskIds \ Rows PROVE task'[x] = Blank
    <3>1. task[x] = Blank /\ x # t
      BY DEF Table
    <3>2. task[x].kind = "implement"
      BY <3>1 DEF Blank
    <3> QED BY <3>1, <3>2 DEF Converge
  <2>4. ASSUME NEW x \in TaskIds
        PROVE  /\ DOMAIN task'[x] = Fields /\ task'[x].round \in 0..MaxRound
               /\ SameLine(task'[x], task[x]) /\ task'[x].successor = task[x].successor
               /\ task'[x].priority = task[x].priority
    BY <2>2 DEF Table, SameLine, Fields
  <2> QED BY <2>1, <2>3, <2>4, RowsAreTasks DEF Drafts
<1>3. PICK tk : tk = task' /\ Drafts(tk)
  BY <1>2
<1> QED BY <1>1, <1>3, DraftsStay

LEMMA OperateGoes ==
  ASSUME Table, NEW t \in Rows, Operate(t)
  PROVE  Table' /\ (Grows \/ \E p \in Rows : Hands(p))
<1>1. CASE Promote(t)
  BY <1>1, EditIsDraft, DraftsStay DEF Promote, Entered, Table
<1>2. ASSUME NEW to, TransitionTask(t, to) PROVE Table' /\ Grows
  BY <1>2, TransitionGoes
<1>3. CASE Converge(t)
  BY <1>3, ConvergeGoes
<1>4. CASE SupersedeTask(t)
  <2>1. Entered /\ ledger' = ledger
    BY <1>4 DEF SupersedeTask, Entered, Table
  <2> QED BY <1>4, <2>1, TaskIsDraft, ReplaceHands DEF SupersedeTask
<1>5. ASSUME NEW b, Archive(t, b) PROVE Table' /\ Grows
  BY <1>5, EditIsDraft, DraftsStay DEF Archive, Entered, Table
<1>6. ASSUME NEW b, Hold(t, b) PROVE Table' /\ Grows
  BY <1>6, EditIsDraft, DraftsStay DEF Hold, Entered, Table
<1> QED BY <1>1, <1>2, <1>3, <1>4, <1>5, <1>6 DEF Operate

LEMMA WorkGoes ==
  ASSUME Table, Lineage, NEW t \in Rows, Work(t)
  PROVE  Table' /\ (Grows \/ \E p \in Rows : Hands(p))
<1>1. CASE Claim(t)
  BY <1>1, EditIsDraft, DraftsStay DEF Claim, Entered, Table
<1>2. ASSUME NEW m \in Here.offers \cup {None}, Submit(t, m) PROVE Table' /\ Grows
  BY <1>2, SubmitGoes
<1>3. ASSUME NEW outcome, Vote(t, outcome) PROVE Table' /\ (Grows \/ \E p \in Rows : Hands(p))
  BY <1>3, VoteGoes
<1> QED BY <1>1, <1>2, <1>3 DEF Work

LEMMA AskGoes ==
  ASSUME Table, Ask
  PROVE  (Table' /\ \E q : Asks(q)) \/ UNCHANGED vars
<1>1. PICK q : /\ q.task \in Rows /\ q.action \in {"set", "front"} /\ q.key \in Int /\ q.asked \in Int
               /\ q.action = "set" => q.asked \in 1..MaxManualPriority
               /\ Perform(q)
  <2>1. ASSUME NEW t \in Rows, NEW key \in Int, NEW p, SetPriority(key, t, p)
        PROVE  \E q : /\ q.task \in Rows /\ q.action \in {"set", "front"} /\ q.key \in Int /\ q.asked \in Int
                      /\ q.action = "set" => q.asked \in 1..MaxManualPriority
                      /\ Perform(q)
    <3> DEFINE q == [key |-> key, action |-> "set", task |-> t, asked |-> p]
    <3>1. /\ q.task \in Rows /\ q.action = "set" /\ q.asked \in 1..MaxManualPriority
          /\ q.key \in Int /\ Perform(q)
      BY <2>1 DEF SetPriority
    <3> HIDE DEF q
    <3> QED BY <3>1
  <2>2. ASSUME NEW t \in Rows, NEW key \in Int, MoveToFront(key, t)
        PROVE  \E q : /\ q.task \in Rows /\ q.action \in {"set", "front"} /\ q.key \in Int /\ q.asked \in Int
                      /\ q.action = "set" => q.asked \in 1..MaxManualPriority
                      /\ Perform(q)
    <3> DEFINE q == [key |-> key, action |-> "front", task |-> t, asked |-> 0]
    <3>1. q.task \in Rows /\ q.action = "front" /\ q.key \in Int /\ q.asked = 0 /\ Perform(q)
      BY <2>2 DEF MoveToFront
    <3> HIDE DEF q
    <3> QED BY <3>1
  <2> QED BY <2>1, <2>2 DEF Ask
<1>2. CASE Recorded(q.key) # {}
  BY <1>1, <1>2 DEF Perform
<1>3. CASE Recorded(q.key) = {}
  <2>1. Apply(q)
    BY <1>1, <1>3 DEF Perform
  <2>2. Table'
    <3>1. /\ used' = used /\ env' = env /\ manifest' = manifest /\ DOMAIN task' = TaskIds
          /\ \A t \in TaskIds : task'[t] = task[t] \/ (t \in Rows /\ \E p : task'[t] = [task[t] EXCEPT !.priority = p])
      BY <2>1 DEF Apply, Members
    <3> QED BY <3>1 DEF Table, Rows, Room, Here, TaskIds, Fields, Blank
  <2> QED BY <1>1, <1>3, <2>1, <2>2 DEF Asks
<1> QED BY <1>2, <1>3

\* Every step adds rows, or none, or replaces a row, or asks for a priority.
LEMMA WaysToStep ==
  ASSUME Table, Lineage, [Next]_vars
  PROVE  Table' /\ (Grows \/ (\E p \in Rows : Hands(p)) \/ \E q : Asks(q))
<1>1. CASE Next
  <2>1. CASE Create
    BY <2>1, CreateGoes
  <2>2. CASE Ask
    <3>1. CASE UNCHANGED vars
      BY <3>1, TaskIsDraft, DraftsStay DEF vars, Entered, Table
    <3> QED BY <2>2, <3>1, AskGoes
  <2>3. ASSUME NEW t \in Rows, Operate(t) \/ Work(t)
        PROVE  Table' /\ (Grows \/ \E p \in Rows : Hands(p))
    BY <2>3, OperateGoes, WorkGoes
  <2> QED BY <1>1, <2>1, <2>2, <2>3 DEF Next
<1>2. CASE UNCHANGED vars
  BY <1>2, TaskIsDraft, DraftsStay DEF vars, Entered, Table
<1> QED BY <1>1, <1>2

-----------------------------------------------------------------------------
(* A row keeps its topic, or becomes a stray *)

Kept == /\ used' \in Nat /\ used' >= used
        /\ \A t \in Rows : Parents(t)' = Parents(t) \/ (Parents(t)' = {} /\ t \in Strays')
        /\ Strays \subseteq Strays' /\ Strays' \subseteq Rows

LEMMA GrowsKeeps ==
  ASSUME Table, Lineage, Table', Grows
  PROVE  /\ Lineage' /\ Kept
         /\ \A n \in (used + 1)..used' :
              /\ Founds(task'[n]) => Parents(n)' = {}
              /\ \A p \in Rows : Joins(task'[n], p) => Parents(n)' = {p}
<1>1. used \in Nat /\ used' \in Nat /\ used' >= used /\ Rows \subseteq Rows' /\ Rows = 1..used
  BY RowsAreTasks DEF Grows, Rows
<1>2. ASSUME NEW n \in (used + 1)..used'
      PROVE  /\ task'[n].successor = 0 /\ task'[n].replaces = 0
             /\ \/ task'[n].target = 0 /\ task'[n].origin = None
                \/ \E p \in Rows : \/ task'[n].target = p /\ task'[n].origin = None
                                   \/ task'[n].target = 0 /\ task'[n].origin # None /\ task'[n].origin.parent = p
  BY DEF Grows, Founds, Joins
<1>3. \A t \in Rows' : t \in Rows \/ t \in (used + 1)..used'
  BY <1>1 DEF Rows
<1>4. Lineage'
  <2> SUFFICES ASSUME NEW t \in Rows'
      PROVE  /\ task'[t].target \in 0..(t - 1)
             /\ task'[t].origin # None => task'[t].origin.parent \in 1..(t - 1)
             /\ task'[t].successor # 0 =>
                  task'[t].successor \in (t + 1)..used' /\ task'[task'[t].successor].replaces = t
             /\ task'[t].replaces # 0 =>
                  task'[t].replaces \in 1..(t - 1) /\ task'[t].target = 0 /\ task'[t].origin = None
    BY DEF Lineage
  <2>1. CASE t \in Rows
    <3>1. SameLine(task'[t], task[t]) /\ task'[t].successor = task[t].successor
      BY <2>1 DEF Grows
    <3>2. task[t].successor # 0 =>
            task[t].successor \in Rows /\ task'[task[t].successor].replaces = task[task[t].successor].replaces
      BY <1>1, <2>1 DEF Grows, SameLine, Lineage, Rows
    <3> QED BY <1>1, <2>1, <3>1, <3>2 DEF SameLine, Lineage
  <2>2. CASE t \in (used + 1)..used'
    BY <1>1, <1>2, <2>2
  <2> QED BY <1>3, <2>1, <2>2
<1>5. \A t \in Rows : Superseded(t)' = Superseded(t)
  <2> SUFFICES ASSUME NEW t \in Rows, NEW o \in Rows'
               PROVE  task'[o].successor = t <=> o \in Rows /\ task[o].successor = t
    BY <1>1 DEF Superseded
  <2>1. t # 0
    BY <1>1
  <2> QED BY <1>2, <1>3, <2>1, <1>1 DEF Grows
<1>6. \A t \in Rows : Parents(t)' = Parents(t)
  BY <1>5 DEF Parents, Grows, SameLine
<1>7. Strays' = Strays
  <2>1. ASSUME NEW t \in Rows
        PROVE  t \in Strays' <=> t \in Strays
    <3>1. task'[t].replaces = task[t].replaces
      BY DEF Grows, SameLine
    <3>2. task[t].replaces # 0 => task[t].replaces \in Rows
      BY <1>1 DEF Lineage
    <3>3. task[t].replaces # 0 => task'[task[t].replaces].successor = task[task[t].replaces].successor
      BY <3>2 DEF Grows
    <3> QED BY <1>1, <3>1, <3>2, <3>3 DEF Strays
  <2>2. \A t \in Rows' : t \in Strays' => t \in Rows
    BY <1>2, <1>3 DEF Strays
  <2> QED BY <1>1, <2>1, <2>2 DEF Strays
<1>8. ASSUME NEW n \in (used + 1)..used'
      PROVE  /\ Founds(task'[n]) => Parents(n)' = {}
             /\ \A p \in Rows : Joins(task'[n], p) => Parents(n)' = {p}
  <2>1. Superseded(n)' = {}
    <3> SUFFICES ASSUME NEW o \in Rows', task'[o].successor = n PROVE FALSE
      BY DEF Superseded
    <3>1. n # 0 /\ n \notin Rows
      BY <1>1
    <3>2. o \in Rows /\ task[o].successor = n
      BY <1>2, <1>3, <3>1 DEF Grows
    <3> QED BY <1>1, <3>1, <3>2 DEF Lineage
  <2>2. \A p \in Rows : p # 0
    BY <1>1
  <2> QED BY <2>1, <2>2 DEF Parents, Founds, Joins
<1> QED BY <1>1, <1>4, <1>6, <1>7, <1>8 DEF Kept, Strays

LEMMA HandsKeeps ==
  ASSUME Table, Lineage, Table', NEW p \in Rows, Hands(p)
  PROVE  /\ Lineage' /\ Kept
         /\ \A n \in {used + 1} : Parents(n)' = {p}
<1>0. PICK n : n = used + 1
  OBVIOUS
<1>1. used \in Nat /\ used' = n /\ Rows' = Rows \cup {n} /\ n \notin Rows /\ Rows = 1..used
  BY <1>0, RowsAreTasks DEF Hands, Rows
<1>2. /\ task'[n].successor = 0 /\ task'[n].replaces = p /\ task'[n].target = 0 /\ task'[n].origin = None
      /\ task'[p].successor = n
  BY <1>0 DEF Hands
<1>3. Lineage'
  <2> SUFFICES ASSUME NEW t \in Rows'
      PROVE  /\ task'[t].target \in 0..(t - 1)
             /\ task'[t].origin # None => task'[t].origin.parent \in 1..(t - 1)
             /\ task'[t].successor # 0 =>
                  task'[t].successor \in (t + 1)..used' /\ task'[task'[t].successor].replaces = t
             /\ task'[t].replaces # 0 =>
                  task'[t].replaces \in 1..(t - 1) /\ task'[t].target = 0 /\ task'[t].origin = None
    BY DEF Lineage
  <2>1. CASE t \in Rows
    <3>1. SameLine(task'[t], task[t]) /\ (t # p => task'[t].successor = task[t].successor)
      BY <2>1 DEF Hands
    <3>2. task[t].successor # 0 =>
            task[t].successor \in Rows /\ task'[task[t].successor].replaces = task[task[t].successor].replaces
      BY <1>1, <2>1 DEF Hands, SameLine, Lineage, Rows
    <3>3. /\ task'[t].target \in 0..(t - 1)
          /\ task'[t].origin # None => task'[t].origin.parent \in 1..(t - 1)
          /\ task'[t].replaces # 0 =>
               task'[t].replaces \in 1..(t - 1) /\ task'[t].target = 0 /\ task'[t].origin = None
      BY <2>1, <3>1 DEF SameLine, Lineage
    <3>4. CASE t = p
      BY <1>0, <1>1, <1>2, <3>3, <3>4
    <3>5. CASE t # p
      <4>1. task[t].successor # 0 =>
              task[t].successor \in (t + 1)..used /\ task[task[t].successor].replaces = t
        BY <2>1 DEF Lineage
      <4> QED BY <1>0, <1>1, <2>1, <3>1, <3>2, <3>3, <3>5, <4>1
    <3> QED BY <3>4, <3>5
  <2>2. CASE t = n
    BY <1>0, <1>1, <1>2, <2>2
  <2> QED BY <1>1, <2>1, <2>2
<1>4. Strays \subseteq Strays' /\ Strays' \subseteq Rows
  <2>1. ASSUME NEW t \in Strays PROVE t \in Strays'
    <3>1. t \in Rows /\ task[t].replaces # 0 /\ task[task[t].replaces].successor # t
      BY DEF Strays
    <3>2. task[t].replaces \in Rows /\ task'[t].replaces = task[t].replaces
      BY <1>1, <3>1 DEF Lineage, Hands, SameLine
    <3>3. task'[task[t].replaces].successor # t
      BY <1>1, <1>2, <3>1, <3>2 DEF Hands
    <3> QED BY <1>1, <3>1, <3>2, <3>3 DEF Strays
  <2>2. n \notin Strays'
    BY <1>2 DEF Strays
  <2> QED BY <1>1, <2>1, <2>2 DEF Strays
<1>5. ASSUME NEW t \in Rows PROVE Parents(t)' = Parents(t) \/ (Parents(t)' = {} /\ t \in Strays')
  <2>1. SameLine(task'[t], task[t])
    BY DEF Hands
  <2>2. CASE task[p].successor = t
    <3>1. task[t].replaces = p /\ task[t].target = 0 /\ task[t].origin = None /\ p # 0 /\ t # 0
      BY <1>1, <2>2 DEF Lineage
    <3>2. Superseded(t)' = {}
      <4> SUFFICES ASSUME NEW o \in Rows', task'[o].successor = t PROVE FALSE
        BY DEF Superseded
      <4>1. o \in Rows /\ o # p /\ task[o].successor = t
        BY <1>1, <1>2, <3>1 DEF Hands
      <4> QED BY <1>1, <3>1, <4>1 DEF Lineage
    <3>3. Parents(t)' = {}
      BY <2>1, <3>1, <3>2 DEF Parents, SameLine
    <3>4. t \in Strays'
      BY <1>1, <1>2, <2>1, <3>1 DEF Strays, SameLine
    <3> QED BY <3>3, <3>4
  <2>3. CASE task[p].successor # t
    <3>1. Superseded(t)' = Superseded(t)
      <4> SUFFICES ASSUME NEW o \in Rows'
                   PROVE  task'[o].successor = t <=> o \in Rows /\ task[o].successor = t
        BY <1>1 DEF Superseded
      <4>1. t # 0 /\ t # n
        BY <1>1
      <4> QED BY <1>1, <1>2, <2>3, <4>1 DEF Hands
    <3> QED BY <2>1, <3>1 DEF Parents, SameLine
  <2> QED BY <2>2, <2>3
<1>6. Parents(n)' = {p}
  <2>1. Superseded(n)' = {p}
    <3>1. p \in Rows' /\ p # n /\ task'[p].successor = n
      BY <1>1, <1>2
    <3>2. ASSUME NEW o \in Rows', task'[o].successor = n PROVE o = p
      <4>1. n # 0 /\ n = used + 1
        BY <1>0, <1>1
      <4>2. o # p => o \in Rows /\ task[o].successor = n
        BY <1>1, <1>2, <3>2, <4>1 DEF Hands
      <4> QED BY <1>1, <4>1, <4>2 DEF Lineage
    <3> QED BY <3>1, <3>2 DEF Superseded
  <2>2. Min({p}) = p
    BY <1>1 DEF Min
  <2> QED BY <1>2, <2>1, <2>2 DEF Parents
<1>7. used' \in Nat /\ used' >= used
  BY <1>0, <1>1
<1> QED BY <1>0, <1>3, <1>4, <1>5, <1>6, <1>7 DEF Kept

LEMMA AsksKeeps ==
  ASSUME Table, Lineage, Table', NEW q, Asks(q)
  PROVE  /\ Lineage' /\ Kept /\ Strays' = Strays /\ used' = used
         /\ \A t \in Rows : Parents(t)' = Parents(t)
<1>1. /\ used' = used /\ used \in Nat /\ Rows' = Rows /\ Rows = 1..used
      /\ \A t \in Rows : SameLine(task'[t], task[t]) /\ task'[t].successor = task[t].successor
  <2>1. \A t \in TaskIds : task'[t] = task[t] \/ \E p : task'[t] = [task[t] EXCEPT !.priority = p]
    BY DEF Asks, Apply
  <2> QED BY <2>1, RowsAreTasks DEF Asks, Apply, Table, SameLine, Fields, Rows
<1>2. Lineage'
  <2> SUFFICES ASSUME NEW t \in Rows
      PROVE  /\ task'[t].target \in 0..(t - 1)
             /\ task'[t].origin # None => task'[t].origin.parent \in 1..(t - 1)
             /\ task'[t].successor # 0 =>
                  task'[t].successor \in (t + 1)..used' /\ task'[task'[t].successor].replaces = t
             /\ task'[t].replaces # 0 =>
                  task'[t].replaces \in 1..(t - 1) /\ task'[t].target = 0 /\ task'[t].origin = None
    BY <1>1 DEF Lineage
  <2>1. task[t].successor # 0 =>
          /\ task[t].successor \in (t + 1)..used /\ task[task[t].successor].replaces = t
          /\ task'[task[t].successor].replaces = task[task[t].successor].replaces
    BY <1>1 DEF Lineage, SameLine
  <2>2. SameLine(task'[t], task[t]) /\ task'[t].successor = task[t].successor
    BY <1>1
  <2>3. /\ task'[t].target \in 0..(t - 1)
        /\ task'[t].origin # None => task'[t].origin.parent \in 1..(t - 1)
        /\ task'[t].replaces # 0 =>
             task'[t].replaces \in 1..(t - 1) /\ task'[t].target = 0 /\ task'[t].origin = None
    BY <2>2 DEF SameLine, Lineage
  <2> QED BY <1>1, <2>1, <2>2, <2>3
<1>3. \A t \in Rows : Superseded(t)' = Superseded(t)
  BY <1>1 DEF Superseded
<1>4. \A t \in Rows : Parents(t)' = Parents(t)
  BY <1>1, <1>3 DEF Parents, SameLine
<1>5. Strays' = Strays
  <2>1. \A t \in Rows : task[t].replaces # 0 => task[t].replaces \in Rows
    BY <1>1 DEF Lineage
  <2> QED BY <1>1, <2>1 DEF Strays, SameLine
<1> QED BY <1>1, <1>2, <1>4, <1>5 DEF Kept, Strays

LEMMA RootsStay ==
  ASSUME Table, RootFacts, RootFacts', Kept
  PROVE  /\ \A t \in Rows : Root(t)' = Root(t) \/ Root(t)' \in Strays'
         /\ (\A t \in Rows : Parents(t)' = Parents(t)) => \A t \in Rows : Root(t)' = Root(t)
<1>1. used \in Nat /\ Rows = 1..used /\ Rows \subseteq Rows'
  BY RowsAreTasks DEF Rows, Kept
<1> DEFINE same == \A t \in Rows : Parents(t)' = Parents(t)
           Stays(t) == Root(t)' = Root(t) \/ (Root(t)' \in Strays' /\ ~same)
           P == {n \in Nat : \A t \in Rows : t <= n => Stays(t)}
<1>2. 0 \in P
  BY <1>1
<1>3. ASSUME NEW n \in Nat, n \in P PROVE n + 1 \in P
  <2> SUFFICES ASSUME NEW t \in Rows, t = n + 1 PROVE Stays(t)
    BY <1>1, <1>3
  <2>1. CASE Parents(t)' # Parents(t)
    <3>1. Parents(t)' = {} /\ t \in Strays' /\ ~same
      BY <2>1 DEF Kept
    <3>2. Root(t)' = t
      BY <1>1, <3>1 DEF RootFacts
    <3> QED BY <3>1, <3>2
  <2>2. CASE Parents(t)' = Parents(t) /\ Parents(t) = {}
    <3>1. Root(t) = t
      BY <2>2 DEF RootFacts
    <3>2. Root(t)' = t
      BY <1>1, <2>2 DEF RootFacts
    <3> QED BY <3>1, <3>2
  <2>3. CASE Parents(t)' = Parents(t) /\ Parents(t) # {}
    <3>1. PICK x : x \in Parents(t)
      BY <2>3
    <3>2. x \in Rows /\ x < t /\ Root(t) = Root(x)
      BY <3>1 DEF RootFacts
    <3>3. Root(t)' = Root(x)'
      BY <1>1, <2>3, <3>1 DEF RootFacts
    <3>4. Stays(x)
      BY <1>1, <1>3, <3>2
    <3> QED BY <3>2, <3>3, <3>4
  <2> QED BY <2>1, <2>2, <2>3
<1>4. ASSUME NEW t \in Rows PROVE Stays(t)
  <2>1. t \in Nat
    BY <1>1
  <2>2. Nat \subseteq P
    <3> HIDE DEF P
    <3> QED BY <1>2, <1>3, NatSetInduction
  <2> QED BY <2>1, <2>2
<1> QED BY <1>4

-----------------------------------------------------------------------------
(* The queue *)

Entries == [key : Int, action : {"set", "front"}, task : TaskIds, asked : Int,
            anchor : TaskIds, old : Nat, new : Nat, asleep : SUBSET TaskIds]

Tops == {x \in Rows : Parents(x) = {}}

\* What the ledger says of topics: each action is on a topic's first row, which has the
\* value the last action on it gave.
Anchored ==
  \A i \in DOMAIN ledger :
    /\ ledger[i].anchor \in Tops /\ ledger[i].asleep \subseteq Rows
    /\ ledger[i].action = "set" => ledger[i].new <= MaxManualPriority
    /\ ledger[i].action = "front" => ledger[i].new > MaxManualPriority
Chained ==
  \A i, j \in DOMAIN ledger :
    i < j => /\ ledger[i].key # ledger[j].key
             /\ ledger[i].anchor = ledger[j].anchor
                /\ (\A k \in i + 1..j - 1 : ledger[k].anchor # ledger[i].anchor)
                  => ledger[j].old = ledger[i].new
LastHolds ==
  \A i \in DOMAIN ledger :
    (\A j \in DOMAIN ledger : j > i => ledger[j].anchor # ledger[i].anchor) =>
      task[ledger[i].anchor].priority = ledger[i].new
Unasked ==
  \A a \in Rows : Parents(a) = {} /\ a \notin Strays /\ (\A i \in DOMAIN ledger : ledger[i].anchor # a) =>
    task[a].priority <= MaxManualPriority
\* A topic is before the front only if it was asleep then, or was moved to the front since.
Fronted ==
  \A i \in DOMAIN ledger : ledger[i].action = "front" =>
    \A b \in Rows :
      /\ Parents(b) = {} /\ b \notin Strays /\ b # ledger[i].anchor /\ b \notin ledger[i].asleep
      /\ \A j \in DOMAIN ledger : j > i /\ ledger[j].anchor = b => ledger[j].action = "set"
      => task[b].priority < ledger[i].new
\* The rows of a topic have the priority of its first.
Follows ==
  \A t \in Rows : /\ task[t].priority \in Nat
                  /\ Root(t) \notin Strays => task[t].priority = Effective(t)

QueueInv ==
  /\ Table /\ Lineage /\ ledger \in Seq(Entries)
  /\ Anchored /\ Chained /\ LastHolds /\ Unasked /\ Fronted /\ Follows

\* Steps that leave the ledger alone: new rows join a topic at its priority, or begin one
\* at a priority below the front.
LEMMA RowsKeepQueue ==
  ASSUME QueueInv, Table', Lineage', Kept, RootFacts, RootFacts', ledger' = ledger,
         \A t \in Rows : task'[t].priority = task[t].priority,
         \A n \in Rows' \ Rows :
           \/ Parents(n)' = {} /\ task'[n].priority \in 1..MaxManualPriority
           \/ \E p \in Rows : Parents(n)' = {p} /\ task'[n].priority = Effective(p)
  PROVE  QueueInv'
<1>1. Rows \subseteq Rows' /\ Rows \subseteq TaskIds /\ used \in Nat /\ Rows' \ Rows \subseteq Nat
  BY RowsAreTasks DEF QueueInv, Rows, Kept
<1>2. \A t \in Rows : Root(t)' = Root(t) \/ Root(t)' \in Strays'
  BY RootsStay DEF QueueInv
<1>3. \A t \in Rows : Parents(t) = {} => Parents(t)' = {}
  BY DEF Kept
<1>4. ledger' \in Seq(Entries)
  BY DEF QueueInv
<1>5. Anchored'
  <2>1. Tops \subseteq Tops'
    BY <1>1, <1>3 DEF Tops
  <2> QED BY <1>1, <2>1 DEF QueueInv, Anchored
<1>6. Chained'
  BY DEF QueueInv, Chained
<1>7. LastHolds'
  BY <1>1 DEF QueueInv, LastHolds, Anchored, Tops
<1>8. ASSUME NEW b \in Rows', Parents(b)' = {}, b \notin Strays'
      PROVE  \/ b \in Rows /\ Parents(b) = {} /\ b \notin Strays /\ task'[b].priority = task[b].priority
             \/ b \notin Rows /\ task'[b].priority \in 1..MaxManualPriority
  <2>1. CASE b \in Rows
    <3>1. Parents(b) = {}
      BY <1>8, <2>1 DEF Kept
    <3>2. b \notin Strays
      BY <1>8 DEF Kept
    <3> QED BY <2>1, <3>1, <3>2
  <2>2. CASE b \notin Rows
    BY <1>8, <2>2
  <2> QED BY <2>1, <2>2
<1>9. Unasked'
  <2> SUFFICES ASSUME NEW a \in Rows', Parents(a)' = {}, a \notin Strays',
                      \A i \in DOMAIN ledger : ledger[i].anchor # a
               PROVE  task'[a].priority <= MaxManualPriority
    BY DEF Unasked
  <2> QED BY <1>8, TopicsConstants DEF QueueInv, Unasked
<1>10. Fronted'
  <2> SUFFICES ASSUME NEW i \in DOMAIN ledger, ledger[i].action = "front", NEW b \in Rows',
                      Parents(b)' = {}, b \notin Strays', b # ledger[i].anchor, b \notin ledger[i].asleep,
                      \A j \in DOMAIN ledger : j > i /\ ledger[j].anchor = b => ledger[j].action = "set"
               PROVE  task'[b].priority < ledger[i].new
    BY DEF Fronted
  <2>1. CASE b \in Rows
    BY <1>8, <2>1 DEF QueueInv, Fronted
  <2>2. CASE b \notin Rows
    <3>1. ledger[i] \in Entries
      BY DEF QueueInv
    <3>2. ledger[i].new \in Nat /\ ledger[i].new > MaxManualPriority
      BY <3>1 DEF QueueInv, Anchored, Entries
    <3>3. task'[b].priority \in 1..MaxManualPriority
      BY <1>8, <2>2
    <3>4. MaxManualPriority \in Int
      BY TopicsConstants
    <3> QED BY <3>2, <3>3, <3>4
  <2> QED BY <2>1, <2>2
<1>11. Follows'
  <2> SUFFICES ASSUME NEW t \in Rows'
               PROVE  /\ task'[t].priority \in Nat
                      /\ Root(t)' \notin Strays' => task'[t].priority = task'[Root(t)'].priority
    BY DEF Follows, Effective
  <2>1. CASE t \in Rows
    <3>1. task'[t].priority \in Nat
      BY <2>1 DEF QueueInv, Follows
    <3>2. ASSUME Root(t)' \notin Strays' PROVE task'[t].priority = task'[Root(t)'].priority
      <4>1. Root(t)' = Root(t) /\ Root(t) \in Rows /\ Root(t) \notin Strays
        BY <1>2, <2>1, <3>2 DEF RootFacts, Kept
      <4> QED BY <2>1, <4>1 DEF QueueInv, Follows, Effective
    <3> QED BY <3>1, <3>2
  <2>2. CASE t \notin Rows /\ Parents(t)' = {} /\ task'[t].priority \in 1..MaxManualPriority
    <3>1. Root(t)' = t
      BY <2>2 DEF RootFacts
    <3> QED BY <2>2, <3>1
  <2>3. ASSUME t \notin Rows, NEW p \in Rows, Parents(t)' = {p}, task'[t].priority = Effective(p)
        PROVE  /\ task'[t].priority \in Nat
               /\ Root(t)' \notin Strays' => task'[t].priority = task'[Root(t)'].priority
    <3>1. Root(t)' = Root(p)'
      BY <2>3 DEF RootFacts
    <3>2. Root(p) \in Rows
      BY DEF RootFacts
    <3>3. task'[t].priority = task[Root(p)].priority /\ task'[Root(p)].priority = task[Root(p)].priority
      BY <2>3, <3>2 DEF Effective
    <3>4. task[Root(p)].priority \in Nat
      BY <3>2 DEF QueueInv, Follows
    <3> QED BY <1>2, <3>1, <3>3, <3>4
  <2> QED BY <2>1, <2>2, <2>3
<1> QED BY <1>4, <1>5, <1>6, <1>7, <1>9, <1>10, <1>11 DEF QueueInv

\* What is known of the numbers a priority action computes.
LEMMA HighestFacts ==
  ASSUME Table, RootFacts, Follows
  PROVE  /\ Highest \in Nat /\ \A a \in Outstanding : a \in Rows /\ task[a].priority <= Highest
         /\ FrontPriority \in Nat /\ FrontPriority > MaxManualPriority /\ FrontPriority > Highest
<1>1. used \in Nat /\ Rows = 1..used
  BY RowsAreTasks DEF Rows
<1> DEFINE P == {n \in Nat : \E b \in Nat : \A t \in Rows : t <= n => task[t].priority <= b}
<1>2. 0 \in P
  BY <1>1
<1>3. ASSUME NEW n \in Nat, n \in P PROVE n + 1 \in P
  <2>1. PICK b \in Nat : \A t \in Rows : t <= n => task[t].priority <= b
    BY <1>3
  <2>2. CASE n + 1 \in Rows
    <3>1. PICK d : d = task[n + 1].priority /\ d \in Nat
      BY <2>2 DEF Follows
    <3>2. \A t \in Rows : t <= n + 1 => t <= n \/ t = n + 1
      BY <1>1
    <3>3. \A t \in Rows : task[t].priority \in Nat
      BY DEF Follows
    <3>4. b + d \in Nat /\ \A t \in Rows : t <= n + 1 => task[t].priority <= b + d
      BY <2>1, <3>1, <3>2, <3>3
    <3> QED BY <3>4
  <2>3. CASE n + 1 \notin Rows
    <3>1. \A t \in Rows : t <= n + 1 => t <= n
      BY <1>1, <2>3
    <3> QED BY <2>1, <3>1
  <2> QED BY <2>2, <2>3
<1>4. PICK b \in Nat : \A t \in Rows : task[t].priority <= b
  <2>1. used \in P
    <3> HIDE DEF P
    <3> QED BY <1>1, <1>2, <1>3, NatSetInduction
  <2> QED BY <1>1, <2>1
<1> DEFINE S == {task[a].priority : a \in Outstanding} \cup {0}
<1>5. Outstanding \subseteq Rows
  BY DEF Outstanding, RootFacts
<1>6. S \in SUBSET Nat /\ 0 \in S /\ \A x \in S : x <= b
  BY <1>4, <1>5 DEF Follows
<1>7. Highest = Max(S)
  BY DEF Highest
<1>8. \A a \in Outstanding : task[a].priority \in S
  OBVIOUS
<1> HIDE DEF S
<1>9. Highest \in Nat /\ \A x \in S : x <= Highest
  BY <1>6, <1>7, MaxExists
<1> DEFINE T == {MaxManualPriority, Highest}
<1>10. T \in SUBSET Nat /\ \A x \in T : x <= MaxManualPriority + Highest
  BY <1>9, TopicsConstants
<1>11. MaxManualPriority + Highest \in Nat /\ MaxManualPriority \in T /\ Highest \in T
  BY <1>9, TopicsConstants
<1>12. FrontPriority = Max(T) + 1
  BY DEF FrontPriority
<1> HIDE DEF T
<1>13. Max(T) \in Nat /\ MaxManualPriority <= Max(T) /\ Highest <= Max(T)
  BY <1>10, <1>11, MaxExists
<1> QED BY <1>5, <1>8, <1>9, <1>12, <1>13, TopicsConstants

\* An action gives its topic, and no other, a value that the ledger keeps.
LEMMA AsksKeepQueue ==
  ASSUME QueueInv, NEW q, Asks(q), Table', Lineage', RootFacts, RootFacts'
  PROVE  QueueInv'
<1> DEFINE a == Root(q.task)
           p == IF q.action = "front" THEN FrontPriority ELSE q.asked
           e == [key |-> q.key, action |-> q.action, task |-> q.task, asked |-> q.asked,
                 anchor |-> a, old |-> task[a].priority, new |-> p,
                 asleep |-> {Root(t) : t \in Rows} \ Outstanding]
<1>1. Kept /\ Strays' = Strays /\ Rows' = Rows /\ \A t \in Rows : Parents(t)' = Parents(t)
  BY AsksKeeps DEF QueueInv, Rows
<1>2. \A t \in Rows : Root(t)' = Root(t)
  BY <1>1, RootsStay DEF QueueInv
<1>3. /\ Highest \in Nat /\ \A x \in Outstanding : x \in Rows /\ task[x].priority <= Highest
      /\ FrontPriority \in Nat /\ FrontPriority > MaxManualPriority /\ FrontPriority > Highest
  BY HighestFacts DEF QueueInv
<1>4. a \in Rows /\ Parents(a) = {} /\ Root(a) = a /\ task[a].priority \in Nat
  BY DEF Asks, RootFacts, QueueInv, Follows
<1>5. p \in Nat /\ (q.action = "set" => p <= MaxManualPriority)
      /\ (q.action = "front" => p > MaxManualPriority /\ p > Highest)
  BY <1>3, TopicsConstants DEF Asks
<1>6. ASSUME NEW t \in Rows
      PROVE  task'[t].priority = IF Root(t) = a THEN p ELSE task[t].priority
  <2>1. t \in TaskIds /\ (t \in Members(a) <=> Root(t) = a)
    BY <1>4, RowsAreTasks DEF RootFacts, Members, QueueInv
  <2> QED BY <2>1 DEF Asks, Apply, QueueInv, Table, Fields
<1>7. ledger' = Append(ledger, e)
  BY DEF Asks, Apply
<1>8. e \in Entries
  <2>1. Rows \subseteq TaskIds
    BY RowsAreTasks DEF QueueInv
  <2>2. {Root(t) : t \in Rows} \subseteq TaskIds
    BY <2>1 DEF RootFacts
  <2> QED BY <1>4, <1>5, <2>1, <2>2 DEF Asks, Entries
<1>9. /\ e.key = q.key /\ e.action = q.action /\ e.anchor = a /\ e.old = task[a].priority
      /\ e.new = p /\ e.asleep = {Root(t) : t \in Rows} \ Outstanding
  OBVIOUS
<1> HIDE DEF a, p, e
<1>10. PICK n : n = Len(ledger) /\ n \in Nat /\ DOMAIN ledger = 1..n
  BY DEF QueueInv
<1>11. /\ ledger' \in Seq(Entries) /\ DOMAIN ledger' = 1..(n + 1)
       /\ ledger'[n + 1] = e /\ \A i \in 1..n : ledger'[i] = ledger[i]
  BY <1>7, <1>8, <1>10 DEF QueueInv
<1>12. \A i \in 1..n : ledger[i] \in Entries /\ ledger[i].new \in Nat
  <2>1. \A i \in 1..n : ledger[i] \in Entries
    BY <1>10 DEF QueueInv
  <2> QED BY <2>1 DEF Entries
<1>13. \A b \in Rows : Parents(b) = {} => Root(b) = b
  BY DEF RootFacts
<1>14. Anchored'
  <2> SUFFICES ASSUME NEW i \in 1..(n + 1)
               PROVE  /\ ledger'[i].anchor \in Tops' /\ ledger'[i].asleep \subseteq Rows
                      /\ ledger'[i].action = "set" => ledger'[i].new <= MaxManualPriority
                      /\ ledger'[i].action = "front" => ledger'[i].new > MaxManualPriority
    BY <1>1, <1>11 DEF Anchored
  <2>0. Tops' = Tops
    BY <1>1 DEF Tops
  <2>1. CASE i = n + 1
    <3>1. e.asleep \subseteq Rows
      BY <1>9 DEF RootFacts
    <3>2. a \in Tops
      BY <1>4 DEF Tops
    <3> QED BY <1>5, <1>9, <1>11, <2>0, <2>1, <3>1, <3>2
  <2>2. CASE i \in 1..n
    <3>1. /\ ledger[i].anchor \in Tops /\ ledger[i].asleep \subseteq Rows
          /\ ledger[i].action = "set" => ledger[i].new <= MaxManualPriority
          /\ ledger[i].action = "front" => ledger[i].new > MaxManualPriority
      BY <1>10, <2>2 DEF QueueInv, Anchored
    <3> QED BY <1>11, <2>0, <2>2, <3>1
  <2> QED BY <1>10, <2>1, <2>2
<1>15. \A i \in 1..n : ledger[i].anchor \in Rows /\ Parents(ledger[i].anchor) = {}
                       /\ Root(ledger[i].anchor) = ledger[i].anchor
  BY <1>10, <1>13 DEF QueueInv, Anchored, Tops
<1>16. Chained'
  <2> SUFFICES ASSUME NEW i \in 1..(n + 1), NEW j \in 1..(n + 1), i < j
      PROVE  /\ ledger'[i].key # ledger'[j].key
             /\ ledger'[i].anchor = ledger'[j].anchor
                /\ (\A k \in i + 1..j - 1 : ledger'[k].anchor # ledger'[i].anchor)
                  => ledger'[j].old = ledger'[i].new
    BY <1>11 DEF Chained
  <2>1. i \in 1..n /\ ledger'[i] = ledger[i]
    BY <1>10, <1>11
  <2>2. CASE j \in 1..n
    <3>1. ledger'[j] = ledger[j] /\ \A k \in i + 1..j - 1 : ledger'[k] = ledger[k]
      BY <1>10, <1>11, <2>1, <2>2
    <3>2. /\ ledger[i].key # ledger[j].key
          /\ ledger[i].anchor = ledger[j].anchor
             /\ (\A k \in i + 1..j - 1 : ledger[k].anchor # ledger[i].anchor)
               => ledger[j].old = ledger[i].new
      BY <1>10, <2>1, <2>2 DEF QueueInv, Chained
    <3> QED BY <2>1, <3>1, <3>2
  <2>3. CASE j = n + 1
    <3>1. ledger[i].key # q.key
      BY <1>10, <2>1 DEF Asks, Recorded
    <3>2. ASSUME ledger[i].anchor = a, \A k \in i + 1..j - 1 : ledger'[k].anchor # ledger'[i].anchor
          PROVE  task[a].priority = ledger[i].new
      <4>1. \A k \in DOMAIN ledger : k > i => ledger[k].anchor # ledger[i].anchor
        <5> SUFFICES ASSUME NEW k \in 1..n, k > i PROVE ledger[k].anchor # ledger[i].anchor
          BY <1>10
        <5>1. k \in i + 1..j - 1
          BY <1>10, <2>1, <2>3
        <5> QED BY <1>11, <2>1, <3>2, <5>1
      <4> QED BY <1>10, <2>1, <3>2, <4>1 DEF QueueInv, LastHolds
    <3> QED BY <1>9, <1>11, <2>1, <2>3, <3>1, <3>2
  <2> QED BY <1>10, <2>2, <2>3
<1>17. LastHolds'
  <2> SUFFICES ASSUME NEW i \in 1..(n + 1),
                      \A j \in 1..(n + 1) : j > i => ledger'[j].anchor # ledger'[i].anchor
               PROVE  task'[ledger'[i].anchor].priority = ledger'[i].new
    BY <1>11 DEF LastHolds
  <2>1. CASE i = n + 1
    BY <1>4, <1>6, <1>9, <1>11, <2>1
  <2>2. CASE i \in 1..n
    <3>1. ledger'[i] = ledger[i] /\ ledger[i].anchor # a
      BY <1>9, <1>10, <1>11, <2>2
    <3>2. \A j \in DOMAIN ledger : j > i => ledger[j].anchor # ledger[i].anchor
      BY <1>10, <1>11, <2>2
    <3>3. task[ledger[i].anchor].priority = ledger[i].new
      BY <1>10, <2>2, <3>2 DEF QueueInv, LastHolds
    <3> QED BY <1>6, <1>15, <2>2, <3>1, <3>3
  <2> QED BY <1>10, <2>1, <2>2
<1>18. Unasked'
  <2> SUFFICES ASSUME NEW b \in Rows, Parents(b) = {}, b \notin Strays,
                      \A i \in 1..(n + 1) : ledger'[i].anchor # b
               PROVE  task'[b].priority <= MaxManualPriority
    BY <1>1, <1>11 DEF Unasked
  <2>1. b # a /\ \A i \in 1..n : ledger[i].anchor # b
    BY <1>9, <1>10, <1>11
  <2> QED BY <1>6, <1>10, <1>13, <2>1 DEF QueueInv, Unasked
<1>19. Fronted'
  <2> SUFFICES ASSUME NEW i \in 1..(n + 1), ledger'[i].action = "front", NEW b \in Rows,
                      Parents(b) = {}, b \notin Strays, b # ledger'[i].anchor, b \notin ledger'[i].asleep,
                      \A j \in 1..(n + 1) : j > i /\ ledger'[j].anchor = b => ledger'[j].action = "set"
               PROVE  task'[b].priority < ledger'[i].new
    BY <1>1, <1>11 DEF Fronted
  <2>1. CASE i = n + 1
    <3>1. b # a /\ b \in Outstanding /\ q.action = "front"
      BY <1>9, <1>11, <1>13, <2>1
    <3>2. task'[b].priority = task[b].priority /\ task[b].priority <= Highest /\ task[b].priority \in Nat
      BY <1>3, <1>6, <1>13, <3>1 DEF QueueInv, Follows
    <3> QED BY <1>3, <1>5, <1>9, <1>11, <2>1, <3>1, <3>2
  <2>2. CASE i \in 1..n /\ b # a
    <3>1. ledger'[i] = ledger[i] /\ task'[b].priority = task[b].priority
      BY <1>6, <1>11, <1>13, <2>2
    <3>2. \A j \in DOMAIN ledger : j > i /\ ledger[j].anchor = b => ledger[j].action = "set"
      BY <1>10, <1>11, <2>2
    <3>3. task[b].priority < ledger[i].new
      BY <1>10, <2>2, <3>1, <3>2 DEF QueueInv, Fronted
    <3> QED BY <3>1, <3>3
  <2>3. CASE i \in 1..n /\ b = a
    <3>1. q.action = "set"
      BY <1>9, <1>10, <1>11, <2>3
    <3>2. task'[b].priority = p /\ p <= MaxManualPriority
      BY <1>4, <1>5, <1>6, <2>3, <3>1
    <3>3. ledger'[i] = ledger[i] /\ ledger[i].new > MaxManualPriority /\ ledger[i].new \in Nat
      BY <1>10, <1>11, <1>12, <2>3 DEF QueueInv, Anchored
    <3> QED BY <1>5, <3>2, <3>3, TopicsConstants
  <2> QED BY <1>10, <2>1, <2>2, <2>3
<1>20. Follows'
  <2> SUFFICES ASSUME NEW t \in Rows
               PROVE  /\ task'[t].priority \in Nat
                      /\ Root(t) \notin Strays => task'[t].priority = task'[Root(t)].priority
    BY <1>1, <1>2 DEF Follows, Effective
  <2>1. task[t].priority \in Nat /\ (Root(t) \notin Strays => task[t].priority = task[Root(t)].priority)
    BY DEF QueueInv, Follows, Effective
  <2>2. Root(t) \in Rows /\ Root(Root(t)) = Root(t)
    BY DEF RootFacts
  <2> QED BY <1>5, <1>6, <2>1, <2>2
<1> QED BY <1>11, <1>14, <1>16, <1>17, <1>18, <1>19, <1>20 DEF QueueInv

LEMMA NextKeepsQueue == QueueInv /\ [Next]_vars => QueueInv'
<1> SUFFICES ASSUME QueueInv, [Next]_vars PROVE QueueInv'
  OBVIOUS
<1>1. Table /\ Lineage /\ RootFacts /\ Table'
  BY RootsHold, WaysToStep DEF QueueInv
<1>2. used \in Nat /\ used' \in Nat
  BY <1>1, RowsAreTasks DEF Table, Room
<1>3. CASE Grows
  <2>1. /\ Lineage' /\ Kept
        /\ \A n \in (used + 1)..used' :
             /\ Founds(task'[n]) => Parents(n)' = {}
             /\ \A p \in Rows : Joins(task'[n], p) => Parents(n)' = {p}
    BY <1>1, <1>3, GrowsKeeps
  <2>2. RootFacts'
    BY <1>1, <2>1, RootsHoldNext
  <2>3. \A n \in Rows' \ Rows :
          \/ Parents(n)' = {} /\ task'[n].priority \in 1..MaxManualPriority
          \/ \E p \in Rows : Parents(n)' = {p} /\ task'[n].priority = Effective(p)
    <3> SUFFICES ASSUME NEW n \in Rows' \ Rows
        PROVE  \/ Parents(n)' = {} /\ task'[n].priority \in 1..MaxManualPriority
               \/ \E p \in Rows : Parents(n)' = {p} /\ task'[n].priority = Effective(p)
      OBVIOUS
    <3>1. n \in (used + 1)..used'
      BY <1>2 DEF Rows
    <3>2. Founds(task'[n]) \/ \E p \in Rows : Joins(task'[n], p)
      BY <1>3, <3>1 DEF Grows
    <3>3. CASE Founds(task'[n])
      BY <2>1, <3>1, <3>3 DEF Founds
    <3>4. ASSUME NEW p \in Rows, Joins(task'[n], p)
          PROVE  Parents(n)' = {p} /\ task'[n].priority = Effective(p)
      BY <2>1, <3>1, <3>4 DEF Joins
    <3> QED BY <3>2, <3>3, <3>4
  <2>4. ledger' = ledger /\ \A t \in Rows : task'[t].priority = task[t].priority
    BY <1>3 DEF Grows
  <2> QED BY <1>1, <2>1, <2>2, <2>3, <2>4, RowsKeepQueue
<1>4. ASSUME NEW p \in Rows, Hands(p) PROVE QueueInv'
  <2>1. Lineage' /\ Kept /\ \A n \in {used + 1} : Parents(n)' = {p}
    BY <1>1, <1>4, HandsKeeps
  <2>2. RootFacts'
    BY <1>1, <2>1, RootsHoldNext
  <2>3. used' = used + 1 /\ task'[used + 1].priority = Effective(p)
    BY <1>4 DEF Hands
  <2>4. ASSUME NEW n \in Rows' \ Rows PROVE Parents(n)' = {p} /\ task'[n].priority = Effective(p)
    <3>1. n = used + 1
      BY <1>2, <2>3 DEF Rows
    <3> QED BY <2>1, <2>3, <3>1
  <2>5. ledger' = ledger /\ \A t \in Rows : task'[t].priority = task[t].priority
    BY <1>4 DEF Hands
  <2> QED BY <1>1, <2>1, <2>2, <2>4, <2>5, RowsKeepQueue
<1>5. ASSUME NEW q, Asks(q) PROVE QueueInv'
  <2>1. Lineage'
    BY <1>1, <1>5, AsksKeeps
  <2>2. RootFacts'
    BY <1>1, <2>1, RootsHoldNext
  <2> QED BY <1>1, <1>5, <2>1, <2>2, AsksKeepQueue
<1> QED BY <1>1, <1>3, <1>4, <1>5, WaysToStep

LEMMA QueueStarts == Init => QueueInv
<1> SUFFICES ASSUME Init PROVE QueueInv
  OBVIOUS
<1>1. Rows = {} /\ ledger = <<>> /\ used = 0
  BY DEF Init, Rows
<1>2. Table
  <2>1. 0 \in 0..Room
    BY TopicsConstants DEF Init, Room, Here
  <2>2. \A t \in TaskIds : DOMAIN task[t] = Fields /\ task[t].round \in 0..MaxRound
    BY TopicsConstants DEF Init, Fields, Blank
  <2> QED BY <1>1, <2>1, <2>2 DEF Init, Table, TaskIds
<1>3. ledger \in Seq(Entries) /\ DOMAIN ledger = {}
  BY <1>1
<1> QED BY <1>1, <1>2, <1>3 DEF QueueInv, Lineage, Anchored, Chained, LastHolds, Unasked, Fronted, Follows

LEMMA QueueAlways == Spec => []QueueInv
<1>1. Init => QueueInv
  BY QueueStarts
<1>2. QueueInv /\ [Next]_vars => QueueInv'
  BY NextKeepsQueue
<1> QED BY <1>1, <1>2, PTL DEF Spec

\* The last action on a topic, if there was any, and what it left.
LEMMA LastActions ==
  ASSUME QueueInv, NEW a, NEW S, S = {i \in DOMAIN ledger : ledger[i].anchor = a}, S # {}
  PROVE  Max(S) \in S /\ task[a].priority = ledger[Max(S)].new
<1>1. Len(ledger) \in Nat /\ DOMAIN ledger = 1..Len(ledger)
  BY DEF QueueInv
<1>2. S \in SUBSET Nat /\ \A x \in S : x <= Len(ledger)
  BY <1>1
<1>3. Max(S) \in S /\ \A x \in S : x <= Max(S)
  BY <1>1, <1>2, MaxExists
<1>4. PICK m : m = Max(S)
  OBVIOUS
<1>5. m \in DOMAIN ledger /\ ledger[m].anchor = a
  BY <1>3, <1>4
<1>6. ASSUME NEW j \in DOMAIN ledger, j > m PROVE ledger[j].anchor # a
  <2>1. j \in Nat /\ m \in Nat
    BY <1>1, <1>5, <1>6
  <2>2. j \in S => j <= m
    BY <1>3, <1>4
  <2>3. j \notin S
    BY <1>6, <2>1, <2>2
  <2> QED BY <1>6, <2>3
<1> QED BY <1>3, <1>4, <1>5, <1>6 DEF QueueInv, LastHolds

LEMMA QueueExplains == QueueInv => LedgerExplainsPriority
<1> SUFFICES ASSUME QueueInv PROVE LedgerExplainsPriority
  OBVIOUS
<1>1. RootFacts
  BY RootsHold DEF QueueInv
<1>2. ASSUME NEW t \in Rows, Root(t) \notin Strays
      PROVE  LET asked == {i \in DOMAIN ledger : ledger[i].anchor = Root(t)}
             IN  IF asked = {} THEN task[t].priority = Effective(t) /\ Effective(t) <= MaxManualPriority
                 ELSE task[t].priority = ledger[Max(asked)].new
  <2> DEFINE asked == {i \in DOMAIN ledger : ledger[i].anchor = Root(t)}
  <2>1. Root(t) \in Rows /\ Parents(Root(t)) = {}
    BY <1>1 DEF RootFacts
  <2>2. task[t].priority = Effective(t) /\ Effective(t) = task[Root(t)].priority
    BY <1>2 DEF QueueInv, Follows, Effective
  <2>3. CASE asked = {}
    <3>1. \A i \in DOMAIN ledger : ledger[i].anchor # Root(t)
      BY <2>3
    <3>2. Effective(t) <= MaxManualPriority
      BY <1>2, <2>1, <2>2, <3>1 DEF QueueInv, Unasked
    <3> QED BY <2>2, <2>3, <3>2
  <2>4. CASE asked # {}
    <3>1. task[Root(t)].priority = ledger[Max(asked)].new
      BY <2>4, LastActions
    <3> QED BY <2>2, <2>4, <3>1
  <2> QED BY <2>3, <2>4
<1> QED BY <1>2 DEF LedgerExplainsPriority, QueueInv, Chained

LEMMA QueueFronts == QueueInv => FrontIsFirst
<1> SUFFICES ASSUME QueueInv PROVE FrontIsFirst
  OBVIOUS
<1>1. RootFacts
  BY RootsHold DEF QueueInv
<1> DEFINE later(i, a) == {j \in DOMAIN ledger : j > i /\ ledger[j].anchor = a}
<1> SUFFICES ASSUME NEW i \in DOMAIN ledger, ledger[i].action = "front",
                    later(i, ledger[i].anchor) = {},
                    NEW t \in Members(ledger[i].anchor), NEW u \in Rows \ Members(ledger[i].anchor),
                    Root(u) \in Outstanding \ (ledger[i].asleep \cup Strays),
                    \A j \in later(i, Root(u)) : ledger[j].action = "set"
             PROVE  ListedBefore(t, u)
  BY DEF FrontIsFirst
<1>2. PICK a : a = ledger[i].anchor
  OBVIOUS
<1>3. a \in Rows /\ Parents(a) = {}
  BY <1>2 DEF QueueInv, Anchored, Tops
<1>4. t \in Rows /\ Root(t) = a
  BY <1>1, <1>2, <1>3 DEF RootFacts, Members
<1>5. Root(u) # a /\ Root(u) \in Rows /\ Parents(Root(u)) = {}
  BY <1>1, <1>2, <1>3 DEF RootFacts, Members
<1>6. Effective(t) = ledger[i].new
  BY <1>2, <1>4 DEF QueueInv, LastHolds, Effective
<1>7. Effective(u) < ledger[i].new
  BY <1>2, <1>5 DEF QueueInv, Fronted, Effective
<1>8. ledger[i] \in Entries
  BY DEF QueueInv
<1>9. ledger[i].new \in Nat /\ Effective(u) \in Nat
  BY <1>5, <1>8 DEF Entries, QueueInv, Follows, Effective
<1> QED BY <1>6, <1>7, <1>9 DEF ListedBefore

\* Every row has the priority the last action on its topic gave it, or the topic its
\* priority at creation where there was none; actions on a topic read each other's
\* result, and no key is recorded twice: effectiveTaskPriority and applyPriorityAction
\* (internal/store/priority.go), under every spawn of the board.
THEOREM LedgerExplainsPriorityAlways == Spec => []LedgerExplainsPriority
BY QueueAlways, QueueExplains, PTL

\* Nothing overtakes a topic that was moved to the front and has work left, but the next
\* topic that is moved to the front: frontPriority under every spawn of the board.
THEOREM FrontIsFirstAlways == Spec => []FrontIsFirst
BY QueueAlways, QueueFronts, PTL

-----------------------------------------------------------------------------
(* What a step does to children, submissions and dependencies *)

Loose == "converge" \in Here.doings \/ "done" \in Here.outcomes
SameWork(r, s) == /\ r.kind = s.kind /\ r.optsIn = s.optsIn /\ r.origin = s.origin
                  /\ r.followUpOf = s.followUpOf

\* No child is made and no manifest is submitted, and nothing with a plan gets done.
Plain ==
  /\ env' = env /\ manifest' = manifest /\ used' \in Nat /\ used' >= used
  /\ \A t \in Rows : /\ SameWork(task'[t], task[t]) /\ task'[t].round = task[t].round
                     /\ task'[t].state = "done" => task[t].state = "done" \/ Planned(t) = None \/ Loose
  /\ \A n \in Rows' \ Rows : task'[n].origin = None /\ task'[n].state # "done"
\* Who waits for whom stays, or changes to the row that replaces p.
WaitsStay ==
  /\ \A t \in Rows : task'[t].deps = task[t].deps
  /\ \A n \in Rows' \ Rows : task'[n].deps = {}
WaitsMove(p) ==
  /\ used' = used + 1 /\ task'[used + 1].deps = task[p].deps
  /\ \A t \in Rows : task'[t].deps = IF p \in task[t].deps
                                     THEN (task[t].deps \ {p}) \cup {used + 1} ELSE task[t].deps
Waits == WaitsStay \/ \E p \in Rows : WaitsMove(p)

\* What submissions are: the work of rows that opted in, by round.
Planning ==
  \A t \in TaskIds, r \in 1..MaxRound : manifest[t][r] # None =>
    /\ t \in Rows /\ r <= task[t].round /\ task[t].kind = "implement" /\ task[t].optsIn
    /\ manifest[t][r].parent = t /\ Valid(manifest[t][r])

\* The table within a step, before rows are inserted.
Mild(tk) ==
  /\ DOMAIN tk = TaskIds
  /\ \A t \in Rows : /\ SameWork(tk[t], task[t]) /\ tk[t].round = task[t].round /\ tk[t].deps = task[t].deps
                     /\ tk[t].state = "done" => task[t].state = "done" \/ Planned(t) = None \/ Loose

LEMMA MildStays ==
  ASSUME Table, Mild(task'), used' = used, env' = env, manifest' = manifest
  PROVE  Plain /\ Waits
BY RowsAreTasks DEF Mild, Plain, Waits, WaitsStay, Rows

LEMMA MildGrows ==
  ASSUME Table, NEW tk, Mild(tk), NEW r, used < Room, task' = Insert(tk, <<r>>), used' = used + 1,
         r.origin = None, r.state # "done", r.deps = {}, env' = env, manifest' = manifest
  PROVE  Plain /\ Waits
<1>1. /\ used + 1 \in TaskIds /\ task'[used + 1] = r
      /\ \A t \in TaskIds : t # used + 1 => task'[t] = tk[t]
  BY OneInserted DEF Mild
<1>2. used \in Nat /\ Rows \subseteq TaskIds /\ \A t \in Rows : t # used + 1
  BY RowsAreTasks DEF Rows
<1>3. \A n \in Rows' \ Rows : n = used + 1
  BY <1>2 DEF Rows
<1>4. \A t \in Rows : task'[t] = tk[t]
  BY <1>1, <1>2
<1> QED BY <1>1, <1>2, <1>3, <1>4 DEF Mild, Plain, Waits, WaitsStay

LEMMA MildEdits ==
  ASSUME Table, NEW t \in Rows, NEW tk, Mild(tk), NEW v
  PROVE  /\ v # "done" \/ Planned(t) = None \/ Loose => Mild([tk EXCEPT ![t].state = v])
         /\ Mild([tk EXCEPT ![t].archived = v]) /\ Mild([tk EXCEPT ![t].held = v])
<1>0. t \in TaskIds /\ \A u \in Rows : u \in TaskIds
  BY RowsAreTasks
<1>1. ASSUME v # "done" \/ Planned(t) = None \/ Loose PROVE Mild([tk EXCEPT ![t].state = v])
  BY <1>0, <1>1 DEF Mild, SameWork
<1>2. Mild([tk EXCEPT ![t].archived = v])
  BY <1>0 DEF Mild, SameWork
<1>3. Mild([tk EXCEPT ![t].held = v])
  BY <1>0 DEF Mild, SameWork
<1> QED BY <1>1, <1>2, <1>3

LEMMA TaskIsMild == Table => Mild(task)
BY DEF Table, Mild, SameWork

LEMMA ReplaceWaits ==
  ASSUME Table, NEW tk, Mild(tk), Drafts(tk), NEW p \in Rows, NEW first, Replace(tk, p, first),
         first # "done", env' = env, manifest' = manifest
  PROVE  Plain /\ Waits
<1> DEFINE n == used + 1
           moved == [t \in TaskIds |-> IF p \in tk[t].deps
                      THEN [tk[t] EXCEPT !.deps = (@ \ {p}) \cup {n}] ELSE tk[t]]
           heir == [Blank EXCEPT !.kind = tk[p].kind, !.state = first, !.optsIn = tk[p].optsIn,
                                 !.priority = Effective(p), !.deps = tk[p].deps, !.replaces = p]
           old == [moved EXCEPT ![p].state = "superseded", ![p].successor = n]
<1>1. n <= Room /\ used' = n /\ task' = Insert(old, <<heir>>)
  BY DEF Replace
<1>2. used \in Nat /\ Room \in Nat /\ Rows \subseteq TaskIds /\ p \in TaskIds
  BY RowsAreTasks, TopicsConstants DEF Table, Room, Here
<1>3. /\ DOMAIN moved = TaskIds
      /\ \A t \in Rows : /\ SameWork(moved[t], task[t]) /\ moved[t].round = task[t].round
                         /\ moved[t].state = tk[t].state /\ DOMAIN moved[t] = Fields
                         /\ moved[t].deps = IF p \in task[t].deps
                                            THEN (task[t].deps \ {p}) \cup {n} ELSE task[t].deps
  <2>1. ASSUME NEW t \in Rows, p \in tk[t].deps
        PROVE  /\ SameWork(moved[t], tk[t]) /\ moved[t].round = tk[t].round /\ moved[t].state = tk[t].state
               /\ DOMAIN moved[t] = Fields /\ moved[t].deps = (tk[t].deps \ {p}) \cup {n}
    BY <1>2, <2>1 DEF Drafts, SameWork, Fields
  <2>2. ASSUME NEW t \in Rows, p \notin tk[t].deps
        PROVE  moved[t] = tk[t] /\ DOMAIN moved[t] = Fields
    BY <1>2, <2>2 DEF Drafts
  <2> HIDE DEF moved
  <2>3. ASSUME NEW t \in Rows
        PROVE  /\ SameWork(tk[t], task[t]) /\ tk[t].round = task[t].round /\ tk[t].deps = task[t].deps
    BY DEF Mild
  <2>4. ASSUME NEW t \in Rows
        PROVE  /\ SameWork(moved[t], task[t]) /\ moved[t].round = task[t].round
               /\ moved[t].state = tk[t].state /\ DOMAIN moved[t] = Fields
               /\ moved[t].deps = IF p \in task[t].deps
                                  THEN (task[t].deps \ {p}) \cup {n} ELSE task[t].deps
    <3>1. CASE p \in tk[t].deps
      BY <2>1, <2>3, <3>1 DEF SameWork
    <3>2. CASE p \notin tk[t].deps
      BY <2>2, <2>3, <3>2 DEF SameWork
    <3> QED BY <3>1, <3>2
  <2>5. DOMAIN moved = TaskIds
    BY DEF moved
  <2> QED BY <2>4, <2>5
<1> HIDE DEF moved
<1>4. /\ DOMAIN old = TaskIds
      /\ \A t \in Rows : /\ SameWork(old[t], moved[t]) /\ old[t].round = moved[t].round
                         /\ old[t].deps = moved[t].deps
                         /\ old[t].state = IF t = p THEN "superseded" ELSE moved[t].state
  BY <1>2, <1>3 DEF SameWork, Fields
<1>5. heir.origin = None /\ heir.state = first /\ heir.deps = task[p].deps
  BY DEF Blank, Mild
<1> HIDE DEF old, heir
<1>6. /\ n \in TaskIds /\ task'[n] = heir /\ \A t \in TaskIds : t # n => task'[t] = old[t]
  BY <1>1, <1>2, <1>4, OneInserted
<1>7. \A t \in Rows : t # n /\ task'[t] = old[t]
  BY <1>2, <1>6 DEF Rows
<1>8. \A x \in Rows' \ Rows : x = n
  BY <1>1, <1>2 DEF Rows
<1>9. Plain
  <2>1. ASSUME NEW t \in Rows
        PROVE  /\ SameWork(task'[t], task[t]) /\ task'[t].round = task[t].round
               /\ task'[t].state = "done" => task[t].state = "done" \/ Planned(t) = None \/ Loose
    <3>1. SameWork(task'[t], task[t]) /\ task'[t].round = task[t].round
      BY <1>3, <1>4, <1>7 DEF SameWork
    <3>2. task'[t].state = IF t = p THEN "superseded" ELSE tk[t].state
      BY <1>3, <1>4, <1>7
    <3>3. tk[t].state = "done" => task[t].state = "done" \/ Planned(t) = None \/ Loose
      BY DEF Mild
    <3> QED BY <3>1, <3>2, <3>3
  <2>2. \A x \in Rows' \ Rows : task'[x].origin = None /\ task'[x].state # "done"
    BY <1>5, <1>6, <1>8
  <2> QED BY <1>1, <1>2, <2>1, <2>2 DEF Plain
<1>10. WaitsMove(p)
  BY <1>1, <1>3, <1>4, <1>5, <1>6, <1>7 DEF WaitsMove
<1> QED BY <1>9, <1>10 DEF Waits

LEMMA SettleIsPlain ==
  ASSUME Table, NEW tk, Mild(tk), Drafts(tk), NEW p \in Rows, NEW outcome \in Here.outcomes,
         Settle(tk, p, outcome), env' = env, manifest' = manifest
  PROVE  Plain /\ Waits
<1>1. CASE task' = [tk EXCEPT ![p].state = outcome] /\ UNCHANGED used
  <2>1. outcome # "done" \/ Loose
    BY DEF Loose
  <2>2. PICK z : z = [tk EXCEPT ![p].state = outcome]
    OBVIOUS
  <2>3. Mild(z)
    BY <2>1, <2>2, MildEdits
  <2>4. Mild(task')
    BY <1>1, <2>2, <2>3
  <2> QED BY <1>1, <2>4, MildStays
<1>2. CASE /\ used < Room /\ used' = used + 1
           /\ task' = Insert([tk EXCEPT ![p].state = "approved"],
                             <<IF outcome = "merge" THEN Spawn(p, "merge") ELSE FollowUp(p)>>)
  <2>1. PICK z : z = [tk EXCEPT ![p].state = "approved"]
    OBVIOUS
  <2>2. PICK r : r = IF outcome = "merge" THEN Spawn(p, "merge") ELSE FollowUp(p)
    OBVIOUS
  <2>3. Mild(z)
    BY <2>1, MildEdits
  <2>4. r.origin = None /\ r.state # "done" /\ r.deps = {}
    BY <2>2 DEF Spawn, FollowUp, Blank
  <2>5. task' = Insert(z, <<r>>)
    BY <1>2, <2>1, <2>2
  <2> QED BY <1>2, <2>3, <2>4, <2>5, MildGrows
<1>3. CASE used < Room /\ used' = used + 1 /\ task' = Insert(tk, <<Spawn(p, "adjudication")>>)
  <2>1. PICK r : r = Spawn(p, "adjudication")
    OBVIOUS
  <2>2. r.origin = None /\ r.state # "done" /\ r.deps = {}
    BY <2>1 DEF Spawn, Blank
  <2>3. task' = Insert(tk, <<r>>)
    BY <1>3, <2>1
  <2> QED BY <1>3, <2>2, <2>3, MildGrows
<1>4. CASE Replace(tk, p, "ready")
  BY <1>4, ReplaceWaits
<1> QED BY <1>1, <1>2, <1>3, <1>4 DEF Settle

LEMMA VoteIsPlain ==
  ASSUME Table, Lineage, Planning, NEW c \in Rows, NEW outcome \in Here.outcomes, Vote(c, outcome)
  PROVE  Plain /\ Waits
<1> DEFINE p == task[c].target
<1>1. PICK tk : tk = [task EXCEPT ![c].state = "done"]
  OBVIOUS
<1>2. Planned(c) = None
  <2>1. c \in TaskIds /\ task[c].round \in 0..MaxRound /\ task[c].kind # "implement"
    BY RowsAreTasks DEF Table, Vote
  <2>2. task[c].round # 0 => task[c].round \in 1..MaxRound
    BY <2>1, TopicsConstants
  <2> QED BY <2>1, <2>2 DEF Planned, Planning
<1>3. Mild(tk) /\ Drafts(tk)
  BY <1>1, <1>2, TaskIsMild, MildEdits, EditIsDraft
<1>4. env' = env /\ manifest' = manifest
  BY DEF Vote
<1>5. (p # 0 /\ Settle(tk, p, outcome)) \/ (task' = tk /\ used' = used)
  BY <1>1 DEF Vote
<1>6. p # 0 => p \in Rows
  BY RowsAreTasks DEF Lineage, Rows
<1> HIDE DEF p
<1>7. CASE task' = tk /\ used' = used
  BY <1>3, <1>4, <1>7, MildStays
<1>8. CASE p # 0 /\ Settle(tk, p, outcome)
  BY <1>3, <1>4, <1>6, <1>8, SettleIsPlain
<1> QED BY <1>5, <1>7, <1>8

LEMMA ConvergeIsPlain ==
  ASSUME Table, NEW t \in Rows, Converge(t), "converge" \in Here.doings
  PROVE  Plain /\ Waits
<1>1. used' = used /\ env' = env /\ manifest' = manifest /\ Loose
  BY DEF Converge, Loose
<1>2. Mild(task')
  <2>1. ASSUME NEW x \in Rows
        PROVE  \E v : task'[x] = [task[x] EXCEPT !.state = v] \/ task'[x] = task[x]
    BY RowsAreTasks DEF Converge
  <2>2. ASSUME NEW x \in Rows
        PROVE  SameWork(task'[x], task[x]) /\ task'[x].round = task[x].round /\ task'[x].deps = task[x].deps
    BY <2>1, RowsAreTasks DEF Table, SameWork, Fields
  <2>3. DOMAIN task' = TaskIds
    BY DEF Converge
  <2> QED BY <1>1, <2>2, <2>3 DEF Mild
<1> QED BY <1>1, <1>2, MildStays

LEMMA CreateIsPlain == ASSUME Table, Create PROVE Plain /\ Waits
<1>1. PICK p, o : CreateTask(p, o)
  BY DEF Create
<1>2. PICK r : r = [Blank EXCEPT !.state = "backlog", !.priority = p, !.optsIn = o]
  OBVIOUS
<1>3. r.origin = None /\ r.state # "done" /\ r.deps = {}
  BY <1>2 DEF Blank
<1>4. /\ used < Room /\ used' = used + 1 /\ task' = Insert(task, <<r>>)
      /\ env' = env /\ manifest' = manifest
  BY <1>1, <1>2 DEF CreateTask
<1> QED BY <1>3, <1>4, TaskIsMild, MildGrows

LEMMA AskIsPlain == ASSUME Table, NEW q, Apply(q) PROVE Plain /\ Waits
<1>1. used' = used /\ env' = env /\ manifest' = manifest
  BY DEF Apply
<1>2. \A x \in TaskIds : task'[x] = task[x] \/ \E v : task'[x] = [task[x] EXCEPT !.priority = v]
  BY DEF Apply
<1>3. ASSUME NEW x \in Rows
      PROVE  /\ SameWork(task'[x], task[x]) /\ task'[x].round = task[x].round
             /\ task'[x].deps = task[x].deps /\ task'[x].state = task[x].state
  BY <1>2, RowsAreTasks DEF Table, SameWork, Fields
<1>4. DOMAIN task' = TaskIds
  BY DEF Apply
<1> QED BY <1>1, <1>3, <1>4, MildStays DEF Mild

\* Where children come from, that they come whole, and come once.
Origins ==
  \A c \in Rows : task[c].origin # None =>
    \E p \in Rows, r \in 1..MaxRound : \E k \in KeysOf(manifest[p][r]) :
      /\ manifest[p][r] # None
      /\ task[c].origin = [parent |-> p, key |-> k, digest |-> manifest[p][r]]
Whole ==
  \A c \in Rows : task[c].origin # None =>
    \A k \in KeysOf(task[c].origin.digest) : \E d \in Rows :
      task[d].origin = [parent |-> task[c].origin.parent, key |-> k, digest |-> task[c].origin.digest]
Once ==
  \A c, d \in Rows : task[c].origin # None /\ task[c].origin = task[d].origin => c = d

\* The children of m are there, or they are made now, in the order of m.
Bears(p, m) ==
  /\ env' = env /\ manifest' = manifest /\ Insertable(p, m)
  /\ \A t \in Rows : /\ SameWork(task'[t], task[t]) /\ task'[t].round = task[t].round
                     /\ task'[t].deps = task[t].deps
                     /\ task'[t].state = "done" => t = p \/ task[t].state = "done"
  /\ \/ used' = used /\ \A k \in KeysOf(m) : Made(p, m, k) # {}
     \/ /\ used' = used + Len(m.children) /\ \A k \in KeysOf(m) : Made(p, m, k) = {}
        /\ \A i \in 1..Len(m.children) :
             LET row == task'[used + i]
                 c == m.children[i]
             IN /\ row.origin = [parent |-> p, key |-> c.key, digest |-> m]
                /\ row.state # "done" /\ row.followUpOf = 0
                /\ row.deps = ToSet(Edges(p, m, c))

LEMMA AllOrNone ==
  ASSUME Table, Whole, NEW p \in Rows, NEW m \in Here.offers
  PROVE  (\A k \in KeysOf(m) : Made(p, m, k) = {}) \/ (\A k \in KeysOf(m) : Made(p, m, k) # {})
<1> SUFFICES ASSUME NEW j \in KeysOf(m), NEW t \in Made(p, m, j), NEW k \in KeysOf(m)
             PROVE  Made(p, m, k) # {}
  OBVIOUS
<1>1. t \in Rows /\ task[t].origin # None /\ task[t].origin = [parent |-> p, key |-> j, digest |-> m]
  BY DEF Made
<1>2. task[t].origin.parent = p /\ task[t].origin.digest = m
  BY <1>1
<1>3. PICK d \in Rows : task[d].origin = [parent |-> p, key |-> k, digest |-> m]
  BY <1>1, <1>2 DEF Whole
<1>4. p \in 1..MaxTasks
  BY RowsAreTasks DEF TaskIds
<1>5. None # [parent |-> p, key |-> k, digest |-> m]
  BY <1>4, TopicsConstants DEF Table, Here
<1> QED BY <1>3, <1>5 DEF Made

LEMMA PlannedFacts ==
  ASSUME Table, Planning, NEW p \in Rows, Planned(p) # None
  PROVE  /\ Planned(p) \in Here.offers /\ task[p].round \in 1..MaxRound /\ p \in TaskIds
         /\ Planned(p) = manifest[p][task[p].round]
         /\ task[p].kind = "implement" /\ task[p].optsIn /\ Valid(Planned(p)) /\ Planned(p).parent = p
<1>1. p \in TaskIds /\ task[p].round \in 0..MaxRound /\ task[p].round # 0
  BY RowsAreTasks DEF Table, Planned
<1>2. task[p].round \in 1..MaxRound /\ Planned(p) = manifest[p][task[p].round]
  BY <1>1, TopicsConstants DEF Planned
<1>3. PICK r \in 1..MaxRound : r = task[p].round
  BY <1>2
<1>4. manifest[p][r] # None /\ Planned(p) = manifest[p][r]
  BY <1>2, <1>3
<1>5. manifest[p][r] \in Here.offers
  BY <1>1, <1>4 DEF Table
<1>6. /\ task[p].kind = "implement" /\ task[p].optsIn
      /\ manifest[p][r].parent = p /\ Valid(manifest[p][r])
  BY <1>1, <1>4 DEF Planning
<1> QED BY <1>1, <1>3, <1>4, <1>5, <1>6

LEMMA TransitionBears ==
  ASSUME Table, Planning, Whole, NEW p \in Rows, NEW to, TransitionTask(p, to), Continues(p, to)
  PROVE  Planned(p) # None /\ Bears(p, Planned(p))
<1>1. PICK m : m = Planned(p)
  OBVIOUS
<1>2. PICK tk : tk = [task EXCEPT ![p].state = to]
  OBVIOUS
<1>3. /\ m # None /\ InsertChildren(tk, p, m) /\ Insertable(p, m)
      /\ env' = env /\ manifest' = manifest
  BY <1>1, <1>2 DEF TransitionTask, Continues, InsertChildren
<1>4. m \in Here.offers
  BY <1>1, <1>3, PlannedFacts
<1>5. m.children \in Seq(ToSet(m.children))
  BY <1>4, TopicsConstants DEF Table, Here
<1>6. PICK fresh : fresh = Fresh(p, m)
  OBVIOUS
<1>7. /\ fresh \in Seq(Children(m))
      /\ (\A c \in Children(m) : Made(p, m, c.key) = {}) => fresh = m.children
      /\ (\A c \in Children(m) : Made(p, m, c.key) # {}) => fresh = <<>>
  BY <1>5, <1>6, FreshFacts
<1>8. PICK rows : rows = [i \in DOMAIN fresh |-> ChildRow(p, m, fresh[i])]
  OBVIOUS
<1>9. /\ used + Len(fresh) <= Room /\ used' = used + Len(fresh) /\ task' = Insert(tk, rows)
  BY <1>3, <1>6, <1>8 DEF InsertChildren
<1>10. /\ used \in Nat /\ Room \in Nat /\ Room <= MaxTasks /\ Rows \subseteq TaskIds /\ MaxTasks \in Nat
       /\ Len(fresh) \in Nat /\ DOMAIN fresh = 1..Len(fresh) /\ DOMAIN rows = 1..Len(fresh)
  BY <1>7, <1>8, RowsAreTasks, TopicsConstants DEF Table, Room, Here
<1>11. task' = [t \in TaskIds |-> IF t - used \in 1..Len(fresh) THEN rows[t - used] ELSE tk[t]]
  BY <1>9, <1>10 DEF Insert
<1>12. ASSUME NEW t \in Rows
       PROVE  /\ SameWork(task'[t], task[t]) /\ task'[t].round = task[t].round
              /\ task'[t].deps = task[t].deps
              /\ task'[t].state = "done" => t = p \/ task[t].state = "done"
  <2>1. t \in TaskIds /\ t - used \notin 1..Len(fresh)
    BY <1>10 DEF Rows
  <2>2. task'[t] = tk[t]
    BY <1>11, <2>1
  <2>3. t = p => tk[t] = [task[p] EXCEPT !.state = to]
    BY <1>2, <2>1 DEF Table
  <2>4. t # p => tk[t] = task[t]
    BY <1>2, <2>1 DEF Table
  <2>5. DOMAIN task[t] = Fields
    BY <2>1 DEF Table
  <2>6. CASE t = p
    BY <2>2, <2>3, <2>5, <2>6 DEF SameWork, Fields
  <2>7. CASE t # p
    BY <2>2, <2>4, <2>7 DEF SameWork
  <2> QED BY <2>6, <2>7
<1>13. ASSUME NEW i \in 1..Len(fresh)
       PROVE  /\ task'[used + i].origin = [parent |-> p, key |-> fresh[i].key, digest |-> m]
              /\ task'[used + i].state # "done" /\ task'[used + i].followUpOf = 0
              /\ task'[used + i].deps = ToSet(Edges(p, m, fresh[i]))
  <2>1. used + i \in TaskIds /\ (used + i) - used = i
    BY <1>9, <1>10 DEF TaskIds
  <2>2. task'[used + i] = rows[i]
    BY <1>11, <2>1
  <2>3. rows[i] = ChildRow(p, m, fresh[i])
    BY <1>8, <1>10
  <2> QED BY <2>2, <2>3 DEF ChildRow, Blank, InitialState
<1>14. \A k \in KeysOf(m) : \E c \in Children(m) : c.key = k
  BY DEF KeysOf
<1>15. \A c \in Children(m) : c.key \in KeysOf(m)
  BY DEF KeysOf
<1>16. CASE \A k \in KeysOf(m) : Made(p, m, k) # {}
  <2>1. fresh = <<>>
    BY <1>7, <1>15, <1>16
  <2>2. used' = used
    BY <1>9, <1>10, <2>1
  <2> QED BY <1>1, <1>3, <1>12, <1>16, <2>2 DEF Bears
<1>17. CASE \A k \in KeysOf(m) : Made(p, m, k) = {}
  <2>1. fresh = m.children
    BY <1>7, <1>15, <1>17
  <2> QED BY <1>1, <1>3, <1>9, <1>12, <1>13, <1>17, <2>1 DEF Bears
<1> QED BY <1>4, <1>16, <1>17, AllOrNone

\* Work is submitted: a round begins, with a manifest that fits or none.
Plans(t, m) ==
  LET r == task[t].round + 1
  IN /\ env' = env /\ used' = used + 1 /\ r \in 1..MaxRound
     /\ task[t].kind = "implement"
     /\ m # None => task[t].optsIn /\ m.parent = t /\ Valid(m)
     /\ manifest' = [manifest EXCEPT ![t][r] = m]
     /\ \A x \in Rows : SameWork(task'[x], task[x]) /\ task'[x].deps = task[x].deps
     /\ \A x \in Rows \ {t} : task'[x].round = task[x].round /\ task'[x].state = task[x].state
     /\ task'[t].round = r /\ task'[t].state # "done"
     /\ LET n == task'[used + 1] IN n.origin = None /\ n.state # "done" /\ n.deps = {}

LEMMA SubmitPlans ==
  ASSUME Table, NEW t \in Rows, NEW m, Submit(t, m)
  PROVE  Plans(t, m)
<1>1. PICK r : r = task[t].round + 1
  OBVIOUS
<1>2. PICK tk : tk = [task EXCEPT ![t].state = "review", ![t].round = r]
  OBVIOUS
<1>3. PICK row : row = [Spawn(t, "review") EXCEPT !.round = r]
  OBVIOUS
<1>4. r \in 1..MaxRound /\ t \in TaskIds /\ used \in Nat /\ Rows \subseteq TaskIds
  BY <1>1, RowsAreTasks, TopicsConstants DEF Submit, Table
<1>5. /\ used < Room /\ used' = used + 1 /\ task' = Insert(tk, <<row>>)
      /\ manifest' = [manifest EXCEPT ![t][r] = m] /\ env' = env
      /\ task[t].kind = "implement" /\ (m # None => task[t].optsIn /\ m.parent = t /\ Valid(m))
  BY <1>1, <1>2, <1>3 DEF Submit
<1>6. DOMAIN tk = TaskIds
  BY <1>2 DEF Table
<1>7. task'[used + 1] = row /\ \A x \in TaskIds : x # used + 1 => task'[x] = tk[x]
  BY <1>5, <1>6, OneInserted
<1>8. \A x \in Rows : task'[x] = tk[x]
  <2>1. \A x \in Rows : x # used + 1
    BY <1>4 DEF Rows
  <2> QED BY <1>4, <1>7, <2>1
<1>9. row.origin = None /\ row.state # "done" /\ row.deps = {}
  BY <1>3 DEF Spawn, Blank
<1>10. \A x \in Rows \ {t} : tk[x] = task[x]
  BY <1>2, <1>4 DEF Table
<1>11. SameWork(tk[t], task[t]) /\ tk[t].deps = task[t].deps /\ tk[t].round = r /\ tk[t].state = "review"
  BY <1>2, <1>4 DEF Table, SameWork, Fields
<1>12. \A x \in Rows : SameWork(task'[x], task[x]) /\ task'[x].deps = task[x].deps
  BY <1>8, <1>10, <1>11 DEF SameWork
<1> QED BY <1>1, <1>4, <1>5, <1>7, <1>8, <1>9, <1>10, <1>11, <1>12 DEF Plans

\* Every step makes children, takes a submission, or is plain.
LEMMA WaysForChildren ==
  ASSUME Table, Lineage, Planning, Whole, [Next]_vars
  PROVE  \/ Plain /\ Waits
         \/ \E t \in Rows, m \in Here.offers \cup {None} : Plans(t, m)
         \/ \E p \in Rows : Planned(p) # None /\ Bears(p, Planned(p))
<1>0. UNCHANGED vars => Plain /\ Waits
  <2> SUFFICES ASSUME UNCHANGED vars PROVE Plain /\ Waits
    OBVIOUS
  <2> QED BY TaskIsMild, MildStays DEF vars
<1>1. CASE Create
  BY <1>1, CreateIsPlain
<1>2. CASE Ask
  <2>1. ASSUME NEW q, Perform(q) PROVE Plain /\ Waits
    BY <1>0, <2>1, AskIsPlain DEF Perform
  <2> QED BY <1>2, <2>1 DEF Ask, SetPriority, MoveToFront
<1>3. ASSUME NEW t \in Rows, Operate(t)
      PROVE  \/ Plain /\ Waits
             \/ \E p \in Rows : Planned(p) # None /\ Bears(p, Planned(p))
  <2>0. Mild(task) /\ Drafts(task)
    BY TaskIsMild, TaskIsDraft
  <2>1. CASE Promote(t)
    <3>1. Mild(task') /\ UNCHANGED <<env, used, manifest>>
      BY <2>0, <2>1, MildEdits DEF Promote
    <3> QED BY <3>1, MildStays
  <2>2. ASSUME NEW to, TransitionTask(t, to), Continues(t, to)
        PROVE  \E p \in Rows : Planned(p) # None /\ Bears(p, Planned(p))
    BY <2>2, TransitionBears
  <2>3. ASSUME NEW to, TransitionTask(t, to), ~Continues(t, to) PROVE Plain /\ Waits
    <3>1. to # "done" \/ Planned(t) = None
      <4> SUFFICES ASSUME to = "done", Planned(t) # None PROVE FALSE
        OBVIOUS
      <4>1. task[t].kind = "implement" /\ task[t].optsIn
        BY PlannedFacts
      <4>2. task[t].state = "approved"
        BY <2>3, <4>1 DEF TransitionTask, MayMove, Active
      <4> QED BY <2>3, <4>1, <4>2 DEF Continues
    <3>2. task' = [task EXCEPT ![t].state = to] /\ UNCHANGED <<env, used, manifest>>
      BY <2>3 DEF TransitionTask
    <3>3. Mild(task')
      BY <2>0, <3>1, <3>2, MildEdits
    <3> QED BY <3>2, <3>3, MildStays
  <2>4. CASE "converge" \in Here.doings /\ Converge(t)
    BY <2>4, ConvergeIsPlain
  <2>5. CASE SupersedeTask(t)
    BY <2>0, <2>5, ReplaceWaits DEF SupersedeTask
  <2>6. ASSUME NEW b, Archive(t, b) \/ Hold(t, b) PROVE Plain /\ Waits
    <3>1. /\ UNCHANGED <<env, used, manifest>>
          /\ \/ task' = [task EXCEPT ![t].archived = b]
             \/ task' = [task EXCEPT ![t].held = b]
      BY <2>6 DEF Archive, Hold
    <3>2. Mild([task EXCEPT ![t].archived = b]) /\ Mild([task EXCEPT ![t].held = b])
      BY <2>0, MildEdits
    <3>3. Mild(task')
      BY <3>1, <3>2
    <3> QED BY <3>1, <3>3, MildStays
  <2> QED BY <1>3, <2>1, <2>2, <2>3, <2>4, <2>5, <2>6 DEF Operate
<1>4. ASSUME NEW t \in Rows, Work(t)
      PROVE  (Plain /\ Waits) \/ \E m \in Here.offers \cup {None} : Plans(t, m)
  <2>1. CASE Claim(t)
    <3>1. Mild(task') /\ UNCHANGED <<env, used, manifest>>
      BY <2>1, TaskIsMild, MildEdits DEF Claim
    <3> QED BY <3>1, MildStays
  <2> QED BY <1>4, <2>1, SubmitPlans, VoteIsPlain DEF Work
<1> QED BY <1>0, <1>1, <1>2, <1>3, <1>4 DEF Next

-----------------------------------------------------------------------------
(* Children come whole *)

DoneWhole ==
  Loose \/ \A p \in Rows : task[p].state = "done" /\ Planned(p) # None =>
             \A k \in KeysOf(Planned(p)) : Made(p, Planned(p), k) # {}
ChildInv == Planning /\ Origins /\ Whole /\ Once /\ DoneWhole

\* Where origins and submissions stay and new rows have no origin, everything stays.
LEMMA OriginsStay ==
  ASSUME Table, Table', Origins, Whole, Once, used' \in Nat, used' >= used,
         \A t \in Rows : task'[t].origin = task[t].origin,
         \A n \in Rows' \ Rows : task'[n].origin = None,
         \A t \in TaskIds, r \in 1..MaxRound : manifest[t][r] # None => manifest'[t][r] = manifest[t][r]
  PROVE  Origins' /\ Whole' /\ Once' /\ \A p, m, k : Made(p, m, k)' = Made(p, m, k)
<1>1. Rows \subseteq Rows' /\ Rows \subseteq TaskIds
  BY RowsAreTasks DEF Rows
<1>2. Origins'
  <2> SUFFICES ASSUME NEW c \in Rows', task'[c].origin # None
      PROVE  \E p \in Rows', r \in 1..MaxRound : \E k \in KeysOf(manifest'[p][r]) :
               /\ manifest'[p][r] # None
               /\ task'[c].origin = [parent |-> p, key |-> k, digest |-> manifest'[p][r]]
    BY DEF Origins, KeysOf, Children, ToSet
  <2>1. c \in Rows /\ task[c].origin # None /\ task'[c].origin = task[c].origin
    BY <1>1
  <2>2. PICK p \in Rows, r \in 1..MaxRound :
          \E k \in KeysOf(manifest[p][r]) :
            /\ manifest[p][r] # None
            /\ task[c].origin = [parent |-> p, key |-> k, digest |-> manifest[p][r]]
    BY <2>1 DEF Origins
  <2>3. manifest'[p][r] = manifest[p][r]
    BY <1>1, <2>2
  <2>4. PICK k \in KeysOf(manifest[p][r]) :
          /\ manifest[p][r] # None
          /\ task[c].origin = [parent |-> p, key |-> k, digest |-> manifest[p][r]]
    BY <2>2
  <2>5. /\ k \in KeysOf(manifest'[p][r]) /\ manifest'[p][r] # None
        /\ task'[c].origin = [parent |-> p, key |-> k, digest |-> manifest'[p][r]]
    BY <2>1, <2>3, <2>4
  <2> QED BY <1>1, <2>5
<1>3. Whole'
  BY <1>1 DEF Whole, KeysOf, Children, ToSet
<1>4. Once'
  BY <1>1 DEF Once
<1>5. \A p, m, k : Made(p, m, k)' = Made(p, m, k)
  BY <1>1 DEF Made
<1> QED BY <1>2, <1>3, <1>4, <1>5

\* A plan that does not change keeps its parent's children, done or not.
LEMMA DoneStays ==
  ASSUME DoneWhole, env' = env,
         \A m, k : \A p \in Rows' : Made(p, m, k) # {} => Made(p, m, k)' # {},
         \A p \in Rows' : task'[p].state = "done" /\ Planned(p)' # None /\ ~Loose =>
           \/ p \in Rows /\ task[p].state = "done" /\ Planned(p)' = Planned(p)
           \/ \E m : m = Planned(p)' /\ \A k \in KeysOf(m) : Made(p, m, k)' # {}
  PROVE  DoneWhole'
<1>1. Loose' = Loose
  BY DEF Loose, Here
<1> SUFFICES ASSUME ~Loose, NEW p \in Rows', task'[p].state = "done", Planned(p)' # None
             PROVE  \E m : m = Planned(p)' /\ \A k \in KeysOf(m) : Made(p, m, k)' # {}
  BY <1>1 DEF DoneWhole, Made, KeysOf, Children, ToSet
<1>2. CASE p \in Rows /\ task[p].state = "done" /\ Planned(p)' = Planned(p)
  <2>1. PICK m : m = Planned(p)' /\ m = Planned(p)
    BY <1>2
  <2>2. \A k \in KeysOf(m) : Made(p, m, k) # {}
    BY <1>2, <2>1 DEF DoneWhole
  <2> QED BY <2>1, <2>2
<1> QED BY <1>2

LEMMA PlainKeepsChildren ==
  ASSUME Table, Table', ChildInv, Plain
  PROVE  ChildInv'
<1>1. Rows \subseteq Rows' /\ Rows \subseteq TaskIds /\ manifest' = manifest /\ env' = env
      /\ used' \in Nat /\ used' >= used
  BY RowsAreTasks DEF Rows, Plain
<1>2. /\ \A t \in Rows : task'[t].origin = task[t].origin
      /\ \A n \in Rows' \ Rows : task'[n].origin = None
  BY DEF Plain, SameWork
<1>3. Origins' /\ Whole' /\ Once' /\ \A p, m, k : Made(p, m, k)' = Made(p, m, k)
  BY <1>1, <1>2, OriginsStay DEF ChildInv
<1>4. Planning'
  <2> SUFFICES ASSUME NEW t \in TaskIds, NEW r \in 1..MaxRound, manifest[t][r] # None
      PROVE  /\ t \in Rows' /\ r <= task'[t].round /\ task'[t].kind = "implement" /\ task'[t].optsIn
             /\ manifest[t][r].parent = t /\ Valid(manifest[t][r])
    BY <1>1 DEF Planning
  <2>1. /\ t \in Rows /\ r <= task[t].round /\ task[t].kind = "implement" /\ task[t].optsIn
        /\ manifest[t][r].parent = t /\ Valid(manifest[t][r])
    BY DEF ChildInv, Planning
  <2> QED BY <1>1, <2>1 DEF Plain, SameWork
<1>5. DoneWhole'
  <2>1. ASSUME NEW p \in Rows', task'[p].state = "done", Planned(p)' # None, ~Loose
        PROVE  p \in Rows /\ task[p].state = "done" /\ Planned(p)' = Planned(p)
    <3>1. p \in Rows
      BY <2>1 DEF Plain
    <3>2. Planned(p)' = Planned(p)
      BY <1>1, <3>1 DEF Plain, Planned
    <3> QED BY <2>1, <3>1, <3>2 DEF Plain
  <2> QED BY <1>1, <1>3, <2>1, DoneStays DEF ChildInv
<1> QED BY <1>3, <1>4, <1>5 DEF ChildInv

LEMMA PlansKeepChildren ==
  ASSUME Table, Table', ChildInv, NEW t \in Rows, NEW m, Plans(t, m)
  PROVE  ChildInv'
<1>0. PICK r \in 1..MaxRound : r = task[t].round + 1
  BY DEF Plans
<1>1. /\ used \in Nat /\ used' = used + 1 /\ Rows' = Rows \cup {used'} /\ used' \notin Rows
      /\ Rows \subseteq TaskIds /\ env' = env /\ used' \in Nat /\ used' >= used
  BY RowsAreTasks DEF Rows, Plans
<1>2. /\ \A x \in Rows : task'[x].origin = task[x].origin
      /\ \A n \in Rows' \ Rows : task'[n].origin = None /\ task'[n].state # "done"
  <2>1. \A n \in Rows' \ Rows : n = used + 1
    BY <1>1
  <2>2. task'[used + 1].origin = None /\ task'[used + 1].state # "done"
    BY DEF Plans
  <2> QED BY <2>1, <2>2 DEF Plans, SameWork
<1>3. /\ manifest'[t][r] = m
      /\ \A x \in TaskIds, s \in 1..MaxRound :
           (x # t \/ s # r) => manifest'[x][s] = manifest[x][s]
  BY <1>0, <1>1 DEF Plans, Table
<1>4. task[t].round \in Nat /\ manifest[t][r] = None
  <2>1. task[t].round \in Nat
    BY <1>1, TopicsConstants DEF Table
  <2> QED BY <1>0, <1>1, <2>1 DEF ChildInv, Planning
<1>5. \A x \in TaskIds, s \in 1..MaxRound : manifest[x][s] # None => manifest'[x][s] = manifest[x][s]
  BY <1>3, <1>4
<1>6. Origins' /\ Whole' /\ Once' /\ \A p, x, k : Made(p, x, k)' = Made(p, x, k)
  BY <1>1, <1>2, <1>5, OriginsStay DEF ChildInv
<1>7. \A x \in Rows : SameWork(task'[x], task[x]) /\ (x # t => task'[x].round = task[x].round)
  BY DEF Plans
<1>8. task'[t].round = r /\ task'[t].state # "done"
  BY <1>0 DEF Plans
<1>9. Planning'
  <2> SUFFICES ASSUME NEW x \in TaskIds, NEW s \in 1..MaxRound, manifest'[x][s] # None
      PROVE  /\ x \in Rows' /\ s <= task'[x].round /\ task'[x].kind = "implement" /\ task'[x].optsIn
             /\ manifest'[x][s].parent = x /\ Valid(manifest'[x][s])
    BY DEF Planning
  <2>1. CASE x = t /\ s = r
    <3>1. m # None /\ task[t].kind = "implement" /\ task[t].optsIn /\ m.parent = t /\ Valid(m)
      BY <1>3, <2>1 DEF Plans
    <3> QED BY <1>1, <1>3, <1>7, <1>8, <2>1, <3>1 DEF SameWork
  <2>2. CASE x # t \/ s # r
    <3>1. manifest'[x][s] = manifest[x][s] /\ manifest[x][s] # None
      BY <1>3, <2>2
    <3>2. /\ x \in Rows /\ s <= task[x].round /\ task[x].kind = "implement" /\ task[x].optsIn
          /\ manifest[x][s].parent = x /\ Valid(manifest[x][s])
      BY <3>1 DEF ChildInv, Planning
    <3>3. s <= task'[x].round
      BY <1>0, <1>4, <1>7, <1>8, <3>2
    <3> QED BY <1>1, <1>7, <3>1, <3>2, <3>3 DEF SameWork
  <2> QED BY <2>1, <2>2
<1>10. DoneWhole'
  <2>1. ASSUME NEW p \in Rows', task'[p].state = "done", Planned(p)' # None, ~Loose
        PROVE  p \in Rows /\ task[p].state = "done" /\ Planned(p)' = Planned(p)
    <3>1. p \in Rows /\ p # t /\ p \in TaskIds
      BY <1>1, <1>2, <1>8, <2>1
    <3>2. task'[p].round = task[p].round /\ task'[p].state = task[p].state
      BY <3>1 DEF Plans
    <3>3. task[p].round # 0 => task[p].round \in 1..MaxRound
      BY <3>1, TopicsConstants DEF Table
    <3>4. Planned(p)' = Planned(p)
      BY <1>3, <3>1, <3>2, <3>3 DEF Planned
    <3> QED BY <2>1, <3>1, <3>2, <3>4
  <2> QED BY <1>1, <1>6, <2>1, DoneStays DEF ChildInv
<1> QED BY <1>6, <1>9, <1>10 DEF ChildInv

\* The rows of the children that are made now.
LEMMA BornFacts ==
  ASSUME Table, Table', Planning, NEW p \in Rows, NEW m, m = Planned(p), m # None, Bears(p, m)
  PROVE  /\ m \in Here.offers /\ Valid(m) /\ m.parent = p /\ p \in TaskIds
         /\ task[p].round \in 1..MaxRound /\ m = manifest[p][task[p].round]
         /\ m.children \in Seq(Children(m)) /\ Len(m.children) \in Nat
         /\ \A i \in 1..Len(m.children) : m.children[i] \in Children(m) /\ m.children[i].key \in KeysOf(m)
         /\ \A k \in KeysOf(m) : \E i \in 1..Len(m.children) : m.children[i].key = k
         /\ \A i, j \in 1..Len(m.children) : m.children[i].key = m.children[j].key => i = j
         /\ \A q \in Rows', k \in KeysOf(m) : None # [parent |-> q, key |-> k, digest |-> m]
         /\ Rows \subseteq Rows' /\ Rows \subseteq TaskIds /\ used \in Nat /\ used' \in Nat
         /\ \/ used' = used /\ Rows' = Rows /\ \A k \in KeysOf(m) : Made(p, m, k) # {}
            \/ /\ used' = used + Len(m.children) /\ \A k \in KeysOf(m) : Made(p, m, k) = {}
               /\ \A i \in 1..Len(m.children) :
                    /\ used + i \in Rows' \ Rows
                    /\ task'[used + i].origin = [parent |-> p, key |-> m.children[i].key, digest |-> m]
                    /\ task'[used + i].state # "done" /\ task'[used + i].followUpOf = 0
                    /\ task'[used + i].deps = ToSet(Edges(p, m, m.children[i]))
               /\ \A n \in Rows' \ Rows : \E i \in 1..Len(m.children) : n = used + i
<1>1. /\ m \in Here.offers /\ Valid(m) /\ m.parent = p /\ p \in TaskIds
      /\ task[p].round \in 1..MaxRound /\ m = manifest[p][task[p].round]
  BY PlannedFacts
<1>2. m.children \in Seq(Children(m)) /\ Len(m.children) \in Nat /\ DOMAIN m.children = 1..Len(m.children)
  BY <1>1, TopicsConstants DEF Table, Here, Children
<1>3. \A i \in 1..Len(m.children) : m.children[i] \in Children(m) /\ m.children[i].key \in KeysOf(m)
  BY <1>2 DEF KeysOf
<1>4. \A k \in KeysOf(m) : \E i \in 1..Len(m.children) : m.children[i].key = k
  BY <1>2 DEF KeysOf, Children, ToSet
<1>5. \A i, j \in 1..Len(m.children) : m.children[i].key = m.children[j].key => i = j
  BY <1>1, <1>2 DEF Valid
<1>6. used \in Nat /\ Rows \subseteq TaskIds
  BY RowsAreTasks
<1>7. used' \in Nat /\ used' >= used /\ used' <= MaxTasks /\ MaxTasks \in Nat
  <2>1. used' \in Nat /\ used' <= MaxTasks /\ MaxTasks \in Nat
    BY TopicsConstants DEF Table, Room, Here
  <2> QED BY <1>2, <1>6, <2>1 DEF Bears
<1>8. Rows \subseteq Rows' /\ Rows' \subseteq 1..MaxTasks
  BY <1>6, <1>7 DEF Rows
<1>9. \A q \in Rows', k \in KeysOf(m) : None # [parent |-> q, key |-> k, digest |-> m]
  BY <1>1, <1>8, TopicsConstants DEF Table, Here
<1>10. CASE used' = used /\ \A k \in KeysOf(m) : Made(p, m, k) # {}
  <2>1. Rows' = Rows
    BY <1>10 DEF Rows
  <2> QED BY <1>1, <1>2, <1>3, <1>4, <1>5, <1>6, <1>7, <1>8, <1>9, <1>10, <2>1
<1>11. CASE /\ used' = used + Len(m.children) /\ \A k \in KeysOf(m) : Made(p, m, k) = {}
            /\ \A i \in 1..Len(m.children) :
                 /\ task'[used + i].origin = [parent |-> p, key |-> m.children[i].key, digest |-> m]
                 /\ task'[used + i].state # "done" /\ task'[used + i].followUpOf = 0
                 /\ task'[used + i].deps = ToSet(Edges(p, m, m.children[i]))
  <2>1. \A i \in 1..Len(m.children) : used + i \in Rows' \ Rows
    BY <1>2, <1>6, <1>11 DEF Rows
  <2>2. ASSUME NEW n \in Rows' \ Rows PROVE n - used \in 1..Len(m.children) /\ n = used + (n - used)
    BY <1>2, <1>6, <1>11 DEF Rows
  <2> QED BY <1>1, <1>2, <1>3, <1>4, <1>5, <1>6, <1>7, <1>8, <1>9, <1>11, <2>1, <2>2
<1> QED BY <1>10, <1>11 DEF Bears

LEMMA BearsKeepChildren ==
  ASSUME Table, Table', ChildInv, NEW p \in Rows, NEW m, m = Planned(p), m # None, Bears(p, m)
  PROVE  ChildInv'
<1> DEFINE L == Len(m.children)
           key(i) == m.children[i].key
           of(k) == [parent |-> p, key |-> k, digest |-> m]
<1>1. /\ m \in Here.offers /\ Valid(m) /\ m.parent = p /\ p \in TaskIds
      /\ task[p].round \in 1..MaxRound /\ m = manifest[p][task[p].round]
      /\ \A i \in 1..L : key(i) \in KeysOf(m)
      /\ \A k \in KeysOf(m) : \E i \in 1..L : key(i) = k
      /\ \A i, j \in 1..L : key(i) = key(j) => i = j
      /\ \A k \in KeysOf(m) : None # of(k)
      /\ Rows \subseteq Rows' /\ Rows \subseteq TaskIds /\ used \in Nat /\ used' \in Nat
  BY BornFacts DEF ChildInv
<1>2. env' = env /\ manifest' = manifest
  BY DEF Bears
<1>3. \A t \in Rows : /\ SameWork(task'[t], task[t]) /\ task'[t].round = task[t].round
                      /\ task'[t].state = "done" => t = p \/ task[t].state = "done"
  BY DEF Bears
<1>4. Planning'
  <2> SUFFICES ASSUME NEW t \in TaskIds, NEW r \in 1..MaxRound, manifest[t][r] # None
      PROVE  /\ t \in Rows' /\ r <= task'[t].round /\ task'[t].kind = "implement" /\ task'[t].optsIn
             /\ manifest[t][r].parent = t /\ Valid(manifest[t][r])
    BY <1>2 DEF Planning
  <2>1. /\ t \in Rows /\ r <= task[t].round /\ task[t].kind = "implement" /\ task[t].optsIn
        /\ manifest[t][r].parent = t /\ Valid(manifest[t][r])
    BY DEF ChildInv, Planning
  <2> QED BY <1>1, <1>3, <2>1 DEF SameWork
<1>5. \A q \in Rows : Planned(q)' = Planned(q)
  BY <1>2, <1>3 DEF Planned
<1>6. CASE used' = used /\ Rows' = Rows /\ \A k \in KeysOf(m) : Made(p, m, k) # {}
  <2>1. Origins' /\ Whole' /\ Once' /\ \A q, x, k : Made(q, x, k)' = Made(q, x, k)
    <3>0. used' = used /\ used \in Nat
      BY <1>1, <1>6
    <3>1. used' >= used
      BY <3>0
    <3> QED BY <1>1, <1>2, <1>3, <1>6, <3>1, OriginsStay DEF ChildInv, SameWork
  <2>2. \A k \in KeysOf(m) : Made(p, m, k)' # {}
    BY <1>6, <2>1
  <2>3. \A q \in Rows' : task'[q].state = "done" /\ Planned(q)' # None /\ ~Loose =>
          \/ q \in Rows /\ task[q].state = "done" /\ Planned(q)' = Planned(q)
          \/ \E x : x = Planned(q)' /\ \A k \in KeysOf(x) : Made(q, x, k)' # {}
    BY <1>3, <1>5, <1>6, <2>2
  <2>4. DoneWhole'
    BY <1>2, <2>1, <2>3, DoneStays DEF ChildInv
  <2> QED BY <1>4, <2>1, <2>4 DEF ChildInv
<1>7. CASE /\ used' = used + L /\ \A k \in KeysOf(m) : Made(p, m, k) = {}
           /\ \A i \in 1..L : /\ used + i \in Rows' \ Rows
                             /\ task'[used + i].origin = of(key(i)) /\ task'[used + i].state # "done"
           /\ \A n \in Rows' \ Rows : \E i \in 1..L : n = used + i
  <2>1. \A t \in Rows : task'[t].origin = task[t].origin
    BY <1>3 DEF SameWork
  <2>2. \A i \in 1..L : task'[used + i].origin = of(key(i)) /\ task'[used + i].state # "done"
    BY <1>7
  <2> HIDE DEF key
  <2>3. ASSUME NEW c \in Rows' \ Rows
        PROVE  /\ \E i \in 1..L : c = used + i /\ task'[c].origin = of(key(i))
               /\ task'[c].state # "done"
    BY <1>7, <2>2
  <2>4. \A k \in KeysOf(m) : \E d \in Rows' : task'[d].origin = of(k)
    <3> SUFFICES ASSUME NEW k \in KeysOf(m) PROVE \E d \in Rows' : task'[d].origin = of(k)
      OBVIOUS
    <3>1. PICK i \in 1..L : key(i) = k
      BY <1>1
    <3> QED BY <1>7, <2>2, <3>1
  <2>5. Origins'
    <3> SUFFICES ASSUME NEW c \in Rows', task'[c].origin # None
        PROVE  \E q \in Rows', r \in 1..MaxRound : \E k \in KeysOf(manifest[q][r]) :
                 /\ manifest[q][r] # None
                 /\ task'[c].origin = [parent |-> q, key |-> k, digest |-> manifest[q][r]]
      BY <1>2 DEF Origins
    <3>1. CASE c \in Rows
      <4>1. PICK q \in Rows, r \in 1..MaxRound : \E k \in KeysOf(manifest[q][r]) :
              /\ manifest[q][r] # None
              /\ task[c].origin = [parent |-> q, key |-> k, digest |-> manifest[q][r]]
        BY <2>1, <3>1 DEF ChildInv, Origins
      <4> QED BY <1>1, <2>1, <3>1, <4>1
    <3>2. CASE c \notin Rows
      <4>1. PICK i \in 1..L : task'[c].origin = of(key(i))
        BY <2>3, <3>2
      <4>2. PICK r \in 1..MaxRound : m = manifest[p][r]
        BY <1>1
      <4>3. key(i) \in KeysOf(manifest[p][r])
        BY <1>1, <4>2
      <4>4. task'[c].origin = [parent |-> p, key |-> key(i), digest |-> manifest[p][r]]
        BY <4>1, <4>2
      <4> QED BY <1>1, <4>2, <4>3, <4>4
    <3> QED BY <3>1, <3>2
  <2>6. Whole'
    <3> SUFFICES ASSUME NEW c \in Rows', task'[c].origin # None, NEW x, x = task'[c].origin,
                        NEW k \in KeysOf(x.digest)
        PROVE  \E d \in Rows' : task'[d].origin = [parent |-> x.parent, key |-> k, digest |-> x.digest]
      BY DEF Whole
    <3>1. CASE c \in Rows
      <4>1. PICK d \in Rows : task[d].origin = [parent |-> x.parent, key |-> k, digest |-> x.digest]
        BY <2>1, <3>1 DEF ChildInv, Whole
      <4> QED BY <1>1, <2>1, <4>1
    <3>2. CASE c \notin Rows
      <4>1. PICK i \in 1..L : x = of(key(i))
        BY <2>3, <3>2
      <4>2. x.parent = p /\ x.digest = m
        BY <4>1
      <4>3. k \in KeysOf(m)
        BY <4>2
      <4> QED BY <2>4, <4>2, <4>3
    <3> QED BY <3>1, <3>2
  <2>7. Once'
    <3> SUFFICES ASSUME NEW c \in Rows', NEW d \in Rows', task'[c].origin # None,
                        task'[c].origin = task'[d].origin
                 PROVE  c = d
      BY DEF Once
    <3>1. ASSUME NEW a \in Rows, NEW b \in Rows' \ Rows, task'[a].origin = task'[b].origin PROVE FALSE
      <4>1. PICK i \in 1..L : task'[b].origin = of(key(i))
        BY <2>3
      <4>2. task[a].origin = of(key(i)) /\ key(i) \in KeysOf(m) /\ of(key(i)) # None
        BY <1>1, <2>1, <3>1, <4>1
      <4>3. a \in Made(p, m, key(i))
        BY <4>2 DEF Made
      <4> QED BY <1>7, <4>2, <4>3
    <3>2. CASE c \in Rows /\ d \in Rows
      BY <2>1, <3>2 DEF ChildInv, Once
    <3>3. CASE c \notin Rows /\ d \notin Rows
      <4>1. PICK i \in 1..L : c = used + i /\ task'[c].origin = of(key(i))
        BY <2>3, <3>3
      <4>2. PICK j \in 1..L : d = used + j /\ task'[d].origin = of(key(j))
        BY <2>3, <3>3
      <4>3. key(i) = key(j)
        BY <4>1, <4>2
      <4> QED BY <1>1, <4>1, <4>2, <4>3
    <3> QED BY <3>1, <3>2, <3>3
  <2>8. DoneWhole'
    <3>1. \A x, k : \A q \in Rows' : Made(q, x, k) # {} => Made(q, x, k)' # {}
      BY <1>1, <2>1 DEF Made
    <3>2. \A k \in KeysOf(m) : Made(p, m, k)' # {}
      BY <1>1, <2>4 DEF Made
    <3>3. \A q \in Rows' : task'[q].state = "done" /\ Planned(q)' # None /\ ~Loose =>
            \/ q \in Rows /\ task[q].state = "done" /\ Planned(q)' = Planned(q)
            \/ \E x : x = Planned(q)' /\ \A k \in KeysOf(x) : Made(q, x, k)' # {}
      BY <1>3, <1>5, <2>3, <3>2
    <3> QED BY <1>2, <3>1, <3>3, DoneStays DEF ChildInv
  <2> QED BY <1>4, <2>5, <2>6, <2>7, <2>8 DEF ChildInv
<1> QED BY <1>6, <1>7, BornFacts DEF ChildInv

LEMMA NextKeepsChildren == QueueInv /\ QueueInv' /\ ChildInv /\ [Next]_vars => ChildInv'
<1> SUFFICES ASSUME QueueInv, QueueInv', ChildInv, [Next]_vars PROVE ChildInv'
  OBVIOUS
<1>1. Table /\ Lineage /\ Table'
  BY DEF QueueInv
<1>2. \/ Plain /\ Waits
      \/ \E t \in Rows, m \in Here.offers \cup {None} : Plans(t, m)
      \/ \E p \in Rows : Planned(p) # None /\ Bears(p, Planned(p))
  BY <1>1, WaysForChildren DEF ChildInv
<1>3. ASSUME NEW p \in Rows, Planned(p) # None, Bears(p, Planned(p)) PROVE ChildInv'
  <2>1. PICK m : m = Planned(p)
    OBVIOUS
  <2>2. Bears(p, m)
    BY <1>3, <2>1
  <2> QED BY <1>1, <1>3, <2>1, <2>2, BearsKeepChildren
<1> QED BY <1>1, <1>2, <1>3, PlainKeepsChildren, PlansKeepChildren

LEMMA ChildrenStart == Init => ChildInv
<1> SUFFICES ASSUME Init PROVE ChildInv
  OBVIOUS
<1>1. Rows = {} /\ manifest = [t \in TaskIds |-> [r \in 1..MaxRound |-> None]]
  BY DEF Init, Rows
<1> QED BY <1>1 DEF ChildInv, Planning, Origins, Whole, Once, DoneWhole

LEMMA ChildrenAlways == Spec => [](QueueInv /\ ChildInv)
<1>1. Spec => []QueueInv
  BY QueueAlways
<1>2. Init => ChildInv
  BY ChildrenStart
<1>3. QueueInv /\ QueueInv' /\ ChildInv /\ [Next]_vars => ChildInv'
  BY NextKeepsChildren
<1> QED BY <1>1, <1>2, <1>3, PTL DEF Spec

\* A child of p is one that is made of a submission of p.
LEMMA ChildIsMade ==
  ASSUME Table, Planning, Origins, NEW p \in Rows, NEW c \in CreatedChildren(p)
  PROVE  \E m, k : \E r \in 1..task[p].round :
           /\ m = manifest[p][r] /\ Valid(m) /\ m \in Here.offers /\ k \in KeysOf(m)
           /\ task[c].origin = [parent |-> p, key |-> k, digest |-> m] /\ c \in Made(p, m, k)
<1>1. c \in Rows /\ task[c].origin # None /\ task[c].origin.parent = p /\ p \in TaskIds
  BY RowsAreTasks DEF CreatedChildren
<1>2. PICK q \in Rows, r \in 1..MaxRound : \E k \in KeysOf(manifest[q][r]) :
        /\ manifest[q][r] # None
        /\ task[c].origin = [parent |-> q, key |-> k, digest |-> manifest[q][r]]
  BY <1>1 DEF Origins
<1>3. PICK k \in KeysOf(manifest[q][r]) :
        /\ manifest[q][r] # None
        /\ task[c].origin = [parent |-> q, key |-> k, digest |-> manifest[q][r]]
  BY <1>2
<1>4. PICK m : m = manifest[q][r]
  OBVIOUS
<1>5. task[c].origin = [parent |-> q, key |-> k, digest |-> m] /\ q = p
  BY <1>1, <1>3, <1>4
<1>6. m = manifest[p][r] /\ m # None /\ k \in KeysOf(m)
  BY <1>3, <1>4, <1>5
<1>7. r <= task[p].round /\ Valid(m)
  BY <1>1, <1>6 DEF Planning
<1>8. m \in Here.offers
  <2>1. manifest[p][r] \in Here.offers \cup {None}
    BY <1>1 DEF Table
  <2> QED BY <1>6, <2>1
<1>9. c \in Made(p, m, k)
  BY <1>1, <1>5 DEF Made
<1>10. r \in 1..task[p].round
  BY <1>1, <1>7, TopicsConstants DEF Table
<1> QED BY <1>5, <1>6, <1>7, <1>8, <1>9, <1>10

LEMMA ChildrenComeWhole == QueueInv /\ ChildInv => ChildrenAreWhole
<1> SUFFICES ASSUME QueueInv, ChildInv PROVE ChildrenAreWhole
  OBVIOUS
<1>0. Table /\ Planning /\ Origins /\ Whole /\ Once /\ DoneWhole
  BY DEF QueueInv, ChildInv
<1> DEFINE Shown(p) == IF Planned(p) = None THEN {}
                       ELSE {ProposedStatus(p, k) : k \in KeysOf(Planned(p))}
<1>1. ASSUME NEW p \in Rows, NEW c \in CreatedChildren(p)
      PROVE  LET m == task[c].origin.digest
             IN /\ \E r \in 1..task[p].round : manifest[p][r] = m
                /\ \A k \in KeysOf(m) :
                     Cardinality({t \in CreatedChildren(p) :
                       task[t].origin = [parent |-> p, key |-> k, digest |-> m]}) = 1
  <2>1. PICK m, k : \E r \in 1..task[p].round :
           /\ m = manifest[p][r] /\ Valid(m) /\ m \in Here.offers /\ k \in KeysOf(m)
           /\ task[c].origin = [parent |-> p, key |-> k, digest |-> m] /\ c \in Made(p, m, k)
    BY <1>0, ChildIsMade
  <2>2. task[c].origin.digest = m
    BY <2>1
  <2>3. ASSUME NEW j \in KeysOf(m)
        PROVE  Cardinality({t \in CreatedChildren(p) :
                 task[t].origin = [parent |-> p, key |-> j, digest |-> m]}) = 1
    <3>1. PICK d \in Made(p, m, j) : TRUE
      BY <1>0, <2>1, AllOrNone
    <3>2. d \in Rows /\ task[d].origin # None /\ task[d].origin = [parent |-> p, key |-> j, digest |-> m]
      BY <3>1 DEF Made
    <3>3. d \in CreatedChildren(p)
      BY <3>2 DEF CreatedChildren
    <3>4. ASSUME NEW t \in CreatedChildren(p), task[t].origin = [parent |-> p, key |-> j, digest |-> m]
          PROVE  t = d
      BY <1>0, <3>2, <3>4 DEF Once, CreatedChildren
    <3>5. {t \in CreatedChildren(p) : task[t].origin = [parent |-> p, key |-> j, digest |-> m]} = {d}
      BY <3>2, <3>3, <3>4
    <3> QED BY <3>5, FS_Singleton
  <2> QED BY <2>1, <2>2, <2>3
<1>2. ASSUME NEW p \in Rows, NEW m \in Here.offers, m = Planned(p), NEW k \in KeysOf(m)
      PROVE  ProposedStatus(p, k) = IF Made(p, m, k) # {} THEN "created"
                                    ELSE IF task[p].state \in {"done", "failed"} THEN "not_created"
                                    ELSE "pending"
  <2>1. ASSUME NEW t \in CreatedChildren(p), task[t].origin.key = k, task[t].origin.digest = m
        PROVE  t \in Made(p, m, k)
    <3>1. PICK n, j : task[t].origin = [parent |-> p, key |-> j, digest |-> n] /\ t \in Made(p, n, j)
      BY <1>0, ChildIsMade
    <3>2. j = k /\ n = m
      BY <2>1, <3>1
    <3> QED BY <3>1, <3>2
  <2>2. ASSUME NEW t \in Made(p, m, k)
        PROVE  t \in CreatedChildren(p) /\ task[t].origin.key = k /\ task[t].origin.digest = m
    BY DEF Made, CreatedChildren
  <2> QED BY <1>2, <2>1, <2>2 DEF ProposedStatus
<1>3. ASSUME NEW p \in Rows
      PROVE  /\ Cardinality(Shown(p)) <= 1
             /\ "converge" \notin Here.doings /\ "done" \notin Here.outcomes /\ task[p].state = "done"
                  => Shown(p) \subseteq {"created"}
  <2>1. CASE Planned(p) = None
    <3>1. Shown(p) = {}
      BY <2>1
    <3>2. Cardinality(Shown(p)) = 0
      BY <3>1, FS_EmptySet
    <3> QED BY <3>1, <3>2
  <2>2. CASE Planned(p) # None
    <3>1. PICK m : m = Planned(p) /\ m \in Here.offers /\ m # None
      BY <1>0, <2>2, PlannedFacts
    <3>2. Shown(p) = {ProposedStatus(p, k) : k \in KeysOf(m)}
      BY <2>2, <3>1
    <3>3. \E v : Shown(p) \subseteq {v}
      <4>1. CASE \A k \in KeysOf(m) : Made(p, m, k) # {}
        BY <1>2, <3>1, <3>2, <4>1
      <4>2. CASE \A k \in KeysOf(m) : Made(p, m, k) = {}
        <5>1. PICK v : v = IF task[p].state \in {"done", "failed"} THEN "not_created" ELSE "pending"
          OBVIOUS
        <5>2. \A k \in KeysOf(m) : ProposedStatus(p, k) = v
          BY <1>2, <3>1, <4>2, <5>1
        <5> QED BY <3>2, <5>2
      <4> QED BY <1>0, <3>1, <4>1, <4>2, AllOrNone
    <3>4. Cardinality(Shown(p)) <= 1
      <4>1. PICK v : Shown(p) = {} \/ Shown(p) = {v}
        BY <3>3
      <4>2. Cardinality({}) = 0 /\ Cardinality({v}) = 1
        BY FS_EmptySet, FS_Singleton
      <4> QED BY <4>1, <4>2
    <3>5. ASSUME "converge" \notin Here.doings, "done" \notin Here.outcomes, task[p].state = "done"
          PROVE  Shown(p) \subseteq {"created"}
      <4>1. \A k \in KeysOf(m) : Made(p, m, k) # {}
        BY <1>0, <3>1, <3>5 DEF DoneWhole, Loose
      <4> QED BY <1>2, <3>1, <3>2, <4>1
    <3> QED BY <3>4, <3>5
  <2> QED BY <2>1, <2>2
<1> QED BY <1>1, <1>3 DEF ChildrenAreWhole

\* The children of a manifest are made all at once and each once, of what was submitted and
\* reviewed; nothing that plans children is done without them (but by merges behind the
\* board's back and rounds without a change): InsertManifestChildren and transitionTask
\* (internal/store/store.go), and the view in continuation_info.go.
THEOREM ChildrenAreWholeAlways == Spec => []ChildrenAreWhole
BY ChildrenAlways, ChildrenComeWhole, PTL

-----------------------------------------------------------------------------
(* Children fit together *)

\* The validator refuses every manifest with children that wait for each other; MCTopics
\* compares hasCycleDFS with Startable for every manifest of the allowed size.
CyclesAreRefused ==
  \A e \in DOMAIN Environments : \A m \in Environments[e].offers : Valid(m) => Startable(m)

WaitsForRows == \A t \in Rows : task[t].deps \subseteq Rows
NoKnot == \A S \in SUBSET Rows : S # {} => \E t \in S : task[t].deps \cap S = {}
FollowUpsApart == \A t \in Rows : task[t].origin # None => task[t].followUpOf = 0
FitInv == WaitsForRows /\ NoKnot /\ FollowUpsApart

LEMMA WaitsStayFit ==
  ASSUME Table, WaitsForRows, NoKnot, WaitsStay, used' \in Nat, used' >= used
  PROVE  WaitsForRows' /\ NoKnot'
<1>1. Rows \subseteq Rows'
  BY RowsAreTasks DEF Rows
<1>2. WaitsForRows'
  BY <1>1 DEF WaitsForRows, WaitsStay
<1>3. NoKnot'
  <2> SUFFICES ASSUME NEW S \in SUBSET Rows', S # {} PROVE \E t \in S : task'[t].deps \cap S = {}
    BY DEF NoKnot
  <2>1. CASE S \subseteq Rows
    <3>1. PICK t \in S : task[t].deps \cap S = {}
      BY <2>1 DEF NoKnot
    <3> QED BY <2>1, <3>1 DEF WaitsStay
  <2>2. CASE ~(S \subseteq Rows)
    BY <2>2 DEF WaitsStay
  <2> QED BY <2>1, <2>2
<1> QED BY <1>2, <1>3

LEMMA WaitsMoveFit ==
  ASSUME Table, WaitsForRows, NoKnot, NEW p \in Rows, WaitsMove(p)
  PROVE  WaitsForRows' /\ NoKnot'
<1>1. PICK n : n = used + 1
  OBVIOUS
<1>2. used \in Nat /\ Rows' = Rows \cup {n} /\ n \notin Rows
  BY <1>1, RowsAreTasks DEF Rows, WaitsMove
<1>3. /\ task'[n].deps = task[p].deps
      /\ \A t \in Rows : task'[t].deps = IF p \in task[t].deps
                                         THEN (task[t].deps \ {p}) \cup {n} ELSE task[t].deps
  BY <1>1 DEF WaitsMove
<1>4. \A t \in Rows : n \notin task[t].deps /\ p \notin task[p].deps
  <2>1. task[p].deps \cap {p} = {}
    BY DEF NoKnot
  <2> QED BY <1>2, <2>1 DEF WaitsForRows
<1>5. WaitsForRows'
  BY <1>2, <1>3 DEF WaitsForRows
<1>6. NoKnot'
  <2> SUFFICES ASSUME NEW S \in SUBSET Rows', S # {} PROVE \E t \in S : task'[t].deps \cap S = {}
    BY DEF NoKnot
  <2>1. CASE n \notin S
    <3>1. PICK t \in S : t \in Rows /\ task[t].deps \cap S = {}
      BY <1>2, <2>1 DEF NoKnot
    <3> QED BY <1>3, <2>1, <3>1
  <2>2. CASE n \in S
    <3> DEFINE T == (S \ {n}) \cup {p}
    <3>1. T \in SUBSET Rows /\ T # {}
      BY <1>2
    <3>2. PICK t \in T : task[t].deps \cap T = {}
      BY <3>1 DEF NoKnot
    <3>3. t \in Rows /\ p \notin task[t].deps /\ n \notin task[t].deps
      BY <1>4, <3>1, <3>2
    <3>4. task'[t].deps = task[t].deps /\ task[t].deps \cap S = {}
      BY <1>3, <3>2, <3>3
    <3>5. CASE t \in S
      BY <3>4, <3>5
    <3>6. CASE t \notin S
      <4>1. t = p
        BY <3>6
      <4> QED BY <1>3, <2>2, <3>4, <4>1
    <3> QED BY <3>5, <3>6
  <2> QED BY <2>1, <2>2
<1> QED BY <1>5, <1>6

\* The rows a new child waits for: rows there are, and its siblings it names.
LEMMA BornWaits ==
  ASSUME Table, Table', Planning, NEW p \in Rows, NEW m, m = Planned(p), m # None, Bears(p, m),
         \A k \in KeysOf(m) : Made(p, m, k) = {}, NEW i \in 1..Len(m.children),
         NEW x \in ToSet(Edges(p, m, m.children[i]))
  PROVE  \/ x \in Rows
         \/ \E d \in ToSet(m.children[i].deps), j \in 1..Len(m.children) :
              d.kind = "child" /\ d.ref = m.children[j].key /\ x = used + j
<1>1. /\ m \in Here.offers /\ Valid(m) /\ m.parent = p
      /\ m.children \in Seq(Children(m)) /\ Len(m.children) \in Nat
      /\ m.children[i] \in Children(m)
      /\ \A k \in KeysOf(m) : \E j \in 1..Len(m.children) : m.children[j].key = k
      /\ \A k, j \in 1..Len(m.children) : m.children[k].key = m.children[j].key => k = j
  BY BornFacts
<1>2. DOMAIN m.children = 1..Len(m.children)
  BY <1>1
<1>3. Fresh(p, m) = m.children
  <2>1. \A c \in Children(m) : Made(p, m, c.key) = {}
    BY DEF KeysOf
  <2>2. m.children \in Seq(ToSet(m.children))
    BY <1>1 DEF Children
  <2> QED BY <2>1, <2>2, FreshFacts
<1>4. PICK c : c = m.children[i]
  OBVIOUS
<1>5. PICK d \in ToSet(c.deps) : x = Edge(p, m, d)
  BY <1>4 DEF Edges, ToSet
<1>6. ValidDeps(m, c) /\ (d.kind = "task" => d.ref \in Rows)
  <2>1. c \in ToSet(Fresh(p, m))
    BY <1>2, <1>3, <1>4 DEF ToSet
  <2> QED BY <1>1, <1>4, <2>1 DEF Valid, Bears, Insertable
<1>7. \/ d.kind = "parent" /\ d.ref = p
      \/ d.kind = "child" /\ d.ref \in KeysOf(m)
      \/ d.kind = "task" /\ d.ref \in Rows
  BY <1>1, <1>6 DEF ValidDeps
<1>8. CASE d.kind # "child"
  BY <1>5, <1>7, <1>8 DEF Edge
<1>9. CASE d.kind = "child"
  <2>1. PICK j \in 1..Len(m.children) : m.children[j].key = d.ref
    BY <1>1, <1>7, <1>9
  <2>2. {k \in DOMAIN m.children : m.children[k].key = d.ref} = {j}
    BY <1>1, <1>2, <2>1
  <2>3. Min({j}) = j
    BY DEF Min
  <2>4. IdOf(p, m, d.ref) = used + j
    BY <1>3, <2>2, <2>3 DEF IdOf
  <2>5. x = used + j
    BY <1>5, <1>9, <2>4 DEF Edge
  <2> QED BY <1>4, <1>9, <2>1, <2>5
<1> QED BY <1>8, <1>9

LEMMA BearsFit ==
  ASSUME CyclesAreRefused, Table, Table', Planning, WaitsForRows, NoKnot, FollowUpsApart,
         NEW p \in Rows, NEW m, m = Planned(p), m # None, Bears(p, m)
  PROVE  WaitsForRows' /\ NoKnot' /\ FollowUpsApart'
<1> DEFINE L == Len(m.children)
           key(i) == m.children[i].key
<1>1. /\ m \in Here.offers /\ Valid(m) /\ m.children \in Seq(Children(m)) /\ L \in Nat
      /\ \A i \in 1..L : m.children[i] \in Children(m) /\ key(i) \in KeysOf(m)
      /\ \A i, j \in 1..L : key(i) = key(j) => i = j
      /\ used \in Nat /\ Rows \subseteq Rows'
      /\ \/ used' = used /\ Rows' = Rows
         \/ /\ used' = used + L /\ \A k \in KeysOf(m) : Made(p, m, k) = {}
            /\ \A i \in 1..L : /\ used + i \in Rows' \ Rows /\ task'[used + i].followUpOf = 0
                              /\ task'[used + i].deps = ToSet(Edges(p, m, m.children[i]))
            /\ \A n \in Rows' \ Rows : \E i \in 1..L : n = used + i
  <2>1. /\ m \in Here.offers /\ Valid(m) /\ m.children \in Seq(Children(m))
        /\ Len(m.children) \in Nat /\ used \in Nat /\ Rows \subseteq Rows'
    BY BornFacts
  <2>2. \A i \in 1..Len(m.children) : m.children[i] \in Children(m) /\ m.children[i].key \in KeysOf(m)
    BY BornFacts
  <2>3. \A i, j \in 1..Len(m.children) : m.children[i].key = m.children[j].key => i = j
    BY BornFacts
  <2>4. \/ used' = used /\ Rows' = Rows
        \/ /\ used' = used + Len(m.children) /\ \A k \in KeysOf(m) : Made(p, m, k) = {}
           /\ \A i \in 1..Len(m.children) :
                /\ used + i \in Rows' \ Rows /\ task'[used + i].followUpOf = 0
                /\ task'[used + i].deps = ToSet(Edges(p, m, m.children[i]))
           /\ \A n \in Rows' \ Rows : \E i \in 1..Len(m.children) : n = used + i
    <3>1. \/ used' = used /\ Rows' = Rows /\ \A k \in KeysOf(m) : Made(p, m, k) # {}
          \/ /\ used' = used + Len(m.children) /\ \A k \in KeysOf(m) : Made(p, m, k) = {}
             /\ \A i \in 1..Len(m.children) :
                  /\ used + i \in Rows' \ Rows
                  /\ task'[used + i].origin = [parent |-> p, key |-> m.children[i].key, digest |-> m]
                  /\ task'[used + i].state # "done" /\ task'[used + i].followUpOf = 0
                  /\ task'[used + i].deps = ToSet(Edges(p, m, m.children[i]))
             /\ \A n \in Rows' \ Rows : \E i \in 1..Len(m.children) : n = used + i
      BY BornFacts
    <3>2. CASE used' = used /\ Rows' = Rows
      BY <3>2
    <3> QED BY <3>1, <3>2
  <2> QED BY <2>1, <2>2, <2>3, <2>4
<1>2. \A t \in Rows : SameWork(task'[t], task[t]) /\ task'[t].deps = task[t].deps
  BY DEF Bears
<1>3. CASE used' = used /\ Rows' = Rows
  BY <1>2, <1>3 DEF WaitsForRows, NoKnot, FollowUpsApart, SameWork
<1>4. CASE /\ used' = used + L /\ \A k \in KeysOf(m) : Made(p, m, k) = {}
           /\ \A i \in 1..L : /\ used + i \in Rows' \ Rows /\ task'[used + i].followUpOf = 0
                             /\ task'[used + i].deps = ToSet(Edges(p, m, m.children[i]))
           /\ \A n \in Rows' \ Rows : \E i \in 1..L : n = used + i
  <2>1. ASSUME NEW i \in 1..L, NEW x \in task'[used + i].deps
        PROVE  \/ x \in Rows
               \/ \E d \in ToSet(m.children[i].deps), j \in 1..L :
                    d.kind = "child" /\ d.ref = key(j) /\ x = used + j
    <3>1. x \in ToSet(Edges(p, m, m.children[i]))
      BY <1>4, <2>1
    <3> QED BY <1>4, <3>1, BornWaits
  <2> HIDE DEF key
  <2>2. FollowUpsApart'
    BY <1>2, <1>4 DEF FollowUpsApart, SameWork
  <2>3. WaitsForRows'
    <3> SUFFICES ASSUME NEW t \in Rows', NEW x \in task'[t].deps PROVE x \in Rows'
      BY DEF WaitsForRows
    <3>1. CASE t \in Rows
      BY <1>1, <1>2, <3>1 DEF WaitsForRows
    <3>2. CASE t \notin Rows
      <4>1. PICK i \in 1..L : t = used + i
        BY <1>4, <3>2
      <4>2. x \in Rows \/ \E j \in 1..L : x = used + j
        BY <2>1, <4>1
      <4> QED BY <1>1, <1>4, <4>2
    <3> QED BY <3>1, <3>2
  <2>4. NoKnot'
    <3> SUFFICES ASSUME NEW S \in SUBSET Rows', S # {} PROVE \E t \in S : task'[t].deps \cap S = {}
      BY DEF NoKnot
    <3>1. CASE S \cap Rows # {}
      <4>1. PICK t \in S \cap Rows : task[t].deps \cap (S \cap Rows) = {}
        BY <3>1 DEF NoKnot
      <4>2. task'[t].deps \subseteq Rows /\ task'[t].deps = task[t].deps
        BY <1>2 DEF WaitsForRows
      <4> QED BY <4>1, <4>2
    <3>2. CASE S \cap Rows = {}
      <4> DEFINE K == {k \in KeysOf(m) : \E i \in 1..L : used + i \in S /\ key(i) = k}
      <4>1. \A n \in S : \E i \in 1..L : n = used + i
        BY <1>4, <3>2
      <4>2. K \in SUBSET KeysOf(m) /\ K # {}
        BY <1>1, <4>1 DEF key
      <4>3. Startable(m)
        BY <1>1 DEF CyclesAreRefused, Table, Here
      <4>4. PICK k \in K : \A d \in ToSet(ChildOf(m, k).deps) : d.kind = "child" => d.ref \notin K
        BY <4>2, <4>3 DEF Startable
      <4>5. PICK i \in 1..L : used + i \in S /\ key(i) = k
        OBVIOUS
      <4>6. ChildOf(m, k) = m.children[i]
        <5>1. m.children[i] \in Children(m) /\ m.children[i].key = k
          BY <1>1, <4>5 DEF key
        <5>2. ASSUME NEW c \in Children(m), c.key = k PROVE c = m.children[i]
          <6>1. PICK j \in 1..L : c = m.children[j]
            BY <1>1, <5>2 DEF Children, ToSet
          <6>2. key(j) = key(i)
            BY <4>5, <5>2, <6>1 DEF key
          <6> QED BY <1>1, <6>1, <6>2
        <5> QED BY <5>1, <5>2 DEF ChildOf
      <4>7. ASSUME NEW x \in task'[used + i].deps, x \in S PROVE FALSE
        <5>1. PICK d \in ToSet(m.children[i].deps), j \in 1..L :
                d.kind = "child" /\ d.ref = key(j) /\ x = used + j
          BY <2>1, <3>2, <4>7
        <5>2. d.ref \in K
          BY <1>1, <4>7, <5>1 DEF key
        <5> QED BY <4>4, <4>6, <5>1, <5>2
      <4> QED BY <4>5, <4>7
    <3> QED BY <3>1, <3>2
  <2> QED BY <2>2, <2>3, <2>4
<1> QED BY <1>1, <1>3, <1>4

LEMMA NextKeepsFit ==
  CyclesAreRefused => (QueueInv /\ QueueInv' /\ ChildInv /\ FitInv /\ [Next]_vars => FitInv')
<1> SUFFICES ASSUME CyclesAreRefused, QueueInv, QueueInv', ChildInv, FitInv, [Next]_vars
             PROVE  FitInv'
  OBVIOUS
<1>1. /\ Table /\ Lineage /\ Table' /\ Planning /\ Whole /\ used \in Nat
      /\ WaitsForRows /\ NoKnot /\ FollowUpsApart
  BY RowsAreTasks DEF QueueInv, ChildInv, FitInv
<1>2. \/ Plain /\ Waits
      \/ \E t \in Rows, m \in Here.offers \cup {None} : Plans(t, m)
      \/ \E p \in Rows : Planned(p) # None /\ Bears(p, Planned(p))
  BY <1>1, WaysForChildren
<1>3. ASSUME NEW p \in Rows, Planned(p) # None, Bears(p, Planned(p)) PROVE FitInv'
  <2>1. PICK m : m = Planned(p)
    OBVIOUS
  <2>2. Bears(p, m)
    BY <1>3, <2>1
  <2> QED BY <1>1, <1>3, <2>1, <2>2, BearsFit DEF FitInv
<1>4. ASSUME NEW t \in Rows, NEW m, Plans(t, m) PROVE FitInv'
  <2>1. used' \in Nat /\ used' >= used /\ \A n \in Rows' \ Rows : n = used + 1
    BY <1>1, <1>4 DEF Plans, Rows
  <2>2. WaitsStay /\ FollowUpsApart'
    BY <1>1, <1>4, <2>1 DEF Plans, WaitsStay, FollowUpsApart, SameWork
  <2> QED BY <1>1, <2>1, <2>2, WaitsStayFit DEF FitInv
<1>5. CASE Plain /\ Waits
  <2>1. FollowUpsApart'
    BY <1>1, <1>5 DEF Plain, FollowUpsApart, SameWork
  <2>2. CASE WaitsStay
    BY <1>1, <1>5, <2>1, <2>2, WaitsStayFit DEF Plain, FitInv
  <2>3. ASSUME NEW p \in Rows, WaitsMove(p) PROVE FitInv'
    BY <1>1, <2>1, <2>3, WaitsMoveFit DEF FitInv
  <2> QED BY <1>5, <2>2, <2>3 DEF Waits
<1> QED BY <1>2, <1>3, <1>4, <1>5

LEMMA FitAlways == CyclesAreRefused => (Spec => [](QueueInv /\ ChildInv /\ FitInv))
<1> SUFFICES ASSUME CyclesAreRefused PROVE Spec => [](QueueInv /\ ChildInv /\ FitInv)
  OBVIOUS
<1>1. Spec => [](QueueInv /\ ChildInv)
  BY ChildrenAlways
<1>2. Init => FitInv
  <2>1. Init => Rows = {}
    BY DEF Init, Rows
  <2> QED BY <2>1 DEF FitInv, WaitsForRows, NoKnot, FollowUpsApart
<1>3. QueueInv /\ QueueInv' /\ ChildInv /\ FitInv /\ [Next]_vars => FitInv'
  BY NextKeepsFit
<1> QED BY <1>1, <1>2, <1>3, PTL DEF Spec

\* Two paths of which neither is the other, or below it, part at some name.
LEMMA PathsPart ==
  ASSUME NEW S, NEW f \in Seq(S), NEW g \in Seq(S), ~Overlap(f, g)
  PROVE  \E i \in DOMAIN f \cap DOMAIN g : f[i] # g[i]
<1>1. ASSUME NEW s \in Seq(S), NEW t \in Seq(S), Len(s) <= Len(t), ~IsPrefix(s, t)
      PROVE  \E i \in DOMAIN s \cap DOMAIN t : s[i] # t[i]
  <2> SUFFICES ASSUME \A i \in DOMAIN s \cap DOMAIN t : s[i] = t[i] PROVE FALSE
    OBVIOUS
  <2>1. Len(s) \in Nat /\ DOMAIN s = 1..Len(s) /\ DOMAIN t = 1..Len(t) /\ Len(t) \in Nat
    OBVIOUS
  <2>2. \A i \in 1..Len(s) : s[i] = t[i]
    BY <1>1, <2>1
  <2>3. SubSeq(s, 1, Len(s)) = [i \in 1..Len(s) |-> s[i]]
    BY <2>1
  <2>4. SubSeq(t, 1, Len(s)) = [i \in 1..Len(s) |-> t[i]]
    BY <1>1, <2>1
  <2> QED BY <1>1, <2>2, <2>3, <2>4 DEF IsPrefix
<1>2. Len(f) \in Nat /\ Len(g) \in Nat /\ ~IsPrefix(f, g) /\ ~IsPrefix(g, f)
  BY DEF Overlap
<1>3. CASE Len(f) <= Len(g)
  BY <1>1, <1>2, <1>3
<1>4. CASE Len(g) <= Len(f)
  BY <1>1, <1>2, <1>4
<1> QED BY <1>2, <1>3, <1>4

LEMMA FitFits == QueueInv /\ ChildInv /\ FitInv => ChildrenFit
<1> SUFFICES ASSUME QueueInv, ChildInv, FitInv PROVE ChildrenFit
  OBVIOUS
<1>0. Table /\ Planning /\ Origins /\ Once /\ NoKnot /\ FollowUpsApart
  BY DEF QueueInv, ChildInv, FitInv
<1>1. ASSUME NEW c \in Rows, NEW d \in Rows, c # d, task[c].origin # None, task[d].origin # None,
             task[c].origin.parent = task[d].origin.parent,
             task[c].origin.digest = task[d].origin.digest
      PROVE  LET m == task[c].origin.digest
                 x == ChildOf(m, task[c].origin.key)
                 y == ChildOf(m, task[d].origin.key)
             IN /\ \A claim \in ToSet(x.claims) : claim \notin ToSet(y.claims)
                /\ \A f \in ToSet(x.files), g \in ToSet(y.files) :
                     \E i \in DOMAIN f \cap DOMAIN g : f[i] # g[i]
  <2>0. PICK p : p = task[c].origin.parent
    OBVIOUS
  <2>1. p \in Rows /\ c \in CreatedChildren(p) /\ d \in CreatedChildren(p)
    <3>1. PICK q \in Rows, r \in 1..MaxRound : \E k \in KeysOf(manifest[q][r]) :
            /\ manifest[q][r] # None
            /\ task[c].origin = [parent |-> q, key |-> k, digest |-> manifest[q][r]]
      BY <1>0, <1>1 DEF Origins
    <3>2. task[c].origin.parent = q
      BY <3>1
    <3> QED BY <1>1, <2>0, <3>2 DEF CreatedChildren
  <2>2. PICK m, k : \E r \in 1..task[p].round :
          /\ m = manifest[p][r] /\ Valid(m) /\ m \in Here.offers /\ k \in KeysOf(m)
          /\ task[c].origin = [parent |-> p, key |-> k, digest |-> m] /\ c \in Made(p, m, k)
    BY <1>0, <2>1, ChildIsMade
  <2>3. PICK n, l : \E s \in 1..task[p].round :
          /\ n = manifest[p][s] /\ Valid(n) /\ n \in Here.offers /\ l \in KeysOf(n)
          /\ task[d].origin = [parent |-> p, key |-> l, digest |-> n] /\ d \in Made(p, n, l)
    BY <1>0, <2>1, ChildIsMade
  <2>4. n = m /\ l \in KeysOf(m) /\ k # l
    <3>1. n = m
      BY <1>1, <2>2, <2>3
    <3> QED BY <1>0, <1>1, <2>2, <2>3, <3>1 DEF Once
  <2>5. PICK e \in DOMAIN Environments : m \in Environments[e].offers
    BY <1>0, <2>2 DEF Table, Here
  <2>6. PICK x : x = ChildOf(m, k) /\ x \in Children(m) /\ x.key = k
    BY <2>2 DEF ChildOf, KeysOf
  <2>7. PICK y : y = ChildOf(m, l) /\ y \in Children(m) /\ y.key = l
    BY <2>4 DEF ChildOf, KeysOf
  <2>8. PICK i \in DOMAIN m.children : m.children[i] = x
    BY <2>6 DEF Children, ToSet
  <2>9. PICK j \in DOMAIN m.children : m.children[j] = y
    BY <2>7 DEF Children, ToSet
  <2>10. ToSet(x.claims) \cap ToSet(y.claims) = {} /\ ~FileOverlap(x, y)
    <3>1. i # j
      BY <2>4, <2>6, <2>7, <2>8, <2>9
    <3> QED BY <2>2, <2>8, <2>9, <3>1 DEF Valid
  <2>11. ASSUME NEW f \in ToSet(x.files), NEW g \in ToSet(y.files)
         PROVE  \E z \in DOMAIN f \cap DOMAIN g : f[z] # g[z]
    <3>0. \A z \in Children(m) : \A h \in ToSet(z.files) : h \in Seq(ToSet(h))
      BY <2>5, TopicsConstants
    <3>1. f \in Seq(ToSet(f)) /\ g \in Seq(ToSet(g))
      BY <2>6, <2>7, <3>0
    <3>2. PICK S : S = ToSet(f) \cup ToSet(g)
      OBVIOUS
    <3>3. f \in Seq(S) /\ g \in Seq(S)
      BY <3>1, <3>2
    <3>4. ~Overlap(f, g)
      BY <2>10 DEF FileOverlap
    <3> QED BY <3>3, <3>4, PathsPart
  <2>12. task[c].origin.digest = m /\ task[c].origin.key = k /\ task[d].origin.key = l
    BY <2>2, <2>3
  <2> QED BY <2>6, <2>7, <2>10, <2>11, <2>12
<1>2. ASSUME NEW p \in Rows, NEW c \in CreatedChildren(p)
      PROVE  /\ ShownClaimable(c) <=> Claimable(c)
             /\ ShownClaimable(c) => DependencyStatus(c) # "blocked"
  <2>1. BlockedBy(c) = {} <=> \A d \in task[c].deps : task[d].state = "done"
    BY DEF BlockedBy
  <2> QED BY <2>1 DEF ShownClaimable, Claimable, DependencyStatus
<1>3. ASSUME NEW p \in Rows, NEW t \in ActionItems(p)
      PROVE  t \notin CreatedChildren(p) /\ task[t].state # "done"
  <2>1. p # 0
    BY <1>0, RowsAreTasks DEF Rows
  <2>2. CASE t \in HeldFollowUps(p)
    BY <1>0, <2>1, <2>2 DEF HeldFollowUps, Unsettled, CreatedChildren, FollowUpsApart
  <2>3. CASE t \in HeldDependents(p)
    BY <2>3 DEF HeldDependents, Unsettled
  <2> QED BY <1>3, <2>2, <2>3 DEF ActionItems
<1>4. \A S \in SUBSET Rows : S # {} => \E t \in S : task[t].deps \cap S = {}
  BY <1>0 DEF NoKnot
<1> QED BY <1>1, <1>2, <1>3, <1>4 DEF ChildrenFit

\* Children of one manifest share no claim and no path, nothing waits for itself, and what
\* the view of their parent shows is what a claim gets, given that the validator refuses
\* every circle: Validate (internal/manifest/manifest.go), InsertManifestChildren
\* (internal/store/store.go), and the view in continuation_info.go.
THEOREM ChildrenFitAlways == CyclesAreRefused => (Spec => []ChildrenFit)
<1> SUFFICES ASSUME CyclesAreRefused PROVE Spec => []ChildrenFit
  OBVIOUS
<1>1. Spec => [](QueueInv /\ ChildInv /\ FitInv)
  BY FitAlways
<1> QED BY <1>1, FitFits, PTL
=============================================================================
