-------------------------- MODULE BoardHistoryProofs --------------------------
(***************************************************************************)
(* The history of the task board's rows.                                   *)
(*                                                                         *)
(* The dependencies of the task board stay without a cycle, for any number *)
(* of tasks: only a batch that is cyclic in itself brings one in.  The     *)
(* cycle check of the code is a walk over the dependency graph, so what it *)
(* answers is proved first, by induction on the length of the walk.        *)
(*                                                                         *)
(* Then what can become of a row in one step, in any operation, and from   *)
(* that what finishes and reopens work, why no round is forgotten, and     *)
(* what holds as long as operators leave alone what is in review.          *)
(***************************************************************************)
EXTENDS BoardProofs, FiniteSetTheorems

-----------------------------------------------------------------------------
(* What the walk of the cycle check finds *)

\* Induction over the natural numbers, for a set.
LEMMA NatSetInduction ==
  ASSUME NEW P, 0 \in P, \A n \in Nat : n \in P => n + 1 \in P
  PROVE  Nat \subseteq P
<1> DEFINE Bad == Nat \ P
<1> SUFFICES ASSUME Bad # {} PROVE FALSE
  OBVIOUS
<1>1. PICK k \in Bad : \A j \in Bad : ~(<<j, k>> \in OpToRel(<, Nat))
  BY NatLessThanWellFounded, WFMin
<1>2. \A j \in Bad : ~(j < k)
  BY <1>1 DEF OpToRel
<1>3. k \in Nat /\ k # 0 /\ k - 1 \in Nat /\ k - 1 < k
  OBVIOUS
<1>4. k - 1 \in P
  BY <1>2, <1>3
<1> QED BY <1>3, <1>4

\* One step of the walk: the rows found and those they depend on.
Grown(S) == S \cup UNION {deps[t] : t \in S}

\* The rows found after each step are well defined.
LEMMA UpstreamSteps ==
  ASSUME NEW S
  PROVE  \E R : /\ R = [n \in 0..MaxTasks |-> IF n = 0 THEN S ELSE Grown(R[n - 1])]
                /\ Upstream(S) = R[MaxTasks]
<1> DEFINE Fits(g, k) == g = [n \in 0..k |-> IF n = 0 THEN S ELSE Grown(g[n - 1])]
           P == {k \in Nat : \E g : Fits(g, k)}
<1>1. 0 \in P
  <2>1. Fits([n \in 0..0 |-> S], 0)
    OBVIOUS
  <2> QED BY <2>1
<1>2. ASSUME NEW k \in Nat, k \in P PROVE k + 1 \in P
  <2>1. PICK g : Fits(g, k)
    BY <1>2
  <2> DEFINE h == [n \in 0..(k + 1) |-> IF n = 0 THEN S ELSE Grown(g[n - 1])]
  <2>2. \A n \in 0..k : h[n] = g[n]
    BY <2>1
  <2>3. \A n \in 0..(k + 1) : n # 0 => n - 1 \in 0..k
    OBVIOUS
  <2>4. Fits(h, k + 1)
    BY <2>2, <2>3
  <2> HIDE DEF h, Fits
  <2>5. \E gg : Fits(gg, k + 1)
    BY <2>4
  <2> QED BY <2>5
<1>3. MaxTasks \in P
  BY <1>1, <1>2, NatSetInduction, BoundsAssumption
<1> DEFINE R == CHOOSE g : Fits(g, MaxTasks)
<1>4. Fits(R, MaxTasks)
  BY <1>3
<1>5. Upstream(S) = R[MaxTasks]
  BY DEF Upstream, Grown
<1> QED BY <1>4, <1>5

\* The walk finds nothing outside a set that holds where it starts and is closed
\* under dependencies.
LEMMA UpstreamLeast ==
  ASSUME NEW S, NEW C, S \subseteq C, \A t \in C : deps[t] \subseteq C
  PROVE  Upstream(S) \subseteq C
<1>1. PICK R : /\ R = [n \in 0..MaxTasks |-> IF n = 0 THEN S ELSE Grown(R[n - 1])]
               /\ Upstream(S) = R[MaxTasks]
  BY UpstreamSteps
<1> DEFINE P == {n \in Nat : n <= MaxTasks => R[n] \subseteq C}
<1>2. 0 \in P
  <2>1. R[0] = S
    BY <1>1, BoundsAssumption
  <2> QED BY <2>1
<1>3. ASSUME NEW n \in Nat, n \in P PROVE n + 1 \in P
  <2> SUFFICES ASSUME n + 1 <= MaxTasks PROVE R[n + 1] \subseteq C
    OBVIOUS
  <2>1. R[n] \subseteq C
    BY <1>3, BoundsAssumption
  <2>2. R[n + 1] = Grown(R[n])
    <3>1. n + 1 \in 0..MaxTasks /\ n + 1 # 0 /\ (n + 1) - 1 = n
      BY BoundsAssumption
    <3> QED BY <1>1, <3>1
  <2> QED BY <2>1, <2>2 DEF Grown
<1>4. MaxTasks \in P
  BY <1>2, <1>3, NatSetInduction, BoundsAssumption
<1>5. R[MaxTasks] \subseteq C
  BY <1>4, BoundsAssumption
<1> HIDE DEF P
<1> QED BY <1>1, <1>5

\* The walk is long enough: it ends with everything that can be reached.
LEMMA UpstreamClosed ==
  ASSUME deps \in [TaskIds -> SUBSET TaskIds], NEW S, S \subseteq TaskIds
  PROVE  /\ S \subseteq Upstream(S) /\ Upstream(S) \subseteq TaskIds
         /\ \A t \in Upstream(S) : deps[t] \subseteq Upstream(S)
<1>1. PICK R : /\ R = [n \in 0..MaxTasks |-> IF n = 0 THEN S ELSE Grown(R[n - 1])]
               /\ Upstream(S) = R[MaxTasks]
  BY UpstreamSteps
<1>2. IsFiniteSet(TaskIds) /\ Cardinality(TaskIds) = MaxTasks
  BY FS_Interval, BoundsAssumption DEF TaskIds
<1> DEFINE Good(D, n) == /\ S \subseteq D /\ D \subseteq TaskIds
                         /\ Grown(D) = D \/ Cardinality(D) >= n
           P == {n \in Nat : n <= MaxTasks => Good(R[n], n)}
<1>3. 0 \in P
  <2>1. R[0] = S
    BY <1>1, BoundsAssumption
  <2>2. Cardinality(S) \in Nat
    BY <1>2, FS_Subset, FS_CardinalityType
  <2> QED BY <2>1, <2>2
<1>4. ASSUME NEW n \in Nat, n \in P PROVE n + 1 \in P
  <2> SUFFICES ASSUME n + 1 <= MaxTasks PROVE Good(R[n + 1], n + 1)
    OBVIOUS
  <2>1. Good(R[n], n)
    BY <1>4, BoundsAssumption
  <2>2. R[n + 1] = Grown(R[n])
    <3>1. n + 1 \in 0..MaxTasks /\ n + 1 # 0 /\ (n + 1) - 1 = n
      BY BoundsAssumption
    <3> QED BY <1>1, <3>1
  <2>3. S \subseteq Grown(R[n]) /\ Grown(R[n]) \subseteq TaskIds /\ R[n] \subseteq Grown(R[n])
    BY <2>1 DEF Grown
  <2>4. CASE Grown(R[n]) = R[n]
    BY <2>1, <2>2, <2>4
  <2>5. CASE Grown(R[n]) # R[n]
    <3> DEFINE G == Grown(R[n])
    <3>1. IsFiniteSet(G) /\ Cardinality(G) \in Nat
      BY <1>2, <2>3, FS_Subset, FS_CardinalityType
    <3>2. Cardinality(R[n]) <= Cardinality(G) /\ Cardinality(R[n]) # Cardinality(G)
      BY <2>3, <2>5, <3>1, FS_Subset
    <3>3. Cardinality(R[n]) \in Nat /\ Cardinality(R[n]) >= n
      BY <1>2, <2>1, <2>5, FS_Subset, FS_CardinalityType
    <3> HIDE DEF G
    <3>4. Cardinality(G) >= n + 1
      BY <3>1, <3>2, <3>3
    <3> QED BY <2>2, <2>3, <3>4 DEF G
  <2> QED BY <2>4, <2>5
<1>5. MaxTasks \in P
  BY <1>3, <1>4, NatSetInduction, BoundsAssumption
<1>6. Good(Upstream(S), MaxTasks)
  BY <1>1, <1>5, BoundsAssumption
<1>7. Grown(Upstream(S)) = Upstream(S)
  <2> SUFFICES ASSUME Cardinality(Upstream(S)) >= MaxTasks PROVE Upstream(S) = TaskIds
    BY <1>6 DEF Grown
  <2>1. Cardinality(Upstream(S)) <= MaxTasks /\ Cardinality(Upstream(S)) \in Nat
    BY <1>2, <1>6, FS_Subset, FS_CardinalityType
  <2>2. Cardinality(Upstream(S)) = MaxTasks
    BY <2>1, BoundsAssumption
  <2> QED BY <1>2, <1>6, <2>2, FS_Subset
<1> QED BY <1>6, <1>7 DEF Grown

-----------------------------------------------------------------------------
(* The inductive invariant *)

\* Every set of rows has one that does not depend on another of the set; rows
\* depend on rows that were handed out, and blank rows on nothing.
NoKnot ==
  /\ \A S \in SUBSET TaskIds : S # {} => \E t \in S : deps[t] \cap S = {}
  /\ \A t \in TaskIds : deps[t] \subseteq Rows /\ (t > used => deps[t] = {})

\* No batch asks for a cycle among its own tasks.
AcyclicBatches ==
  \A b \in Batches : \A I \in SUBSET DOMAIN b : I # {} => \E i \in I : b[i] \cap I = {}

\* A row that is upstream of itself would be part of a knot.
LEMMA NoKnotNoCycle ==
  ASSUME deps \in [TaskIds -> SUBSET TaskIds], NoKnot, NEW t \in TaskIds
  PROVE  t \notin Upstream(deps[t])
<1> SUFFICES ASSUME t \in Upstream(deps[t]) PROVE FALSE
  OBVIOUS
<1> DEFINE Up(x) == Upstream(deps[x])
           S == {x \in Up(t) : t \in Up(x)}
<1>1. \A x \in TaskIds : /\ deps[x] \subseteq Up(x) /\ Up(x) \subseteq TaskIds
                         /\ \A y \in Up(x) : deps[y] \subseteq Up(x)
  <2> SUFFICES ASSUME NEW x \in TaskIds
               PROVE  /\ deps[x] \subseteq Up(x) /\ Up(x) \subseteq TaskIds
                      /\ \A y \in Up(x) : deps[y] \subseteq Up(x)
    OBVIOUS
  <2>1. deps[x] \subseteq TaskIds
    OBVIOUS
  <2> QED BY <2>1, UpstreamClosed
<1>2. t \in S /\ S \subseteq TaskIds
  BY <1>1
<1>3. PICK u \in S : deps[u] \cap S = {}
  BY <1>2 DEF NoKnot
<1> DEFINE C == deps[u] \cup UNION {Up(d) : d \in deps[u]}
<1>4. u \in TaskIds /\ deps[u] \subseteq TaskIds /\ deps[u] \subseteq Up(t) /\ t \in Up(u)
  BY <1>1, <1>2
<1>5. \A x \in C : deps[x] \subseteq C
  <2>1. ASSUME NEW x \in deps[u] PROVE deps[x] \subseteq C
    BY <1>1, <1>4
  <2>2. ASSUME NEW d \in deps[u], NEW x \in Up(d) PROVE deps[x] \subseteq C
    BY <1>1, <1>4
  <2> QED BY <2>1, <2>2
<1>6. t \in C
  <2> HIDE DEF C
  <2>1. deps[u] \subseteq C
    BY DEF C
  <2>2. Upstream(deps[u]) \subseteq C
    BY <1>5, <2>1, UpstreamLeast
  <2> QED BY <1>4, <2>2
<1>7. CASE t \in deps[u]
  BY <1>2, <1>3, <1>7
<1>8. ASSUME NEW d \in deps[u], t \in Up(d) PROVE FALSE
  BY <1>3, <1>4, <1>8
<1> QED BY <1>6, <1>7, <1>8

-----------------------------------------------------------------------------
(* Every operation keeps it *)

\* A batch that is acyclic in itself adds no knot: the rows it names outside
\* itself are there before it.
LEMMA CreateKeepsNoKnot ==
  ASSUME TypeOK, BoardInv, NoKnot, AcyclicBatches, Create
  PROVE  NoKnot'
<1>1. PICK b \in Batches, m \in Models, rm \in ReviewLists \cup {<<>>},
           older \in SUBSET Existing : CreateTasks(b, m, rm, older)
  BY DEF Create
<1> DEFINE new == {used + i : i \in DOMAIN b}
           named(t) == {used + j : j \in b[t - used]} \cup older
<1>2. /\ b \in Seq(SUBSET Nat) /\ DOMAIN b = 1..Len(b) /\ Len(b) \in Nat
      /\ \A i \in DOMAIN b : b[i] \subseteq DOMAIN b
  BY InputAssumption
<1>3. /\ used \in Nat /\ used' = used + Len(b) /\ older \subseteq 1..used
      /\ deps' = [t \in TaskIds |-> IF t \in new THEN named(t) ELSE deps[t]]
  BY <1>1 DEF CreateTasks, TypeOK, Existing, Rows
<1>4. \A i \in DOMAIN b : used + i > used /\ used + i <= used' /\ (used + i) - used = i
  BY <1>2, <1>3
<1>5. \A t \in TaskIds : deps'[t] \subseteq Rows' /\ (t > used' => deps'[t] = {})
  <2> SUFFICES ASSUME NEW t \in TaskIds
               PROVE  deps'[t] \subseteq Rows' /\ (t > used' => deps'[t] = {})
    OBVIOUS
  <2>1. Rows \subseteq Rows'
    BY <1>2, <1>3 DEF Rows
  <2>2. CASE t \in new
    <3>1. PICK i \in DOMAIN b : t = used + i
      BY <2>2
    <3>2. t - used = i /\ ~(t > used')
      BY <1>2, <1>3, <3>1
    <3>3. deps'[t] = {used + j : j \in b[i]} \cup older
      BY <1>3, <2>2, <3>2
    <3>4. \A j \in b[i] : used + j \in 1..used'
      BY <1>2, <1>3, <1>4
    <3> QED BY <1>3, <2>1, <3>2, <3>3, <3>4 DEF Rows
  <2>3. CASE t \notin new
    <3>1. deps'[t] = deps[t] /\ (t > used' => t > used)
      BY <1>2, <1>3, <2>3 DEF TaskIds
    <3> QED BY <2>1, <3>1 DEF NoKnot
  <2> QED BY <2>2, <2>3
<1>6. ASSUME NEW S \in SUBSET TaskIds, S # {} PROVE \E t \in S : deps'[t] \cap S = {}
  <2>1. CASE S \cap Rows # {}
    <3>1. PICK t \in S \cap Rows : deps[t] \cap (S \cap Rows) = {}
      BY <2>1 DEF NoKnot
    <3>2. t \notin new
      BY <1>4, <1>3 DEF Rows
    <3>3. deps'[t] = deps[t] /\ deps[t] \subseteq Rows
      BY <1>3, <3>2 DEF NoKnot
    <3> QED BY <3>1, <3>3
  <2>2. CASE S \cap new = {} /\ S \cap Rows = {}
    <3>1. PICK t \in S : TRUE
      BY <1>6
    <3>2. t > used
      BY <1>3, <2>2, <3>1 DEF Rows, TaskIds
    <3>3. deps'[t] = {}
      BY <1>3, <2>2, <3>1, <3>2 DEF NoKnot
    <3> QED BY <3>3
  <2>3. CASE S \cap new # {} /\ S \cap Rows = {}
    <3> DEFINE I == {i \in DOMAIN b : used + i \in S}
    <3>1. I # {}
      BY <2>3
    <3>2. PICK i \in I : b[i] \cap I = {}
      BY <3>1 DEF AcyclicBatches
    <3>3. used + i \in S /\ used + i \in new /\ (used + i) - used = i
      BY <1>4, <3>2
    <3>4. deps'[used + i] = {used + j : j \in b[i]} \cup older
      BY <1>3, <3>3
    <3>5. older \cap S = {}
      BY <1>3, <2>3 DEF Rows
    <3>6. \A j \in b[i] : used + j \notin S
      BY <1>2, <3>2
    <3> QED BY <3>3, <3>4, <3>5, <3>6
  <2> QED BY <2>1, <2>2, <2>3
<1> QED BY <1>5, <1>6 DEF NoKnot

\* A row that takes another's place, in what it depends on and for all that
\* depend on it, ties no knot.
LEMMA SupersedeKeepsNoKnot ==
  ASSUME TypeOK, NoKnot, NEW p \in TaskIds, p <= used, NEW st, NEW m, NEW rms, NEW rm, NEW first,
         Supersede(p, st, m, rms, rm, first)
  PROVE  NoKnot'
<1> DEFINE n == used + 1
           own(t) == IF t = n THEN deps[p] ELSE deps[t]
           D(t) == IF p \in own(t) THEN (own(t) \ {p}) \cup {n} ELSE own(t)
<1>1. /\ used \in Nat /\ n \in TaskIds /\ used' = n /\ n # p /\ n > used
      /\ deps' = [t \in TaskIds |-> D(t)]
  BY BoundsAssumption DEF Supersede, TypeOK, TaskIds
<1>2. \A t \in TaskIds : n \notin deps[t] /\ deps[t] \subseteq Rows
  BY <1>1 DEF NoKnot, Rows
<1>3. \A t \in TaskIds : own(t) \subseteq Rows /\ n \notin own(t)
  BY <1>2
<1>4. \A t \in TaskIds : deps'[t] \subseteq Rows' /\ (t > used' => deps'[t] = {})
  <2>1. Rows' = Rows \cup {n}
    BY <1>1 DEF Rows
  <2>2. \A t \in TaskIds : t > n => t # n /\ t > used
    BY <1>1 DEF TaskIds
  <2> QED BY <1>1, <1>3, <2>1, <2>2 DEF NoKnot
<1>5. ASSUME NEW S \in SUBSET TaskIds, S # {} PROVE \E t \in S : deps'[t] \cap S = {}
  <2> DEFINE T == IF n \in S THEN (S \ {n}) \cup {p} ELSE S \ {p}
  <2>1. CASE T = {}
    <3>1. S = {p}
      BY <1>5, <2>1
    <3>2. p \notin deps'[p]
      BY <1>1
    <3> QED BY <3>1, <3>2
  <2>2. CASE T # {}
    <3>1. PICK u \in T : deps[u] \cap T = {}
      BY <2>2 DEF NoKnot
    <3>2. CASE u = p
      <4>1. n \in S /\ p \notin deps[p]
        BY <3>1, <3>2
      <4>2. deps'[n] = deps[p]
        BY <1>1, <4>1
      <4>3. deps[p] \cap S = {}
        BY <1>2, <3>1, <3>2, <4>1
      <4> QED BY <4>1, <4>2, <4>3
    <3>3. CASE u # p
      <4>1. u \in S /\ u # n
        BY <3>1, <3>3
      <4>2. n \in S => p \notin deps[u]
        BY <3>1
      <4>3. deps'[u] \cap S = {}
        BY <1>1, <1>2, <3>1, <4>1, <4>2
      <4> QED BY <4>1, <4>3
    <3> QED BY <3>2, <3>3
  <2> QED BY <2>1, <2>2
<1> QED BY <1>4, <1>5 DEF NoKnot

\* The cycle check is the right one: edges to rows the task is not upstream of
\* tie no knot.
LEMMA PatchKeepsNoKnot ==
  ASSUME TypeOK, NoKnot, NEW t \in TaskIds, NEW ds \in SUBSET Existing,
         UpdateTaskDependsOn(t, ds)
  PROVE  NoKnot'
<1> DEFINE C == Upstream(ds)
<1>1. /\ t \notin C /\ used' = used /\ deps' = [deps EXCEPT ![t] = ds] /\ t \in Rows
      /\ deps \in [TaskIds -> SUBSET TaskIds] /\ Rows \subseteq TaskIds /\ ds \subseteq Rows
  BY BoundsAssumption
     DEF UpdateTaskDependsOn, WouldCreateCycle, TypeOK, Existing, Rows, TaskIds
<1>2. ds \subseteq C /\ C \subseteq TaskIds /\ \A x \in C : deps[x] \subseteq C
  BY <1>1, UpstreamClosed
<1> HIDE DEF C
<1>3. \A x \in TaskIds : deps'[x] \subseteq Rows' /\ (x > used' => deps'[x] = {})
  <2>1. ~(t > used)
    BY <1>1 DEF Rows, TypeOK
  <2> QED BY <1>1, <2>1 DEF NoKnot, Rows
<1>4. ASSUME NEW S \in SUBSET TaskIds, S # {} PROVE \E x \in S : deps'[x] \cap S = {}
  <2>1. CASE S \cap C # {}
    <3>1. PICK x \in S \cap C : deps[x] \cap (S \cap C) = {}
      BY <2>1 DEF NoKnot
    <3> QED BY <1>1, <1>2, <3>1
  <2>2. CASE S \cap C = {} /\ t \in S
    BY <1>1, <1>2, <2>2
  <2>3. CASE t \notin S
    BY <1>1, <1>4, <2>3 DEF NoKnot
  <2> QED BY <2>1, <2>2, <2>3
<1> QED BY <1>3, <1>4 DEF NoKnot

\* Deciding a round replaces a row or leaves the dependencies alone.
LEMMA AggregateKeepsNoKnot ==
  ASSUME TypeOK, NoKnot, NEW p \in TaskIds, p <= used, NEW st, NEW vd, NEW hd, NEW rms,
         Aggregate(p, st, vd, hd, rms)
  PROVE  NoKnot'
<1>1. CASE deps' = deps /\ used' \in {used, used + 1}
  <2>1. used \in Nat /\ Rows \subseteq Rows' /\ \A t \in TaskIds : t > used' => t > used
    BY <1>1 DEF TypeOK, Rows, TaskIds
  <2> QED BY <1>1, <2>1 DEF NoKnot
<1>2. CASE Supersede(p, st, NextTier(model[p]), rms, rms[p], "ready")
  BY <1>2, SupersedeKeepsNoKnot
<1> QED BY <1>1, <1>2 DEF Aggregate, ApproveRound, RejectRound, SpawnMerge, shapeVars

\* Every operation keeps the invariant.
LEMMA NextKeepsNoKnot ==
  ASSUME TypeOK, BoardInv, NoKnot, AcyclicBatches, [Next]_vars
  PROVE  NoKnot'
<1>0. used \in Nat /\ \A t \in Rows : t \in TaskIds /\ t <= used
  BY BoundsAssumption DEF TypeOK, Rows, TaskIds
<1>a. ASSUME deps' = deps, used' \in Nat, used' >= used PROVE NoKnot'
  <2>1. Rows \subseteq Rows' /\ \A t \in TaskIds : t > used' => t > used
    BY <1>0, <1>a DEF Rows, TaskIds
  <2> QED BY <1>a, <2>1 DEF NoKnot
<1>b. CASE UNCHANGED <<deps, used>>
  BY <1>0, <1>a, <1>b
<1>1. CASE Create
  BY <1>1, CreateKeepsNoKnot
<1>2. ASSUME NEW t \in Rows, NEW a \in Agents, Agent(a, t) PROVE NoKnot'
  <2>1. ASSUME NEW ls \in Submissions, SubmitWork(t, a, ls) PROVE NoKnot'
    <3>1. Reviewers(t) \in Seq(Models)
      BY <1>0, ReviewersAssumption DEF Reviewers, TypeOK
    <3>2. deps' = deps /\ used' = used + Len(Reviewers(t)) /\ Len(Reviewers(t)) \in Nat
      BY <2>1, <3>1 DEF SubmitWork
    <3> QED BY <1>0, <1>a, <3>2
  <2>2. ASSUME NEW v, SubmitReview(t, a, v) PROVE NoKnot'
    <3>1. CASE UNCHANGED rowVars
      BY <1>b, <3>1 DEF rowVars, shapeVars
    <3>2. CASE target[t] # 0 /\ Aggregate(target[t], [state EXCEPT ![t] = "done"],
                                         [verdict EXCEPT ![t] = v], held, reviewModels)
      <4>1. target[t] \in TaskIds /\ target[t] <= used
        <5>1. target[t] \in TaskIds /\ state[target[t]] # "absent"
          BY <1>0, <3>2 DEF TypeOK, BoardInv, TargetsAreWork, TaskIds
        <5> QED BY <1>0, <5>1 DEF BoardInv, BlankRows, TaskIds
      <4> QED BY <3>2, <4>1, AggregateKeepsNoKnot
    <3> QED BY <2>2, <3>1, <3>2 DEF SubmitReview
  <2> QED
    BY <1>2, <1>b, <2>1, <2>2
    DEF Agent, ClaimTask, HeartbeatTask, UnclaimTask, SubmitMerge, rowVars, shapeVars
<1>3. ASSUME NEW t \in Rows, NEW to, MoveTo(t, to) PROVE NoKnot'
  BY <1>b, <1>3 DEF MoveTo, rowVars, shapeVars
<1>4. ASSUME NEW t \in Rows, Operator(t) PROVE NoKnot'
  <2>1. ASSUME NEW m, NEW rm, SupersedeTask(t, m, rm) PROVE NoKnot'
    BY <1>0, <2>1, SupersedeKeepsNoKnot DEF SupersedeTask
  <2>2. CASE ReleaseTask(t)
    <3>1. CASE UNCHANGED rowVars
      BY <1>b, <3>1 DEF rowVars, shapeVars
    <3> QED BY <1>0, <2>2, <3>1, AggregateKeepsNoKnot DEF ReleaseTask
  <2>3. ASSUME NEW ds \in SUBSET Existing, UpdateTaskDependsOn(t, ds) PROVE NoKnot'
    BY <1>0, <2>3, PatchKeepsNoKnot
  <2>4. ASSUME NEW ms \in ReviewLists, UpdateTaskReviewModels(t, ms) PROVE NoKnot'
    <3>1. Len(ms) \in Nat
      BY ReviewersAssumption
    <3>2. CASE UNCHANGED shapeVars
      BY <1>b, <3>2 DEF shapeVars
    <3>3. CASE deps' = deps /\ used' = used + Len(ms)
      BY <1>0, <1>a, <3>1, <3>3
    <3>4. CASE \E st, rms : Aggregate(t, st, verdict, held, rms)
      BY <1>0, <3>4, AggregateKeepsNoKnot
    <3> QED BY <2>4, <3>2, <3>3, <3>4 DEF UpdateTaskReviewModels, ReshapeRound
  <2> QED
    BY <1>4, <1>b, <1>3, <2>1, <2>2, <2>3, <2>4
    DEF Operator, PromoteTask, TransitionTask, HoldTask, UpdateTaskEscalate, rowVars, shapeVars
<1>5. ASSUME NEW t \in Rows, NEW x \in Attempts, Approve(t, x) PROVE NoKnot'
  BY <1>b, <1>3, <1>5
  DEF Approve, BeginLanding, Reserve, CancelLanding, CompleteLanding, rowVars, shapeVars
<1>6. CASE \E t \in Rows : Converge(t) \/ LeaseExpires(t)
  BY <1>b, <1>6 DEF Converge, LeaseExpires, rowVars, shapeVars
<1>7. CASE UNCHANGED vars
  BY <1>b, <1>7 DEF vars
<1> QED BY <1>1, <1>2, <1>4, <1>5, <1>6, <1>7 DEF Next, Users

\* When no batch is cyclic in itself, the board has no cycle: the check of the
\* PATCH, replacements and references of a batch to older rows bring none in.
THEOREM DependenciesStayAcyclic == AcyclicBatches => (Spec => []DepsAcyclic)
<1> SUFFICES ASSUME AcyclicBatches PROVE Spec => []DepsAcyclic
  OBVIOUS
<1>1. Init => NoKnot
  BY DEF Init, NoKnot
<1>2. TypeOK /\ BoardInv /\ NoKnot /\ [Next]_vars => NoKnot'
  BY NextKeepsNoKnot
<1>3. TypeOK /\ NoKnot => DepsAcyclic
  <2> SUFFICES ASSUME TypeOK, NoKnot, NEW t \in Rows PROVE t \notin Upstream(deps[t])
    BY DEF DepsAcyclic
  <2>1. t \in TaskIds /\ deps \in [TaskIds -> SUBSET TaskIds]
    BY BoundsAssumption DEF TypeOK, Rows, TaskIds
  <2> QED BY <2>1, NoKnotNoCycle
<1> QED BY <1>1, <1>2, <1>3, TypesHold, InvHolds, PTL DEF Spec

-----------------------------------------------------------------------------
(* What one step can do to a row *)

\* The columns beside the state that the rounds rest on: only review rows are
\* voted on, and then they are done for good; a merge row is in no round; only work
\* has a pull request.
RowInv ==
  \A c \in TaskIds :
    /\ verdict[c] # "none" => kind[c] = "review" /\ state[c] = "done"
    /\ kind[c] = "merge" => round[c] = 0
    /\ hasPR[c] => kind[c] = "implement" /\ c <= used

\* After the step p is not left in review with nothing to wait for.
Tallied(p) ==
  state'[p] = "review" /\ ~held'[p] =>
    \E c \in RoundTasks(p, state)' : state'[c] # "done"

\* The row is inserted: a review row for the round p is then in review at.
Inserted(x) ==
  /\ used < x /\ x <= used' /\ state'[x] \in {"backlog", "ready"} /\ verdict'[x] = verdict[x]
  /\ kind'[x] = "merge" => round'[x] = 0
  /\ kind'[x] = "review" /\ target'[x] # 0 =>
       state'[target'[x]] = "review" /\ round'[x] = round'[target'[x]]

\* An agent claims it, hands it back, or submits a merge; an operator promotes it.
Handed(x) ==
  \/ state[x] = "backlog" /\ state'[x] = "ready"
  \/ Claimable(x) /\ state'[x] = "in_progress"
  \/ state[x] = "in_progress" /\ state'[x] = "ready"
  \/ state[x] = "in_progress" /\ kind[x] = "merge" /\ state'[x] = "review"
\* Its work, or its review, is submitted.
Submitted(x) ==
  /\ kind[x] = "implement" /\ state[x] = "in_progress" /\ state'[x] = "review"
  /\ round'[x] = round[x] + 1 /\ Tallied(x)
Voted(x) ==
  /\ kind[x] = "review" /\ state[x] = "in_progress" /\ state'[x] = "done"
  /\ target[x] # 0 => Tallied(target[x])
\* It is moved by an operator, or by the approve that landed it.
Moved(x) ==
  /\ MayMove(state[x], state'[x], kind[x])
  /\ state[x] = "approved" \/ <<state[x], state'[x]>> \in Moves
\* It is replaced by an operator.
Replaced(x) ==
  /\ state[x] \notin {"absent", "done", "failed", "abandoned", "superseded"}
  /\ state'[x] = "superseded" /\ <<state[x], "superseded">> \in Moves
\* It is withdrawn with the round it belongs to.
Retired(x) ==
  /\ kind[x] = "review" /\ state[x] \notin {"absent", "done", "abandoned"}
  /\ state'[x] = "abandoned" /\ Tallied(target[x])
\* Its round is decided.
Settled(x) ==
  /\ kind[x] = "implement" /\ state[x] \notin NotResurrected
  /\ \/ state[x] = "review"
     \/ \E c \in TaskIds : /\ target[c] = x /\ kind[c] = "review"
                          /\ state[c] = "in_progress" /\ state'[c] = "done"
  /\ state'[x] \in {"approved", "done", "ready", "blocked", "superseded"}
  /\ RoundFull(x, state)' /\ (state'[x] = "done" => Unanimous(x)')
\* Its pull request was merged, which withdraws what is left of its round.
Converged(x) ==
  /\ Converge(x)
  /\ \A c \in UnvotedReviews(x) : state'[c] = "abandoned"

\* What can become of a row in a step.
Fate(x) ==
  \/ Inserted(x)
  \/ /\ kind'[x] = kind[x] /\ target'[x] = target[x]
     /\ \/ /\ round'[x] = round[x] /\ verdict'[x] = verdict[x]
           /\ \/ state'[x] = state[x] \/ Handed(x) \/ Moved(x) \/ Replaced(x)
              \/ Retired(x) \/ Settled(x) \/ Converged(x)
        \/ Submitted(x) /\ verdict'[x] = verdict[x]
        \/ Voted(x) /\ round'[x] = round[x]

\* What a step can do beside that: only a row's dependencies on rows that are
\* replaced change, unless they are edited; a hold is not lifted from a row with a
\* round left undecided; and a pull request is of work.
Bystander(x) ==
  /\ held[x] /\ ~held'[x] => Tallied(x)
  /\ hasPR'[x] => hasPR[x] \/ (kind[x] = "implement" /\ x <= used)
  /\ used <= used'
  /\ \/ deps'[x] = deps[x] \/ used < x \/ "patch" \in Doings
     \/ \E d \in deps[x] : state[d] # "done"

\* Deciding p's round: the row, the row it may insert, and all the others.
LEMMA AggregateFates ==
  ASSUME TypeOK, BoardInv, NEW p \in TaskIds, p <= used,
         NEW st \in [TaskIds -> States \cup {"absent"}], st[p] = state[p],
         NEW vd, NEW hd, NEW rms, Aggregate(p, st, vd, hd, rms)
  PROVE  /\ round' = round /\ used' \in Nat /\ used <= used'
         /\ \A x \in TaskIds :
              \/ /\ used < x /\ x <= used' /\ state'[x] = "ready" /\ round'[x] = 0
                 /\ target'[x] # 0 => kind'[x] = "merge"
              \/ /\ kind'[x] = kind[x] /\ target'[x] = target[x] /\ (x # p => state'[x] = st[x])
                 /\ deps'[x] = deps[x] \/ used < x \/ \E d \in deps[x] : state[d] # "done"
         /\ \/ state'[p] = state[p]
            \/ /\ kind[p] = "implement" /\ state[p] \notin NotResurrected
               /\ state'[p] \in {"approved", "done", "ready", "blocked", "superseded"}
               /\ RoundFull(p, state)'
               /\ state'[p] = "done" => \A c \in RoundTasks(p, state)' : vd[c] = "approve"
         /\ state'[p] = "review" /\ ~hd[p] => \E c \in RoundTasks(p, state)' : state'[c] # "done"
<1> DEFINE n == used + 1
           Outcomes == {"approved", "done", "ready", "blocked"}
           Same == used' = used /\ round' = round /\ kind' = kind /\ target' = target /\ deps' = deps
<1>1. used \in Nat /\ n # p /\ used <= n
  BY BoundsAssumption DEF TypeOK, TaskIds
<1>2. n \in TaskIds => target[n] = 0 /\ round[n] = 0
  BY <1>1 DEF BoardInv, BlankRows
\* A round that is decided has rows, so p is work that was submitted.
<1>3. ASSUME Decided(p, st, hd)
      PROVE  /\ kind[p] = "implement" /\ round[p] > 0 /\ target[p] = 0
             /\ RoundTasks(p, st) # {} /\ \A c \in RoundTasks(p, st) : st[c] = "done"
             /\ state[p] \notin NotResurrected /\ ~hd[p]
  <2>1. PICK c \in RoundTasks(p, st) : TRUE
    BY <1>3 DEF Decided, RoundFull
  <2>2. c \in TaskIds /\ target[c] = p /\ p # 0
    BY <2>1 DEF RoundTasks, TaskIds
  <2>3. kind[p] = "implement" /\ round[p] > 0
    BY <2>2 DEF BoardInv, TargetsAreWork
  <2>4. target[p] = 0
    BY <2>3 DEF BoardInv, TargetsAreWork
  <2> QED BY <1>3, <2>3, <2>4 DEF Decided, RoundFull
<1>4. ASSUME Undecided(p, st, hd), state' = st, Same PROVE
        state'[p] = "review" /\ ~hd[p] => \E c \in RoundTasks(p, state)' : state'[c] # "done"
  <2> SUFFICES ASSUME state'[p] = "review", ~hd[p]
               PROVE  \E c \in RoundTasks(p, state)' : state'[c] # "done"
    OBVIOUS
  <2>1. RoundTasks(p, st) # {} /\ ~RoundFull(p, st)
    BY <1>4 DEF Undecided, NotResurrected
  <2>2. RoundTasks(p, st) = RoundTasks(p, state)'
    BY <1>4 DEF RoundTasks
  <2> QED BY <1>4, <2>1, <2>2 DEF RoundFull
<1>5. CASE Undecided(p, st, hd) /\ state' = st /\ Same
  BY <1>1, <1>4, <1>5
<1>6. \A new \in Outcomes :
        /\ Settle(p, st, new) \in [TaskIds -> States \cup {"absent"}]
        /\ \A x \in TaskIds : x # p => Settle(p, st, new)[x] = st[x]
        /\ \/ landingRound[p] = 0 /\ Settle(p, st, new)[p] = new
           \/ landingRound[p] # 0 /\ Settle(p, st, new)[p] = state[p] /\ state[p] = "approved"
  BY DEF Settle, States, BoardInv, ReservationPinsApproval
\* Whatever the decision, the rows of the round are the ones it was made on.
<1>7. ASSUME Decided(p, st, hd), round' = round,
             \A x \in TaskIds : x # n \/ used' = used => target'[x] = target[x] /\ (x # p => state'[x] = st[x]),
             used' # used => n \in TaskIds /\ target'[n] \in {0, p}
      PROVE  RoundTasks(p, state)' = RoundTasks(p, st) /\ RoundFull(p, state)'
  <2>1. RoundTasks(p, state)' = RoundTasks(p, st)
    <3>1. ASSUME NEW x \in TaskIds PROVE x \in RoundTasks(p, state)' <=> x \in RoundTasks(p, st)
      <4>1. CASE x = n /\ used' # used
        BY <1>1, <1>2, <1>3, <1>7, <4>1 DEF RoundTasks, TaskIds
      <4>2. CASE x = p
        BY <1>1, <1>3, <1>7, <4>2 DEF RoundTasks, TaskIds
      <4>3. CASE (x # n \/ used' = used) /\ x # p
        BY <1>7, <4>3 DEF RoundTasks
      <4> QED BY <4>1, <4>2, <4>3
    <3>2. RoundTasks(p, state)' \subseteq TaskIds /\ RoundTasks(p, st) \subseteq TaskIds
      BY DEF RoundTasks
    <3> QED BY <3>1, <3>2
  <2>2. \A c \in RoundTasks(p, st) : state'[c] = "done"
    <3> SUFFICES ASSUME NEW c \in RoundTasks(p, st) PROVE state'[c] = "done"
      OBVIOUS
    <3>1. c \in TaskIds /\ target[c] = p /\ c # p /\ st[c] = "done"
      BY <1>3, <1>7 DEF RoundTasks, TaskIds
    <3>2. c # n
      BY <1>2, <3>1 DEF TaskIds
    <3> QED BY <1>7, <3>1, <3>2
  <2> QED BY <1>3, <1>7, <2>1, <2>2 DEF RoundFull
<1>8. ASSUME Decided(p, st, hd), Same, NEW new \in Outcomes, state' = Settle(p, st, new),
             new = "done" => RoundApproved(p, st, vd)
      PROVE  /\ state'[p] # "review"
             /\ \/ state'[p] = state[p]
                \/ /\ state'[p] = new /\ RoundFull(p, state)'
                   /\ new = "done" => \A c \in RoundTasks(p, state)' : vd[c] = "approve"
  <2>1. RoundTasks(p, state)' = RoundTasks(p, st) /\ RoundFull(p, state)'
    BY <1>6, <1>7, <1>8
  <2> QED BY <1>6, <1>8, <2>1 DEF RoundApproved
<1>9. CASE /\ Decided(p, st, hd) /\ Same
           /\ \E new \in Outcomes : /\ state' = Settle(p, st, new)
                                    /\ new = "done" => RoundApproved(p, st, vd)
  <2>1. PICK new \in Outcomes : /\ state' = Settle(p, st, new)
                                /\ new = "done" => RoundApproved(p, st, vd)
    BY <1>9
  <2>2. \A x \in TaskIds : x # p => state'[x] = st[x]
    BY <1>6, <2>1
  <2>3. /\ state'[p] # "review"
        /\ \/ state'[p] = state[p]
           \/ /\ state'[p] = new /\ RoundFull(p, state)'
              /\ new = "done" => \A c \in RoundTasks(p, state)' : vd[c] = "approve"
    BY <1>8, <1>9, <2>1
  <2> QED BY <1>1, <1>3, <1>9, <2>2, <2>3
<1>10. CASE Decided(p, st, hd) /\ SpawnMerge(p, st, rms)
  <2>1. /\ n \in TaskIds /\ used' = n /\ round' = round /\ deps' = deps
        /\ state' = [Settle(p, st, "approved") EXCEPT ![n] = "ready"]
        /\ kind' = [kind EXCEPT ![n] = "merge"] /\ target' = [target EXCEPT ![n] = p]
    BY <1>1, <1>10, BoundsAssumption DEF SpawnMerge, TaskIds
  <2>2. \A x \in TaskIds : x # n => /\ kind'[x] = kind[x] /\ target'[x] = target[x]
                                    /\ x # p => state'[x] = st[x]
    BY <1>6, <2>1 DEF TypeOK
  <2>a. Settle(p, st, "approved") \in [TaskIds -> States \cup {"absent"}]
    BY <1>6
  <2>3. state'[n] = "ready" /\ kind'[n] = "merge" /\ target'[n] = p /\ round'[n] = 0
    BY <1>2, <2>1, <2>a DEF TypeOK
  <2>4. state'[p] = "approved" \/ (state'[p] = state[p] /\ state[p] # "review")
    BY <1>1, <1>6, <2>1
  <2>5. RoundFull(p, state)'
    BY <1>1, <1>7, <1>10, <2>1, <2>2, <2>3
  <2> QED BY <1>1, <1>3, <1>10, <2>1, <2>2, <2>3, <2>4, <2>5
<1>11. CASE Decided(p, st, hd) /\ Supersede(p, st, NextTier(model[p]), rms, rms[p], "ready")
  <2> DEFINE own(t) == IF t = n THEN deps[p] ELSE deps[t]
  <2>1. /\ n \in TaskIds /\ used' = n /\ round' = round /\ target' = target
        /\ state' = [st EXCEPT ![n] = "ready", ![p] = "superseded"] /\ state[p] # "done"
        /\ kind' = [kind EXCEPT ![n] = kind[p]]
        /\ deps' = [t \in TaskIds |-> IF p \in own(t) THEN (own(t) \ {p}) \cup {n} ELSE own(t)]
    BY <1>1, <1>11, BoundsAssumption DEF Supersede, TaskIds
  <2>2. \A x \in TaskIds : x # n => /\ kind'[x] = kind[x] /\ target'[x] = target[x]
                                    /\ x # p => state'[x] = st[x]
                                    /\ deps'[x] = deps[x] \/ p \in deps[x]
    BY <2>1 DEF TypeOK
  <2>3. state'[n] = "ready" /\ target'[n] = 0 /\ round'[n] = 0 /\ state'[p] = "superseded"
    BY <1>1, <1>2, <2>1 DEF TypeOK
  <2>4. RoundFull(p, state)'
    BY <1>1, <1>7, <1>11, <2>1, <2>2, <2>3
  <2> QED BY <1>1, <1>3, <1>11, <2>1, <2>2, <2>3, <2>4
<1> QED
  BY <1>5, <1>9, <1>10, <1>11
  DEF Aggregate, ApproveRound, RejectRound, shapeVars

\* A row that no column changes for has the fate of staying as it is.
LEMMA StillFates ==
  ASSUME UNCHANGED <<used, state, kind, target, round, verdict, hasPR, deps>>,
         \A x \in TaskIds : held'[x] = held[x] \/ ~held[x], used \in Nat
  PROVE  \A x \in TaskIds : Fate(x) /\ Bystander(x)
BY DEF Fate, Bystander

\* One row changes its state, nobody's round is decided.
LEMMA OneRowFates ==
  ASSUME TypeOK, NEW t \in TaskIds, NEW new, state' = [state EXCEPT ![t] = new],
         UNCHANGED <<used, kind, target, round, verdict, hasPR, deps, held>>,
         Handed(t) \/ Moved(t)
  PROVE  \A x \in TaskIds : Fate(x) /\ Bystander(x)
<1> SUFFICES ASSUME NEW x \in TaskIds PROVE Fate(x) /\ Bystander(x)
  OBVIOUS
<1>1. used \in Nat
  BY DEF TypeOK
<1>2. x # t => state'[x] = state[x]
  BY DEF TypeOK
<1>3. Fate(x)
  BY <1>2 DEF Fate
<1> QED BY <1>1, <1>3 DEF Bystander

\* What agents do.
LEMMA AgentFates ==
  ASSUME TypeOK, BoardInv, RowInv, NEW t \in TaskIds, t <= used, NEW a \in Agents, Agent(a, t)
  PROVE  \A x \in TaskIds : Fate(x) /\ Bystander(x)
<1>0. used \in Nat /\ t # 0
  BY BoundsAssumption DEF TypeOK, TaskIds
<1>1. CASE ClaimTask(t, a) \/ UnclaimTask(t, a) \/ SubmitMerge(t, a)
  <2>1. UNCHANGED <<used, kind, target, round, verdict, hasPR, deps, held>>
    BY <1>1 DEF ClaimTask, UnclaimTask, SubmitMerge, rowVars, shapeVars, linkVars
  <2>2. CASE ClaimTask(t, a)
    <3> DEFINE new == "in_progress"
    <3>1. state' = [state EXCEPT ![t] = new] /\ Handed(t)
      BY <2>2 DEF ClaimTask, Handed, TypeOK
    <3> HIDE DEF new
    <3> QED BY <2>1, <3>1, OneRowFates
  <2>3. CASE UnclaimTask(t, a)
    <3> DEFINE new == "ready"
    <3>1. state' = [state EXCEPT ![t] = new] /\ Handed(t)
      BY <2>3 DEF UnclaimTask, Owns, Handed, TypeOK
    <3> HIDE DEF new
    <3> QED BY <2>1, <3>1, OneRowFates
  <2>4. CASE SubmitMerge(t, a)
    <3> DEFINE new == "review"
    <3>1. state' = [state EXCEPT ![t] = new] /\ Handed(t)
      BY <2>4 DEF SubmitMerge, Owns, Handed, TypeOK
    <3> HIDE DEF new
    <3> QED BY <2>1, <3>1, OneRowFates
  <2> QED BY <1>1, <2>2, <2>3, <2>4
<1>2. CASE HeartbeatTask(t, a)
  BY <1>0, <1>2, StillFates DEF HeartbeatTask, rowVars, shapeVars, linkVars
<1>3. ASSUME NEW ls \in Submissions, SubmitWork(t, a, ls)
      PROVE  \A x \in TaskIds : Fate(x) /\ Bystander(x)
  <2> DEFINE rv == Reviewers(t)
             new == (used + 1)..(used + Len(rv))
  <2>1. rv \in Seq(Models) /\ Len(rv) \in Nat /\ Len(rv) > 0
    <3>1. rv \in Seq(Models) /\ rv # <<>>
      BY ReviewersAssumption DEF Reviewers, TypeOK
    <3> HIDE DEF rv
    <3> QED BY <3>1
  <2>2. /\ kind[t] = "implement" /\ state[t] = "in_progress"
        /\ used' = used + Len(rv) /\ used' <= MaxTasks
        /\ state' = [x \in TaskIds |-> IF x \in new THEN "ready"
                                       ELSE IF x = t THEN "review" ELSE state[x]]
        /\ kind' = [x \in TaskIds |-> IF x \in new THEN "review" ELSE kind[x]]
        /\ target' = [x \in TaskIds |-> IF x \in new THEN t ELSE target[x]]
        /\ round' = [x \in TaskIds |-> IF x \in new \cup {t} THEN round[t] + 1 ELSE round[x]]
        /\ hasPR' = [hasPR EXCEPT ![t] = @ \/ "pr" \in ls]
        /\ UNCHANGED <<deps, verdict, held>>
    BY <1>3 DEF SubmitWork, Owns
  <2> HIDE DEF rv
  <2>3. \A x \in new : used < x /\ x <= used' /\ x # t /\ x \in TaskIds
    BY <1>0, <2>1, <2>2, BoundsAssumption DEF TaskIds
  <2>4. used + 1 \in new
    BY <1>0, <2>1
  <2> HIDE DEF new
  <2>5. Tallied(t)
    <3>1. used + 1 \in RoundTasks(t, state)' /\ state'[used + 1] = "ready"
      BY <2>2, <2>3, <2>4 DEF RoundTasks
    <3> QED BY <3>1 DEF Tallied
  <2>6. \A x \in TaskIds : Fate(x)
    <3>1. ASSUME NEW x \in new PROVE Inserted(x)
      BY <2>2, <2>3, <3>1 DEF Inserted
    <3>2. Submitted(t) /\ kind'[t] = kind[t] /\ target'[t] = target[t] /\ verdict'[t] = verdict[t]
      BY <2>2, <2>3, <2>5 DEF Submitted
    <3>3. ASSUME NEW x \in TaskIds, x \notin new, x # t
          PROVE  /\ kind'[x] = kind[x] /\ target'[x] = target[x] /\ round'[x] = round[x]
                 /\ state'[x] = state[x] /\ verdict'[x] = verdict[x]
      BY <2>2, <3>3
    <3> QED BY <3>1, <3>2, <3>3 DEF Fate
  <2>7. ASSUME NEW x \in TaskIds PROVE Bystander(x)
    <3>1. used <= used'
      BY <1>0, <2>1, <2>2
    <3>2. hasPR'[x] => hasPR[x] \/ x = t
      BY <2>2 DEF TypeOK
    <3> QED BY <2>2, <3>1, <3>2 DEF Bystander
  <2> QED BY <2>6, <2>7
<1>4. ASSUME NEW v \in {"approve", "reject"}, SubmitReview(t, a, v)
      PROVE  \A x \in TaskIds : Fate(x) /\ Bystander(x)
  <2> DEFINE st == [state EXCEPT ![t] = "done"]
             vd == [verdict EXCEPT ![t] = v]
  <2>1. /\ kind[t] = "review" /\ state[t] = "in_progress" /\ verdict' = vd
        /\ UNCHANGED <<held, hasPR>>
        /\ \/ target[t] # 0 /\ Aggregate(target[t], st, vd, held, reviewModels)
           \/ target[t] = 0 /\ state' = st /\ UNCHANGED rowVars
    BY <1>4 DEF SubmitReview, Owns, linkVars
  <2>2. /\ st[t] = "done" /\ st \in [TaskIds -> States \cup {"absent"}]
        /\ \A x \in TaskIds : x # t => st[x] = state[x] /\ vd[x] = verdict[x]
    BY DEF TypeOK, States
  <2>3. CASE target[t] = 0
    <3>1. UNCHANGED <<used, kind, target, round, deps>> /\ state' = st
      BY <2>1, <2>3 DEF rowVars, shapeVars
    <3>2. Voted(t)
      BY <2>1, <2>2, <2>3, <3>1 DEF Voted
    <3> QED BY <1>0, <2>1, <2>2, <3>1, <3>2 DEF Fate, Bystander
  <2>4. ASSUME NEW p \in TaskIds, target[t] = p PROVE \A x \in TaskIds : Fate(x) /\ Bystander(x)
    <3>1. /\ p <= used /\ p # t /\ p # 0 /\ kind[p] = "implement"
      <4>1. p # 0
        BY DEF TaskIds
      <4>2. state[p] # "absent" /\ kind[p] = "implement"
        BY <2>4, <4>1 DEF BoardInv, TargetsAreWork
      <4> QED BY <1>0, <2>1, <4>1, <4>2 DEF BoardInv, BlankRows, TaskIds
    <3>2. st[p] = state[p] /\ Aggregate(p, st, vd, held, reviewModels)
      BY <2>1, <2>2, <2>4, <3>1
    <3> HIDE DEF st, vd
    <3>3. /\ round' = round /\ used' \in Nat /\ used <= used'
          /\ \A x \in TaskIds :
               \/ /\ used < x /\ x <= used' /\ state'[x] = "ready" /\ round'[x] = 0
                  /\ target'[x] # 0 => kind'[x] = "merge"
               \/ /\ kind'[x] = kind[x] /\ target'[x] = target[x] /\ (x # p => state'[x] = st[x])
                  /\ deps'[x] = deps[x] \/ used < x \/ \E d \in deps[x] : state[d] # "done"
          /\ \/ state'[p] = state[p]
             \/ /\ kind[p] = "implement" /\ state[p] \notin NotResurrected
                /\ state'[p] \in {"approved", "done", "ready", "blocked", "superseded"}
                /\ RoundFull(p, state)'
                /\ state'[p] = "done" => \A c \in RoundTasks(p, state)' : vd[c] = "approve"
          /\ state'[p] = "review" /\ ~held[p] => \E c \in RoundTasks(p, state)' : state'[c] # "done"
      BY <2>2, <3>1, <3>2, AggregateFates
    <3>4. Tallied(p) /\ target[t] = p
      BY <2>1, <2>4, <3>3 DEF Tallied
    <3>5. state'[t] = "done" /\ kind'[t] = kind[t] /\ target'[t] = target[t]
      BY <1>0, <2>2, <3>1, <3>3 DEF TaskIds
    <3>6. Voted(t)
      BY <2>1, <3>4, <3>5 DEF Voted
    <3>7. state'[p] = state[p] \/ Settled(p)
      BY <2>1, <3>3, <3>4, <3>5 DEF Settled, Unanimous, RoundFull
    <3>8. ASSUME NEW x \in TaskIds PROVE Fate(x)
      <4>1. CASE used < x /\ x <= used' /\ state'[x] = "ready" /\ round'[x] = 0
                 /\ (target'[x] # 0 => kind'[x] = "merge")
        <5>1. x # t
          BY <1>0, <4>1 DEF TaskIds
        <5> QED BY <2>1, <2>2, <4>1, <5>1 DEF Fate, Inserted
      <4>2. CASE kind'[x] = kind[x] /\ target'[x] = target[x] /\ (x # p => state'[x] = st[x])
        BY <2>1, <2>2, <3>1, <3>3, <3>6, <3>7, <4>2 DEF Fate
      <4> QED BY <3>3, <4>1, <4>2
    <3>9. ASSUME NEW x \in TaskIds PROVE Bystander(x)
      BY <2>1, <3>3 DEF Bystander
    <3> QED BY <3>8, <3>9
  <2>5. target[t] # 0 => target[t] \in TaskIds
    BY DEF TypeOK, TaskIds
  <2> QED BY <2>3, <2>4, <2>5
<1> QED BY <1>1, <1>2, <1>3, <1>4 DEF Agent

\* A whole batch is inserted.
LEMMA CreateFates ==
  ASSUME TypeOK, BoardInv, Create
  PROVE  \A x \in TaskIds : Fate(x) /\ Bystander(x)
<1>1. PICK b \in Batches, m \in Models, rm \in ReviewLists \cup {<<>>},
           older \in SUBSET Existing : CreateTasks(b, m, rm, older)
  BY DEF Create
<1> DEFINE new == {used + i : i \in DOMAIN b}
           named(t) == {used + j : j \in b[t - used]} \cup older
<1>2. /\ used \in Nat /\ used' = used + Len(b) /\ Len(b) \in Nat /\ DOMAIN b = 1..Len(b)
      /\ state' = [t \in TaskIds |-> IF t \in new THEN "backlog" ELSE state[t]]
      /\ deps' = [t \in TaskIds |-> IF t \in new THEN named(t) ELSE deps[t]]
      /\ UNCHANGED <<kind, target, round, verdict, hasPR, held>>
  BY <1>1, InputAssumption DEF CreateTasks, TypeOK, linkVars
<1>3. \A x \in new : used < x /\ x <= used'
  BY <1>2
<1>4. \A x \in TaskIds : used < x => target[x] = 0 /\ round[x] = 0
  BY <1>2 DEF BoardInv, BlankRows
<1> HIDE DEF new, named
<1>5. ASSUME NEW x \in TaskIds PROVE Fate(x)
  BY <1>2, <1>3, <1>4 DEF Fate, Inserted
<1>6. ASSUME NEW x \in TaskIds PROVE Bystander(x)
  BY <1>2, <1>3 DEF Bystander
<1> QED BY <1>5, <1>6

\* Deciding p's round in an operation that leaves the votes alone but may have
\* withdrawn reviews of it.
LEMMA DecisionFates ==
  ASSUME TypeOK, BoardInv, NEW p \in TaskIds, p <= used, state[p] = "review",
         NEW st \in [TaskIds -> States \cup {"absent"}], st[p] = state[p],
         \A x \in TaskIds : st[x] # state[x] =>
           /\ kind[x] = "review" /\ state[x] \notin {"absent", "done", "abandoned"}
           /\ st[x] = "abandoned" /\ target[x] = p,
         NEW rms, Aggregate(p, st, verdict, held', rms), UNCHANGED <<verdict, hasPR>>,
         \A x \in TaskIds : x # p => held'[x] = held[x]
  PROVE  \A x \in TaskIds : Fate(x) /\ Bystander(x)
<1>1. /\ round' = round /\ used' \in Nat /\ used <= used'
      /\ \A x \in TaskIds :
           \/ /\ used < x /\ x <= used' /\ state'[x] = "ready" /\ round'[x] = 0
              /\ target'[x] # 0 => kind'[x] = "merge"
           \/ /\ kind'[x] = kind[x] /\ target'[x] = target[x] /\ (x # p => state'[x] = st[x])
              /\ deps'[x] = deps[x] \/ used < x \/ \E d \in deps[x] : state[d] # "done"
      /\ \/ state'[p] = state[p]
         \/ /\ kind[p] = "implement" /\ state[p] \notin NotResurrected
            /\ state'[p] \in {"approved", "done", "ready", "blocked", "superseded"}
            /\ RoundFull(p, state)'
            /\ state'[p] = "done" => \A c \in RoundTasks(p, state)' : verdict[c] = "approve"
      /\ state'[p] = "review" /\ ~held'[p] => \E c \in RoundTasks(p, state)' : state'[c] # "done"
  BY AggregateFates
<1>2. Tallied(p)
  BY <1>1 DEF Tallied
<1>3. state'[p] = state[p] \/ Settled(p)
  BY <1>1 DEF Settled, Unanimous, RoundFull
<1>4. ASSUME NEW x \in TaskIds PROVE Fate(x)
  <2>1. CASE used < x /\ x <= used' /\ state'[x] = "ready" /\ round'[x] = 0
             /\ (target'[x] # 0 => kind'[x] = "merge")
    BY <2>1 DEF Fate, Inserted
  <2>2. CASE x = p /\ kind'[x] = kind[x] /\ target'[x] = target[x]
    BY <1>1, <1>3, <2>2 DEF Fate
  <2>3. CASE x # p /\ kind'[x] = kind[x] /\ target'[x] = target[x] /\ state'[x] = st[x]
    <3>1. state'[x] = state[x] \/ Retired(x)
      BY <1>2, <2>3 DEF Retired
    <3> QED BY <1>1, <2>3, <3>1 DEF Fate
  <2> QED BY <1>1, <2>1, <2>2, <2>3
<1>5. ASSUME NEW x \in TaskIds PROVE Bystander(x)
  BY <1>1, <1>2 DEF Bystander
<1> QED BY <1>4, <1>5

\* Changing the reviewers of work.
LEMMA ReviewersFates ==
  ASSUME TypeOK, BoardInv, NEW p \in TaskIds, p <= used, NEW ms \in ReviewLists,
         UpdateTaskReviewModels(p, ms)
  PROVE  \A x \in TaskIds : Fate(x) /\ Bystander(x)
<1> DEFINE rms == [reviewModels EXCEPT ![p] = ms]
           new == {used + i : i \in Missing(p, ms)}
           gone == RetiredBy(p, ms)
           st == [x \in TaskIds |-> IF x \in gone THEN "abandoned"
                                    ELSE IF x \in new THEN "ready" ELSE state[x]]
<1>1. UNCHANGED <<verdict, hasPR, held>> /\ kind[p] = "implement"
  BY DEF UpdateTaskReviewModels, linkVars
<1>2. used \in Nat /\ Len(ms) \in Nat /\ DOMAIN ms = 1..Len(ms) /\ p # 0
  BY ReviewersAssumption, BoundsAssumption DEF TypeOK, TaskIds
<1>3. \A x \in new : x \in Nat /\ used < x /\ x <= used + Len(ms)
  <2>1. \A i \in Missing(p, ms) : i \in DOMAIN ms
    BY DEF Missing
  <2>2. \A i \in Missing(p, ms) : i \in 1..Len(ms)
    BY <2>1, <1>2
  <2> QED BY <2>2, <1>2
<1>4. \A x \in gone : /\ x \in TaskIds /\ target[x] = p /\ kind[x] = "review"
                      /\ state[x] \notin {"absent", "done", "abandoned"}
  BY <1>2 DEF RetiredBy, Children, RoundTasks, Matched, BoardInv, BlankRows
<1>5. CASE UNCHANGED <<shapeVars, state>>
  BY <1>1, <1>2, <1>5, StillFates DEF shapeVars
<1>6. ASSUME state[p] = "review", ReshapeRound(p, ms, rms)
      PROVE  \A x \in TaskIds : Fate(x) /\ Bystander(x)
  <2> DEFINE noneOpen == \A c \in RoundTasks(p, st) \cup new : st[c] = "done"
             Grow == /\ state' = st
                     /\ used' = used + Len(ms)
                     /\ kind' = [x \in TaskIds |-> IF x \in new THEN "review" ELSE kind[x]]
                     /\ target' = [x \in TaskIds |-> IF x \in new THEN p ELSE target[x]]
                     /\ round' = [x \in TaskIds |-> IF x \in new THEN round[p] ELSE round[x]]
                     /\ deps' = deps
  <2>1. /\ used + Len(ms) <= MaxTasks
        /\ \/ noneOpen /\ Aggregate(p, st, verdict, held, rms)
           \/ ~noneOpen /\ Grow
    BY <1>6 DEF ReshapeRound
  <2> HIDE DEF new, gone
  <2>2. new \subseteq TaskIds
    BY <1>2, <1>3, <2>1, BoundsAssumption DEF TaskIds
  <2>3. st \in [TaskIds -> States \cup {"absent"}] /\ st[p] = state[p]
    <3>1. p \notin gone /\ p \notin new
      BY <1>1, <1>2, <1>3, <1>4
    <3> QED BY <3>1 DEF TypeOK, States
  <2>4. ASSUME noneOpen, Aggregate(p, st, verdict, held, rms)
        PROVE  \A x \in TaskIds : Fate(x) /\ Bystander(x)
    <3>1. new = {}
      BY <2>2, <2>4, <1>3, <1>4
    <3>2. \A x \in TaskIds : st[x] # state[x] =>
            /\ kind[x] = "review" /\ state[x] \notin {"absent", "done", "abandoned"}
            /\ st[x] = "abandoned" /\ target[x] = p
      BY <3>1, <1>4
    <3>3. Aggregate(p, st, verdict, held', rms) /\ \A x \in TaskIds : x # p => held'[x] = held[x]
      BY <1>1, <2>4
    <3> HIDE DEF st, rms
    <3> QED BY <1>1, <1>6, <2>3, <3>2, <3>3, DecisionFates
  <2>5. ASSUME ~noneOpen, Grow PROVE \A x \in TaskIds : Fate(x) /\ Bystander(x)
    <3>1. p \notin new /\ \A x \in new : x \notin gone /\ x \in TaskIds /\ used < x /\ x <= used'
      <4>1. \A x \in new : state[x] = "absent"
        BY <1>2, <1>3, <2>2 DEF BoardInv, BlankRows
      <4> QED BY <1>2, <1>3, <1>4, <2>2, <2>5, <4>1
    <3>2. state' = st /\ state'[p] = "review" /\ round'[p] = round[p]
      BY <1>6, <2>3, <2>5, <3>1
    <3>3. Tallied(p)
      <4>1. PICK c \in RoundTasks(p, st) \cup new : st[c] # "done"
        BY <2>5
      <4>2. c \in TaskIds /\ st[c] # "abandoned"
        BY <3>1, <4>1 DEF RoundTasks
      <4>3. target'[c] = p /\ round'[c] = round'[p]
        BY <2>5, <3>2, <4>1, <4>2 DEF RoundTasks
      <4> QED BY <3>2, <4>1, <4>2, <4>3 DEF Tallied, RoundTasks
    <3>4. ASSUME NEW x \in TaskIds PROVE Fate(x)
      <4>1. CASE x \in new
        BY <1>1, <2>5, <3>1, <3>2, <4>1 DEF Fate, Inserted
      <4>2. CASE x \in gone
        <5>1. Retired(x)
          BY <1>4, <2>5, <3>3, <4>2 DEF Retired
        <5> QED BY <1>1, <2>5, <3>1, <4>2, <5>1 DEF Fate
      <4>3. CASE x \notin gone /\ x \notin new
        BY <1>1, <2>5, <4>3 DEF Fate
      <4> QED BY <4>1, <4>2, <4>3
    <3>5. ASSUME NEW x \in TaskIds PROVE Bystander(x)
      BY <1>1, <1>2, <2>5 DEF Bystander
    <3> QED BY <3>4, <3>5
  <2> QED BY <2>1, <2>4, <2>5
<1> QED BY <1>5, <1>6 DEF UpdateTaskReviewModels

\* What operators do.
LEMMA OperatorFates ==
  ASSUME TypeOK, BoardInv, RowInv, NEW t \in TaskIds, t <= used, Operator(t)
  PROVE  \A x \in TaskIds : Fate(x) /\ Bystander(x)
<1>0. used \in Nat
  BY DEF TypeOK
<1>1. CASE PromoteTask(t)
  <2> DEFINE new == "ready"
  <2>1. /\ UNCHANGED <<used, kind, target, round, verdict, hasPR, deps, held>>
        /\ state' = [state EXCEPT ![t] = new] /\ Handed(t)
    BY <1>1 DEF PromoteTask, Handed, TypeOK, rowVars, shapeVars, linkVars
  <2> HIDE DEF new
  <2> QED BY <2>1, OneRowFates
<1>2. ASSUME NEW to \in States, <<state[t], to>> \in Moves, TransitionTask(t, to)
      PROVE  \A x \in TaskIds : Fate(x) /\ Bystander(x)
  <2>1. /\ UNCHANGED <<used, kind, target, round, verdict, hasPR, deps, held>>
        /\ state' = [state EXCEPT ![t] = to] /\ MayMove(state[t], to, kind[t])
    BY <1>2 DEF TransitionTask, MoveTo, rowVars, shapeVars, linkVars
  <2>2. state'[t] = to
    BY <2>1 DEF TypeOK
  <2>3. Moved(t)
    BY <1>2, <2>1, <2>2 DEF Moved
  <2> QED BY <2>1, <2>3, OneRowFates
<1>3. ASSUME <<state[t], "superseded">> \in Moves, NEW m, NEW rm, SupersedeTask(t, m, rm)
      PROVE  \A x \in TaskIds : Fate(x) /\ Bystander(x)
  <2> DEFINE n == used + 1
             own(x) == IF x = n THEN deps[t] ELSE deps[x]
  <2>1. /\ state[t] \notin {"absent", "done", "failed", "abandoned", "superseded"}
        /\ n \in TaskIds /\ used' = n /\ n # t
        /\ state' = [state EXCEPT ![n] = "backlog", ![t] = "superseded"]
        /\ kind' = [kind EXCEPT ![n] = kind[t]]
        /\ deps' = [x \in TaskIds |-> IF t \in own(x) THEN (own(x) \ {t}) \cup {n} ELSE own(x)]
        /\ UNCHANGED <<target, round, verdict, held, hasPR>>
    BY <1>0, <1>3, BoundsAssumption
    DEF SupersedeTask, Supersede, linkVars, TaskIds
  <2>2. target[n] = 0 /\ round[n] = 0
    BY <1>0, <2>1 DEF BoardInv, BlankRows
  <2>3. /\ state'[n] = "backlog" /\ state'[t] = "superseded"
        /\ \A x \in TaskIds : x # n => /\ kind'[x] = kind[x]
                                       /\ x # t => state'[x] = state[x]
                                       /\ deps'[x] = deps[x] \/ t \in deps[x]
    BY <2>1 DEF TypeOK
  <2>4. Inserted(n) /\ Replaced(t)
    BY <1>0, <1>3, <2>1, <2>2, <2>3 DEF Inserted, Replaced
  <2>5. ASSUME NEW x \in TaskIds PROVE Fate(x)
    BY <2>1, <2>3, <2>4 DEF Fate
  <2>6. ASSUME NEW x \in TaskIds PROVE Bystander(x)
    BY <1>0, <2>1, <2>3 DEF Bystander
  <2> QED BY <2>5, <2>6
<1>4. CASE HoldTask(t) \/ \E e \in BOOLEAN : UpdateTaskEscalate(t, e)
  <2>1. UNCHANGED <<used, state, kind, target, round, verdict, hasPR, deps>>
    BY <1>4 DEF HoldTask, UpdateTaskEscalate, rowVars, shapeVars, linkVars
  <2>2. held' = [held EXCEPT ![t] = TRUE] \/ held' = held
    BY <1>4 DEF HoldTask, UpdateTaskEscalate
  <2>3. \A x \in TaskIds : held'[x] = held[x] \/ ~held[x]
    BY <2>2 DEF TypeOK
  <2> QED BY <1>0, <2>1, <2>3, StillFates
<1>5. CASE ReleaseTask(t)
  <2> DEFINE hd == [held EXCEPT ![t] = FALSE]
  <2>1. held' = hd /\ UNCHANGED <<verdict, hasPR>> /\ \A x \in TaskIds : x # t => held'[x] = held[x]
    BY <1>5 DEF ReleaseTask, linkVars, TypeOK
  <2>2. CASE state[t] = "review" /\ Aggregate(t, state, verdict, hd, reviewModels)
    <3>1. state \in [TaskIds -> States \cup {"absent"}]
      BY DEF TypeOK
    <3>2. Aggregate(t, state, verdict, held', reviewModels)
      BY <2>1, <2>2
    <3> HIDE DEF hd
    <3> QED BY <2>1, <2>2, <3>1, <3>2, DecisionFates
  <2>3. CASE /\ state[t] = "review" => RoundTasks(t, state) # {} /\ ~RoundFull(t, state)
             /\ UNCHANGED <<rowVars, state>>
    <3>1. UNCHANGED <<used, kind, target, round, deps, state>>
      BY <2>3 DEF rowVars, shapeVars
    <3>2. RoundTasks(t, state)' = RoundTasks(t, state)
      BY <3>1 DEF RoundTasks
    <3>3. Tallied(t)
      BY <2>3, <3>1, <3>2 DEF Tallied, RoundFull
    <3> QED BY <1>0, <2>1, <3>1, <3>3 DEF Fate, Bystander
  <2> QED BY <1>5, <2>2, <2>3 DEF ReleaseTask
<1>6. ASSUME NEW ds, UpdateTaskDependsOn(t, ds) PROVE \A x \in TaskIds : Fate(x) /\ Bystander(x)
  BY <1>0, <1>6 DEF UpdateTaskDependsOn, linkVars, Fate, Bystander
<1>7. ASSUME NEW ms \in ReviewLists, UpdateTaskReviewModels(t, ms)
      PROVE  \A x \in TaskIds : Fate(x) /\ Bystander(x)
  BY <1>7, ReviewersFates
<1> QED BY <1>1, <1>2, <1>3, <1>4, <1>5, <1>6, <1>7 DEF Operator

\* The watcher finds a pull request merged.
LEMMA ConvergeFates ==
  ASSUME TypeOK, BoardInv, RowInv, NEW t \in TaskIds, t <= used, Converge(t)
  PROVE  \A x \in TaskIds : Fate(x) /\ Bystander(x)
<1> DEFINE retired == UnvotedReviews(t)
<1>1. /\ UNCHANGED <<used, kind, target, round, verdict, held, hasPR, deps>>
      /\ used \in Nat /\ kind[t] = "implement" /\ t # 0
      /\ state' = [x \in TaskIds |-> IF x \in retired THEN "abandoned"
                                     ELSE IF x = t THEN "done" ELSE state[x]]
  BY DEF Converge, rowVars, shapeVars, linkVars, TypeOK, RowInv, TaskIds
<1>2. \A x \in retired : /\ x \in TaskIds /\ x # t /\ target[x] = t /\ kind[x] = "review"
                         /\ state[x] \notin {"absent", "done", "abandoned"}
  BY <1>1 DEF UnvotedReviews, BoardInv, BlankRows
<1> HIDE DEF retired
<1>3. state'[t] = "done"
  BY <1>1, <1>2
<1>4. Tallied(t)
  BY <1>3 DEF Tallied
<1>5. Converged(t)
  BY <1>1, <1>2 DEF Converged, retired
<1>6. \A x \in retired : Retired(x)
  BY <1>1, <1>2, <1>4 DEF Retired
<1>7. ASSUME NEW x \in TaskIds PROVE Fate(x)
  BY <1>1, <1>5, <1>6 DEF Fate
<1>8. ASSUME NEW x \in TaskIds PROVE Bystander(x)
  BY <1>1 DEF Bystander
<1> QED BY <1>7, <1>8

\* What can become of the rows in any step.
LEMMA NextFates ==
  ASSUME TypeOK, BoardInv, RowInv, [Next]_vars
  PROVE  \A x \in TaskIds : Fate(x) /\ Bystander(x)
<1>0. used \in Nat /\ \A t \in Rows : t \in TaskIds /\ t <= used
  BY BoundsAssumption DEF TypeOK, Rows, TaskIds
<1>1. ASSUME NEW t \in TaskIds, NEW x \in Attempts, Approve(t, x)
      PROVE  \A y \in TaskIds : Fate(y) /\ Bystander(y)
  <2>1. CASE CompleteLanding(t, x)
    <3> DEFINE to == "done"
    <3>1. /\ UNCHANGED <<used, kind, target, round, verdict, hasPR, deps, held>>
          /\ state' = [state EXCEPT ![t] = to] /\ state[t] = "approved"
      BY <2>1 DEF CompleteLanding, MoveTo, rowVars, shapeVars, linkVars
    <3>2. Moved(t)
      BY <3>1 DEF Moved, MayMove, TypeOK
    <3> HIDE DEF to
    <3> QED BY <3>1, <3>2, OneRowFates
  <2>2. CASE CancelLanding(t, x) \/ \E r \in 1..MaxRound : BeginLanding(t, r, x)
    BY <1>0, <2>2, StillFates
    DEF CancelLanding, BeginLanding, Reserve, rowVars, shapeVars, linkVars
  <2> QED BY <1>1, <2>1, <2>2 DEF Approve
<1>2. ASSUME NEW t \in TaskIds, LeaseExpires(t) \/ UNCHANGED vars
      PROVE  \A y \in TaskIds : Fate(y) /\ Bystander(y)
  BY <1>0, <1>2, StillFates DEF LeaseExpires, vars, rowVars, shapeVars, linkVars
<1>3. CASE UNCHANGED vars
  BY <1>0, <1>3, StillFates DEF vars
<1> QED
  BY <1>0, <1>1, <1>2, <1>3, CreateFates, AgentFates, OperatorFates, ConvergeFates DEF Next, Users

\* Where a row comes from and goes to in each of its fates.
LEMMA FateStates ==
  ASSUME NEW x
  PROVE  /\ Handed(x) =>
              /\ state[x] \in {"backlog", "ready", "in_progress"}
              /\ state'[x] \in {"ready", "in_progress", "review"}
              /\ state'[x] = "in_progress" => Claimable(x)
              /\ state'[x] = "review" => kind[x] = "merge"
         /\ Moved(x) =>
              /\ state[x] \in {"backlog", "ready", "in_progress", "review", "approved", "blocked"}
              /\ state'[x] \in {"done", "ready", "blocked", "superseded", "failed", "abandoned"}
              /\ state'[x] = "done" => state[x] = "approved" \/ kind[x] = "merge"
              /\ state'[x] = "ready" => state[x] \in {"approved", "blocked"}
              /\ state'[x] = "abandoned" => state[x] = "approved"
              /\ state[x] = "review" => <<state[x], state'[x]>> \in Moves
         /\ Converged(x) => hasPR[x] /\ state[x] \in {"ready", "in_progress", "review", "blocked", "approved"}
BY DEF Handed, Claimable, Moved, MayMove, Active, Converged, Converge

\* A review or merge row that is done or withdrawn stays as it is.
LEMMA ClosedRowKept ==
  ASSUME TypeOK, BoardInv, RowInv, NEW c \in TaskIds, Fate(c),
         kind[c] # "implement", state[c] \in {"done", "abandoned"}
  PROVE  /\ kind'[c] = kind[c] /\ target'[c] = target[c] /\ round'[c] = round[c]
         /\ state'[c] = state[c] /\ verdict'[c] = verdict[c]
<1>1. ~Inserted(c)
  BY DEF Inserted, BoardInv, BlankRows, TypeOK, TaskIds
<1>2. ~Handed(c) /\ ~Moved(c) /\ ~Converged(c)
  BY FateStates
<1>3. ~Replaced(c) /\ ~Retired(c) /\ ~Settled(c) /\ ~Submitted(c) /\ ~Voted(c)
  BY DEF Replaced, Retired, Settled, Submitted, Voted
<1> QED BY <1>1, <1>2, <1>3 DEF Fate

-----------------------------------------------------------------------------
(* Reviewed, finished, reopened: what holds of every step *)

\* Votes, merges and pull requests stay with the rows they belong to.
LEMMA NextKeepsRows == ASSUME TypeOK, BoardInv, RowInv, [Next]_vars PROVE RowInv'
<1> SUFFICES ASSUME NEW c \in TaskIds
             PROVE  /\ verdict'[c] # "none" => kind'[c] = "review" /\ state'[c] = "done"
                    /\ kind'[c] = "merge" => round'[c] = 0
                    /\ hasPR'[c] => kind'[c] = "implement" /\ c <= used'
  BY DEF RowInv
<1>1. Fate(c) /\ Bystander(c)
  BY NextFates
<1>2. used \in Nat /\ used' \in Nat /\ c \in Nat
  BY NextKeepsTypes, BoundsAssumption DEF TypeOK, TaskIds
<1>3. /\ verdict[c] # "none" => kind[c] = "review" /\ state[c] = "done"
      /\ kind[c] = "merge" => round[c] = 0
      /\ hasPR[c] => kind[c] = "implement" /\ c <= used
      /\ c > used => state[c] = "absent"
  BY DEF RowInv, BoardInv, BlankRows
<1>4. verdict'[c] # "none" => kind'[c] = "review" /\ state'[c] = "done"
  <2>1. CASE Inserted(c)
    BY <1>2, <1>3, <2>1 DEF Inserted
  <2>2. CASE Voted(c) /\ kind'[c] = kind[c]
    BY <2>2 DEF Voted
  <2>3. CASE verdict'[c] = verdict[c] /\ kind'[c] = kind[c] /\ state[c] = "done" /\ kind[c] = "review"
    BY <1>1, <2>3, ClosedRowKept
  <2> QED BY <1>1, <1>3, <2>1, <2>2, <2>3 DEF Fate
<1>5. kind'[c] = "merge" => round'[c] = 0
  BY <1>1, <1>3 DEF Fate, Inserted, Submitted
<1>6. hasPR'[c] => kind'[c] = "implement" /\ c <= used'
  BY <1>1, <1>2, <1>3 DEF Fate, Bystander, Inserted
<1> QED BY <1>4, <1>5, <1>6

\* The columns of every row are in order, in every reachable state.
LEMMA RowsHold == Spec => []RowInv
<1>1. Init => RowInv
  BY DEF Init, RowInv
<1>2. TypeOK /\ BoardInv /\ RowInv /\ [Next]_vars => RowInv'
  BY NextKeepsRows
<1> QED BY <1>1, <1>2, TypesHold, InvHolds, PTL DEF Spec

\* A unanimous round that no vote, reshape or new round touches stays unanimous
\* while its task is approved or done.
LEMMA UnanimousStays ==
  ASSUME TypeOK, BoardInv, BoardInv', RowInv, [Next]_vars, NEW t \in TaskIds, Unanimous(t),
         state[t] \in {"approved", "done"}, state'[t] \in {"approved", "done"}
  PROVE  Unanimous(t)'
<1>1. Unanimous(t)
  OBVIOUS
<1>2. PICK d \in TaskIds : target[d] = t /\ round[d] = round[t] /\ state[d] = "done"
  BY <1>1 DEF Unanimous, RoundTasks
<1>3. round[t] > 0 /\ kind[t] = "implement" /\ t # 0 /\ used \in Nat /\ t \in Nat
  <2>1. t # 0 /\ used \in Nat /\ t \in Nat
    BY BoundsAssumption DEF TypeOK, TaskIds
  <2>2. target[d] # 0 /\ d \in TaskIds
    BY <1>2, <2>1
  <2>3. round[target[d]] > 0 /\ kind[target[d]] = "implement"
    BY <2>2 DEF BoardInv, TargetsAreWork
  <2> QED BY <1>2, <2>1, <2>3
<1>4. Fate(t) /\ \A c \in TaskIds : Fate(c)
  BY NextFates
<1>5. round'[t] = round[t]
  BY <1>3, <1>4 DEF Fate, Inserted, Submitted, BoardInv, BlankRows
<1>6. ASSUME NEW c \in TaskIds, target'[c] = t, round'[c] = round[t]
      PROVE  target[c] = t /\ round[c] = round[t]
  <2>1. kind'[c] # "implement"
    BY <1>3, <1>6 DEF BoardInv, TargetsAreWork
  <2>2. ~Inserted(c)
    <3>1. kind'[c] \in {"implement", "review", "merge"}
      BY NextKeepsTypes DEF TypeOK, Kinds
    <3> QED BY <1>3, <1>6, <2>1, <3>1 DEF Inserted
  <2> QED BY <1>4, <1>6, <2>1, <2>2 DEF Fate, Submitted
<1>7. ASSUME NEW c \in TaskIds, target[c] = t, state[c] \in {"done", "abandoned"}
      PROVE  /\ target'[c] = target[c] /\ round'[c] = round[c]
             /\ state'[c] = state[c] /\ verdict'[c] = verdict[c]
  <2>1. kind[c] # "implement"
    BY <1>3, <1>7 DEF BoardInv, TargetsAreWork, TaskIds
  <2> QED BY <1>4, <1>7, <2>1, ClosedRowKept
<1> QED BY <1>1, <1>5, <1>6, <1>7, UnanimousKept DEF RoundKept

LEMMA FinishedUnanimous ==
  ASSUME TypeOK, BoardInv, BoardInv', RowInv, [Next]_vars, NEW t \in TaskIds,
         state[t] = "approved", state'[t] = "done"
  PROVE  Unanimous(t)'
<1>1. Unanimous(t)
  BY DEF BoardInv, ApprovedIsUnanimous
<1> QED BY <1>1, UnanimousStays

\* Work is done only after a unanimous round or because its pull request was
\* merged: of all the ways out of review, approved and blocked there is no other.
THEOREM WorkDoneIsReviewed == Spec => WorkDoneOnlyReviewed
<1> DEFINE Reviewed == \A t \in TaskIds :
                         kind[t] = "implement" /\ state[t] # "done" /\ state'[t] = "done" =>
                           Unanimous(t)' \/ Converge(t)
<1>1. ASSUME TypeOK, BoardInv, BoardInv', RowInv, [Next]_vars PROVE Reviewed
  <2> SUFFICES ASSUME NEW t \in TaskIds,
                      kind[t] = "implement", state[t] # "done", state'[t] = "done"
               PROVE  Unanimous(t)' \/ Converge(t)
    OBVIOUS
  <2>1. Fate(t)
    BY <1>1, NextFates
  <2>2. CASE Moved(t)
    <3>1. state[t] = "approved"
      BY <2>2 DEF Moved, MayMove, Active
    <3> QED BY <1>1, <3>1, FinishedUnanimous
  <2>3. CASE Settled(t) \/ Converged(t)
    BY <2>3 DEF Settled, Converged
  <2> QED
    BY <2>1, <2>2, <2>3, FateStates
    DEF Fate, Inserted, Submitted, Replaced, Retired, Voted
<1>2. WorkDoneOnlyReviewed <=> [][Reviewed]_vars
  BY DEF WorkDoneOnlyReviewed
<1>3. TypeOK /\ BoardInv /\ BoardInv' /\ RowInv /\ [Next]_vars => [Reviewed]_vars
  BY <1>1
<1> HIDE DEF Reviewed
<1>4. Spec => [][Reviewed]_vars
  BY <1>3, TypesHold, InvHolds, RowsHold, PTL DEF Spec
<1> QED BY <1>2, <1>4

\* What becomes of a row that is finished.
LEMMA TerminalFates ==
  ASSUME TypeOK, BoardInv, RowInv, [Next]_vars, NEW t \in TaskIds,
         state[t] \in {"done", "failed", "superseded", "abandoned"}, state'[t] # state[t]
  PROVE  Settled(t) \/ Retired(t)
<1>1. Fate(t)
  BY NextFates
<1>2. ~Inserted(t)
  BY DEF Inserted, BoardInv, BlankRows
<1>3. ~Handed(t) /\ ~Moved(t) /\ ~Converged(t)
  BY FateStates
<1> QED BY <1>1, <1>2, <1>3 DEF Fate, Submitted, Replaced, Voted

\* A finished task comes back only when it was done or superseded and a review of
\* it comes in late; failed and abandoned work never does.
THEOREM OnlyLateReviewsReopen == Spec => TerminalReopenedOnlyByLateReview
<1> DEFINE Reopened ==
      \A t \in TaskIds :
        state[t] \in {"done", "failed", "superseded", "abandoned"} /\ state'[t] # state[t] =>
          \/ /\ state[t] \in {"done", "superseded"}
             /\ \E c \in TaskIds : target[c] = t /\ state[c] = "in_progress" /\ state'[c] = "done"
          \/ /\ state[t] \in {"failed", "superseded"} /\ kind[t] = "review"
             /\ state'[t] = "abandoned"
<1>1. TypeOK /\ BoardInv /\ RowInv /\ [Next]_vars => [Reopened]_vars
  BY TerminalFates DEF Settled, Retired, NotResurrected
<1>2. TerminalReopenedOnlyByLateReview <=> [][Reopened]_vars
  BY DEF TerminalReopenedOnlyByLateReview
<1> HIDE DEF Reopened
<1>3. Spec => [][Reopened]_vars
  BY <1>1, TypesHold, InvHolds, RowsHold, PTL DEF Spec
<1> QED BY <1>2, <1>3

-----------------------------------------------------------------------------
(* No round is forgotten *)

\* Every step that could leave a decided round undecided decides it, keeps it
\* open, or finds its task held.
LEMMA NextForgetsNoRound ==
  ASSUME TypeOK, BoardInv, RowInv, NoForgottenRound, [Next]_vars
  PROVE  NoForgottenRound'
<1> SUFFICES ASSUME NEW p \in TaskIds, kind'[p] = "implement", state'[p] = "review", ~held'[p]
             PROVE  \E c \in RoundTasks(p, state)' : state'[c] # "done"
  BY DEF NoForgottenRound
<1>1. \A x \in TaskIds : Fate(x) /\ Bystander(x)
  BY NextFates
<1>2. SUFFICES ASSUME ~Tallied(p) PROVE FALSE
  BY DEF Tallied
<1>3. ~held[p] /\ held'[p] = held[p]
  BY <1>1, <1>2, NextKeepsTypes DEF Bystander, TypeOK
<1>4. /\ state[p] = "review" /\ kind[p] = "implement" /\ round'[p] = round[p] /\ round[p] > 0
      /\ p # 0
  <2>1. state[p] = "review" /\ kind[p] = "implement" /\ round'[p] = round[p]
    <3>1. state'[p] = "review" /\ kind'[p] = "implement" /\ ~Inserted(p) /\ ~Converged(p)
      <4>1. Converged(p) => state'[p] = "done" \/ p \in UnvotedReviews(p)
        BY DEF Converged, Converge
      <4>2. Converged(p) => kind[p] = "implement"
        BY DEF Converged, Converge, RowInv
      <4> QED BY <4>1, <4>2 DEF Inserted, UnvotedReviews
    <3>2. ~Submitted(p) /\ ~Settled(p) /\ ~Replaced(p) /\ ~Retired(p) /\ ~Voted(p) /\ ~Moved(p)
      BY <1>2, <3>1, FateStates DEF Submitted, Settled, Replaced, Retired, Voted
    <3> QED BY <1>1, <3>1, <3>2, FateStates DEF Fate
  <2> QED BY <2>1 DEF BoardInv, SubmittedIsWork, TaskIds
<1>5. PICK c \in RoundTasks(p, state) : state[c] # "done"
  BY <1>3, <1>4 DEF NoForgottenRound
<1>6. /\ c \in TaskIds /\ target[c] = p /\ round[c] = round[p] /\ kind[c] = "review"
      /\ state[c] \notin {"done", "abandoned", "absent", "approved"}
  <2>1. c \in TaskIds /\ target[c] = p /\ round[c] = round[p] /\ state[c] \notin {"done", "abandoned"}
    BY <1>5 DEF RoundTasks
  <2>2. kind[c] = "review"
    BY <1>4, <2>1 DEF BoardInv, TargetsAreWork, RowInv, TypeOK, Kinds
  <2>3. state[c] # "absent"
    BY <1>4, <2>1 DEF BoardInv, BlankRows
  <2>4. state[c] # "approved"
    <3> SUFFICES ASSUME state[c] = "approved" PROVE FALSE
      OBVIOUS
    <3>1. PICK d \in TaskIds : target[d] = c
      BY <2>1 DEF BoardInv, ApprovedIsUnanimous, Unanimous, RoundTasks
    <3> QED BY <2>1, <2>2, <3>1 DEF BoardInv, TargetsAreWork, TaskIds
  <2> QED BY <2>1, <2>2, <2>3, <2>4
<1>7. c <= used
  BY <1>6 DEF BoardInv, BlankRows, TypeOK, TaskIds
<1>8. ~Inserted(c) /\ ~Voted(c) /\ ~Retired(c)
  BY <1>2, <1>4, <1>6, <1>7 DEF Inserted, Voted, Retired, TypeOK, TaskIds
<1>9. ~Settled(c) /\ ~Converged(c) /\ ~Submitted(c)
  BY <1>6 DEF Settled, Converged, Converge, RowInv, Submitted
<1>10. target'[c] = p /\ round'[c] = round[p] /\ state'[c] \notin {"done", "abandoned"}
  BY <1>1, <1>6, <1>8, <1>9, FateStates DEF Fate, Replaced
<1>11. c \in RoundTasks(p, state)'
  BY <1>4, <1>6, <1>10 DEF RoundTasks
<1> QED BY <1>2, <1>10, <1>11 DEF Tallied

\* Work in review that nobody holds always has a review to wait for, in every
\* environment: whatever is held, released, reshaped, moved or converged.
THEOREM NoRoundIsForgotten == Spec => []NoForgottenRound
<1>1. Init => NoForgottenRound
  BY DEF Init, NoForgottenRound
<1>2. TypeOK /\ BoardInv /\ RowInv /\ NoForgottenRound /\ [Next]_vars => NoForgottenRound'
  BY NextForgetsNoRound
<1> QED BY <1>1, <1>2, TypesHold, InvHolds, RowsHold, PTL DEF Spec

-----------------------------------------------------------------------------
(* When no vote comes late *)

\* Operators leave what is in review alone.
NoMoveOutOfReview == \A to \in States : <<"review", to>> \notin Moves

\* A review that is not over is of a task in review, at its current round.
ReviewsAreCurrent ==
  \A c \in TaskIds :
    kind[c] = "review" /\ target[c] # 0
      /\ state[c] \notin {"absent", "done", "failed", "superseded", "abandoned"} =>
        state[target[c]] = "review" /\ round[c] = round[target[c]]

\* A round ends only by its reviews, so no review of it is left behind.
LEMMA NextKeepsReviewsCurrent ==
  ASSUME NoMoveOutOfReview, TypeOK, BoardInv, BoardInv', RowInv, ReviewsAreCurrent, [Next]_vars
  PROVE  ReviewsAreCurrent'
<1> SUFFICES ASSUME NEW c \in TaskIds, kind'[c] = "review", target'[c] # 0,
                    state'[c] \notin {"absent", "done", "failed", "superseded", "abandoned"}
             PROVE  state'[target'[c]] = "review" /\ round'[c] = round'[target'[c]]
  BY DEF ReviewsAreCurrent
<1>1. \A x \in TaskIds : Fate(x)
  BY NextFates
<1>2. CASE Inserted(c)
  BY <1>2 DEF Inserted
<1>3. ASSUME ~Inserted(c), NEW p \in TaskIds, p = target[c]
      PROVE  state'[target'[c]] = "review" /\ round'[c] = round'[target'[c]]
  <2>1. kind[c] = "review" /\ target'[c] = p /\ round'[c] = round[c] /\ p # 0
    BY <1>1, <1>3 DEF Fate, Submitted
  <2>2. state[c] \notin {"absent", "done", "failed", "superseded", "abandoned"}
    <3>1. state[c] # "absent"
      BY <1>3, <2>1 DEF BoardInv, BlankRows
    <3>2. ~Settled(c) /\ ~Retired(c)
      BY <2>1 DEF Settled, Retired
    <3> QED BY <3>1, <3>2, TerminalFates
  <2>3. state[p] = "review" /\ round[c] = round[p] /\ kind[p] = "implement"
    BY <1>3, <2>1, <2>2 DEF ReviewsAreCurrent, BoardInv, TargetsAreWork
  <2>4. verdict[c] = "none"
    BY <2>2 DEF RowInv
  <2>5. ~Inserted(p)
    BY <2>3 DEF Inserted, BoardInv, BlankRows
  <2>6. round'[p] = round[p] /\ ~Submitted(p) /\ ~Voted(p)
    BY <1>1, <2>3, <2>5 DEF Fate, Submitted, Voted
  <2>7. ~Settled(p)
    <3> SUFFICES ASSUME RoundFull(p, state)' PROVE FALSE
      BY DEF Settled
    <3>1. c \in RoundTasks(p, state)'
      BY <2>1, <2>3, <2>6 DEF RoundTasks
    <3> QED BY <3>1 DEF RoundFull
  <2>8. ~Converged(p)
    BY <2>1, <2>2, <2>3, <2>4, <1>3 DEF Converged, UnvotedReviews
  <2>9. ~Moved(p) /\ ~Replaced(p) /\ ~Retired(p) /\ ~Handed(p)
    <3>1. state'[p] \in States \cup {"absent"}
      BY NextKeepsTypes DEF TypeOK
    <3>2. ~Moved(p)
      <4>1. Moved(p) => state'[p] \in States
        BY <3>1 DEF Moved, MayMove
      <4> QED BY <2>3, <4>1 DEF Moved, NoMoveOutOfReview
    <3> QED BY <2>3, <3>2 DEF Replaced, Retired, Handed, Claimable, NoMoveOutOfReview, States
  <2>10. state'[p] = "review"
    BY <1>1, <2>3, <2>5, <2>6, <2>7, <2>8, <2>9 DEF Fate
  <2> QED BY <2>1, <2>3, <2>6, <2>10
<1>4. ~Inserted(c) => target[c] \in TaskIds
  BY <1>1 DEF Fate, TypeOK, TaskIds
<1> QED BY <1>2, <1>3, <1>4

\* Every review is current for as long as it is open.
LEMMA ReviewsStayCurrent == NoMoveOutOfReview => (Spec => []ReviewsAreCurrent)
<1> SUFFICES ASSUME NoMoveOutOfReview PROVE Spec => []ReviewsAreCurrent
  OBVIOUS
<1>1. Init => ReviewsAreCurrent
  BY DEF Init, ReviewsAreCurrent
<1>2. TypeOK /\ BoardInv /\ BoardInv' /\ RowInv /\ ReviewsAreCurrent /\ [Next]_vars => ReviewsAreCurrent'
  BY NextKeepsReviewsCurrent
<1> QED BY <1>1, <1>2, TypesHold, InvHolds, RowsHold, PTL DEF Spec

\* If operators leave what is in review alone, no vote comes late: whatever agents,
\* reviewers' lists, holds, landings and the watcher do, an open review is of the
\* current round of a task in review.
THEOREM OpenReviewsStayCurrent == NoMoveOutOfReview => (Spec => []OpenReviewsAreCurrent)
<1>1. ReviewsAreCurrent => OpenReviewsAreCurrent
  BY DEF ReviewsAreCurrent, OpenReviewsAreCurrent
<1> QED BY <1>1, ReviewsStayCurrent, PTL

\* A row that is finished stays finished; a review may still be withdrawn with its round.
FinishedIsFinal ==
  [][\A t \in TaskIds :
       state[t] \in {"done", "superseded"} /\ state'[t] # state[t] =>
         kind[t] = "review" /\ state[t] = "superseded" /\ state'[t] = "abandoned"]_vars

\* Without late votes nothing decides the round of a finished task again.
LEMMA NextKeepsFinished ==
  ASSUME TypeOK, BoardInv, RowInv, ReviewsAreCurrent, [Next]_vars,
         NEW t \in TaskIds, state[t] \in {"done", "superseded"}, state'[t] # state[t]
  PROVE  kind[t] = "review" /\ state[t] = "superseded" /\ state'[t] = "abandoned"
<1>1. ~Settled(t)
  <2> SUFFICES ASSUME NEW c \in TaskIds,
                      target[c] = t, kind[c] = "review", state[c] = "in_progress"
               PROVE  FALSE
    BY DEF Settled
  <2> QED BY DEF ReviewsAreCurrent, TaskIds
<1>2. Retired(t)
  BY <1>1, TerminalFates
<1> QED BY <1>2 DEF Retired

\* The premise that makes finished work final: nothing but a late vote reopens it.
THEOREM FinishedStaysFinished == NoMoveOutOfReview => (Spec => FinishedIsFinal)
<1> SUFFICES ASSUME NoMoveOutOfReview PROVE Spec => FinishedIsFinal
  OBVIOUS
<1> DEFINE Final == \A t \in TaskIds :
                      state[t] \in {"done", "superseded"} /\ state'[t] # state[t] =>
                        kind[t] = "review" /\ state[t] = "superseded" /\ state'[t] = "abandoned"
<1>1. TypeOK /\ BoardInv /\ RowInv /\ ReviewsAreCurrent /\ [Next]_vars => [Final]_vars
  BY NextKeepsFinished
<1>2. FinishedIsFinal <=> [][Final]_vars
  BY DEF FinishedIsFinal
<1> HIDE DEF Final
<1>3. Spec => [][Final]_vars
  BY <1>1, TypesHold, InvHolds, RowsHold, ReviewsStayCurrent, PTL DEF Spec
<1> QED BY <1>2, <1>3

\* Nobody works on a task whose dependencies are not done, at any time of the
\* claim: done rows stay done, and a row that is done is not replaced.
LEMMA NextKeepsOrder ==
  ASSUME "patch" \notin Doings, TypeOK, BoardInv, RowInv, ReviewsAreCurrent, StartedAfterDeps, [Next]_vars
  PROVE  StartedAfterDeps'
<1> SUFFICES ASSUME NEW t \in TaskIds, state'[t] = "in_progress" PROVE \A d \in deps'[t] : state'[d] = "done"
  BY DEF StartedAfterDeps
<1>1. Fate(t) /\ Bystander(t)
  BY NextFates
<1>2. state[t] = "in_progress" \/ Claimable(t)
  BY <1>1, FateStates DEF Fate, Inserted, Submitted, Voted, Replaced, Retired, Settled, Converged, Converge,
     UnvotedReviews
<1>3. /\ \A d \in deps[t] : state[d] = "done"
      /\ state[t] # "absent"
  BY <1>2 DEF Claimable, StartedAfterDeps
<1>4. deps'[t] = deps[t] /\ deps[t] \subseteq TaskIds
  BY <1>1, <1>3 DEF Bystander, BoardInv, BlankRows, TypeOK, TaskIds
<1>5. \A d \in TaskIds : state[d] = "done" => state'[d] = "done"
  BY NextKeepsFinished
<1> QED BY <1>3, <1>4, <1>5

\* If operators leave what is in review alone and edit no dependencies, work is
\* done in the order of its dependencies.
THEOREM WorkFollowsDependencies ==
  NoMoveOutOfReview /\ "patch" \notin Doings => (Spec => []StartedAfterDeps)
<1> SUFFICES ASSUME NoMoveOutOfReview, "patch" \notin Doings PROVE Spec => []StartedAfterDeps
  OBVIOUS
<1>1. Init => StartedAfterDeps
  BY DEF Init, StartedAfterDeps
<1>2. TypeOK /\ BoardInv /\ RowInv /\ ReviewsAreCurrent /\ StartedAfterDeps /\ [Next]_vars => StartedAfterDeps'
  BY NextKeepsOrder
<1> QED BY <1>1, <1>2, TypesHold, InvHolds, RowsHold, ReviewsStayCurrent, PTL DEF Spec
===============================================================================
