----------------------------- MODULE Manifests ------------------------------
(***************************************************************************)
(* Continuation manifests (internal/manifest): the child tasks a research   *)
(* task proposes, and the validator that its submission and its merge run.  *)
(*                                                                         *)
(* A manifest is a record of the parent, the children and the candidates;   *)
(* a child has                                                              *)
(*   key        numbers stand for the parent-scoped names                   *)
(*   complete   nothing the validator requires is absent or blank           *)
(*   files      paths as filepath.Clean leaves them: sequences of names,    *)
(*              "/" first in an absolute one, the whole tree is empty       *)
(*   deps       records of a kind and a reference: "parent" and "task"      *)
(*              refer to tasks, "child" to the key of a sibling             *)
(* and a candidate is a claim, its disposition, and whether the owner or    *)
(* the reason the disposition calls for is named.                           *)
(***************************************************************************)
EXTENDS Naturals, Sequences, FiniteSets, SequencesExt

CONSTANTS AllowedModels, Tracks   \* the deployment's allowlist, and the tracks of tasks

MaxChildren == 3
MaxClaims == 6
MaxSources == 4

Children(m) == ToSet(m.children)
KeysOf(m) == {c.key : c \in Children(m)}
ChildOf(m, k) == CHOOSE c \in Children(m) : c.key = k
ClaimsOf(m) == UNION {ToSet(c.claims) : c \in Children(m)}

\* A path names something inside the repository.
ValidPath(f) == f # <<>> /\ Head(f) \notin {"/", ".."}

ValidChild(c) ==
  /\ c.complete
  /\ c.track \in Tracks /\ c.model \in AllowedModels
  /\ Len(c.reviewers) = 2 /\ c.reviewers[1] # c.reviewers[2]
  /\ ToSet(c.reviewers) \subseteq AllowedModels
  /\ Len(c.claims) \in 1..MaxClaims /\ IsInjective(c.claims)
  /\ Cardinality(ToSet(c.sources)) \in 1..MaxSources
  /\ c.files # <<>> /\ \A f \in ToSet(c.files) : ValidPath(f)

OverlapExact(f, g) == f = g
\* One path is the other, or lies below it.
Overlap(f, g) == IsPrefix(f, g) \/ IsPrefix(g, f)
FileOverlap(c, d) == \E f \in ToSet(c.files), g \in ToSet(d.files) : Overlap(f, g)

\* Nothing looks up whether the task of a "task" reference exists.
ValidDeps(m, c) ==
  /\ IsInjective(c.deps)
  /\ \A d \in ToSet(c.deps) :
       \/ d.kind = "parent" /\ d.ref = m.parent
       \/ d.kind = "child" /\ d.ref \in KeysOf(m)
       \/ d.kind = "task"

\* hasCycleDFS: the walk from key k, through the siblings it depends on in the order the
\* child lists them, ends at a key it is still visiting.  It leaves the marks it made.
Marks == {"unvisited", "visiting", "visited"}
Walk(m) ==
  LET W[k \in KeysOf(m), marks \in [KeysOf(m) -> Marks]] ==
        LET step(r, d) ==
              IF r.cycle \/ d.kind # "child" \/ r.marks[d.ref] = "visited" THEN r
              ELSE IF r.marks[d.ref] = "visiting" THEN [r EXCEPT !.cycle = TRUE]
              ELSE W[d.ref, r.marks]
            end == FoldLeft(step, [cycle |-> FALSE, marks |-> [marks EXCEPT ![k] = "visiting"]],
                            ChildOf(m, k).deps)
        IN  IF end.cycle THEN end ELSE [end EXCEPT !.marks[k] = "visited"]
  IN  W
HasCycle(m) ==
  LET from(r, c) == IF r.cycle \/ r.marks[c.key] # "unvisited" THEN r
                    ELSE Walk(m)[c.key, r.marks]
  IN  FoldLeft(from, [cycle |-> FALSE, marks |-> [k \in KeysOf(m) |-> "unvisited"]],
               m.children).cycle

\* What that walk is to find out: of any children of m, one waits for none of them.
Startable(m) ==
  \A K \in SUBSET KeysOf(m) : K # {} =>
    \E k \in K : \A d \in ToSet(ChildOf(m, k).deps) : d.kind = "child" => d.ref \notin K

\* Every claim of a child is one of the candidates, and a candidate that is carried
\* forward or excluded is in no child.
ValidCandidates(m) ==
  /\ IsInjective([i \in DOMAIN m.candidates |-> m.candidates[i].claim])
  /\ \A x \in ToSet(m.candidates) :
       \/ x.disposition = "assigned" /\ x.claim \in ClaimsOf(m)
       \/ x.disposition \in {"carried_forward", "excluded"} /\ x.claim \notin ClaimsOf(m) /\ x.named
  /\ ClaimsOf(m) \subseteq {x.claim : x \in ToSet(m.candidates)}

Valid(m) ==
  /\ Len(m.children) \in 1..MaxChildren
  /\ \A c \in Children(m) : ValidChild(c)
  /\ \A i, j \in DOMAIN m.children :
       i # j => /\ m.children[i].key # m.children[j].key
                /\ ToSet(m.children[i].claims) \cap ToSet(m.children[j].claims) = {}
                /\ ~FileOverlap(m.children[i], m.children[j])
  /\ \A c \in Children(m) : ValidDeps(m, c)
  /\ ~HasCycle(m)
  /\ ValidCandidates(m)
=============================================================================
