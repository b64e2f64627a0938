------------------------------ MODULE MCTopics ------------------------------
(* Topics for the model checker: two queues that priority actions reorder, and   *)
(* parents whose continuation manifests are good, broken, or name what is not    *)
(* there.  A behaviour stays in the environment it starts in.                    *)
EXTENDS Topics

Child(k, track, claim, path, deps) ==
  [key |-> k, complete |-> TRUE, track |-> track, model |-> "cheap",
   reviewers |-> <<"cheap", "costly">>, claims |-> <<claim>>, sources |-> <<"s">>,
   files |-> <<path>>, deps |-> deps]
Offer(children) ==
  [parent |-> 1, children |-> children,
   candidates |-> [i \in DOMAIN children |->
     [claim |-> children[i].claims[1], disposition |-> "assigned", named |-> FALSE]]]
On(kind, ref) == [kind |-> kind, ref |-> ref]
Docs == <<"docs">>
DocsA == <<"docs", "a">>
DocsB == <<"docs", "b">>

\* One child; two of which one waits for the parent and the first.
Single == Offer(<<Child(1, "research", "c1", Docs, <<>>)>>)
Pair == Offer(<<Child(1, "research", "c1", DocsA, <<On("parent", 1)>>),
                Child(2, "build", "c2", DocsB, <<On("child", 1), On("task", 2)>>)>>)
\* What the validator has to refuse.
Circle == Offer(<<Child(1, "research", "c1", DocsA, <<On("child", 2)>>),
                  Child(2, "research", "c2", DocsB, <<On("child", 1)>>)>>)
Nested == Offer(<<Child(1, "research", "c1", Docs, <<>>),
                  Child(2, "research", "c2", DocsA, <<>>)>>)
Shared == Offer(<<Child(1, "research", "c1", DocsA, <<>>),
                  Child(2, "research", "c1", DocsB, <<>>)>>)
\* What it lets pass and no transaction can insert.
Nowhere == Offer(<<Child(1, "research", "c1", Docs, <<On("task", 0)>>)>>)
Twice == Offer(<<Child(1, "research", "c1", Docs, <<On("parent", 1), On("task", 1)>>)>>)

Settings ==
  [queue |-> [rows |-> 4, inputs |-> <<[priorities |-> {500}, optsIn |-> FALSE],
                                       [priorities |-> {1000}, optsIn |-> FALSE]>>,
              keys |-> 3, manual |-> {1000}, offers |-> {},
              moves |-> {<<"approved", "done">>}, doings |-> {}, outcomes |-> {"merge"}],
   shelf |-> [rows |-> 3, inputs |-> <<[priorities |-> {500}, optsIn |-> FALSE],
                                       [priorities |-> {1000}, optsIn |-> FALSE]>>,
              keys |-> 2, manual |-> {}, offers |-> {},
              moves |-> {<<"approved", "done">>}, doings |-> {"archive"}, outcomes |-> {"approved"}],
   rework |-> [rows |-> 4, inputs |-> <<[priorities |-> {500}, optsIn |-> FALSE]>>,
              keys |-> 1, manual |-> {1}, offers |-> {},
              moves |-> {<<"ready", "failed">>}, doings |-> {"supersede"},
              outcomes |-> {"ready", "blocked", "merge", "adjudicate", "escalate", "follow_up"}],
   family |-> [rows |-> 5, inputs |-> <<[priorities |-> {7}, optsIn |-> TRUE],
                            [priorities |-> {1}, optsIn |-> FALSE]>>,
              keys |-> 0, manual |-> {},
              offers |-> {Pair, Circle, Nested, Shared},
              moves |-> {<<"approved", "done">>}, doings |-> {"supersede"},
              outcomes |-> {"approved"}],
   heirs |-> [rows |-> 5, inputs |-> <<[priorities |-> {500}, optsIn |-> TRUE]>>,
              keys |-> 1, manual |-> {7}, offers |-> {Single},
              moves |-> {<<"approved", "done">>},
              doings |-> {"supersede"}, outcomes |-> {"approved"}],
   late |-> [rows |-> 5, inputs |-> <<[priorities |-> {500}, optsIn |-> TRUE]>>,
              keys |-> 0, manual |-> {}, offers |-> {Single},
              moves |-> {<<"review", "blocked">>, <<"blocked", "ready">>, <<"approved", "done">>},
              doings |-> {}, outcomes |-> {"approved"}],
   outside |-> [rows |-> 4, inputs |-> <<[priorities |-> {500}, optsIn |-> TRUE]>>,
              keys |-> 0, manual |-> {}, offers |-> {Single, Nowhere, Twice},
              moves |-> {<<"approved", "done">>},
              doings |-> {"converge", "hold"}, outcomes |-> {"follow_up", "done"}]]

Models == {"cheap", "costly"}
WorkTracks == {"research", "build"}

\* hasCycleDFS is right about every manifest of the allowed size, in whatever order its
\* children name each other.
Keys == 1..MaxChildren
Orders == {s \in UNION {[1..n -> Keys] : n \in 0..MaxChildren} : IsInjective(s)}
Graph(g) ==
  [children |-> [k \in Keys |->
     [key |-> k, deps |-> [i \in DOMAIN g[k] |-> On("child", g[k][i])]]]]
ASSUME CyclesAreFound == \A g \in [Keys -> Orders] : HasCycle(Graph(g)) <=> ~Startable(Graph(g))
=============================================================================
