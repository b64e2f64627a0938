---------------------------- MODULE MCEvaluation ----------------------------
(* Values of the constants of EvaluationRuns for the model checker. *)
EXTENDS EvaluationRuns

AllCallers == (Runners \X {"main", "lease"}) \cup {<<"api1", "call">>, <<"api2", "call">>}
\* Two candidates of one campaign, one with a rate and one with slots, two samples of that
\* campaign and one of another.
Campaign == [x \in Candidates \cup Samples |-> IF x = "s3" THEN "k2" ELSE "k1"]
Pool == [d \in Candidates |-> IF d = "d1" THEN "slots" ELSE "rated"]
CampaignCap == [k \in Campaigns |-> 3]
CandidateCap == [d \in Candidates |-> IF d = "d1" THEN 2 ELSE 3]

Slots(n) == [limit |-> n]
Rate(r, b, n) == [rate |-> r, burst |-> b, limit |-> n]
Everything == Records
Nobody == [r \in Runners |-> <<>>]
First == <<"s1", "d1">>
Second == <<"s1", "d2">>
Third == <<"s2", "d1">>
Fourth == <<"s2", "d2">>
Pair(slots, rated) == [p \in Pools |-> IF p = "slots" THEN slots ELSE rated]

Env(configs, until, campaign, victims, does) ==
  [made |-> Everything, configs |-> configs, until |-> until, campaign |-> campaign,
   victims |-> victims, does |-> does, jobs |-> {}, requests |-> {}]
\* Two runners on one job; one of them may die, and either may take over.
Takeover ==
  Env(Pair(<<Slots(2)>>, <<>>), 2, [r \in Runners |-> <<First>>], {"r1"}, {"crash"})
\* A runner goes through a campaign while the operator pauses it.
Alone(todo) == [r \in Runners |-> IF r = "r1" THEN todo ELSE <<>>]
Campaigning ==
  Env(Pair(<<Slots(1)>>, <<Rate(1, 1, 1), Rate(1, 2, 2)>>), 2, Alone(<<Second, First>>), {}, {"pause"})
\* Results the store does not take, samples that cannot be rebuilt, reviews that time out,
\* runs that are cancelled.
Failing ==
  Env(Pair(<<Slots(1)>>, <<>>), 2, Alone(<<First>>), {"r1"},
      {"finalize_fails", "timeout", "unavailable", "cancel"})
\* Clients of the API, retries included.  Two jobs share a pool: one of slots, which are fewer
\* from some time on, or one with a rate.
Calling(slots, rated, jobs) ==
  [Env(Pair(slots, rated), 2, Nobody, {}, {"api"}) EXCEPT !.jobs = jobs, !.requests = {1, 2}]
Calls == Calling(<<Slots(2), Slots(1)>>, <<>>, {First, Third})
RatedCalls == Calling(<<>>, <<Rate(2, 2, 1)>>, {Second, Fourth})
\* A campaign is set up while its jobs are claimed.
Setup == [Env(Pair(<<Slots(1)>>, <<>>), 0, Nobody, {}, {"api"}) EXCEPT
            !.made = {"k1"}, !.jobs = {First, <<"s3", "d1">>}, !.requests = {1}]
AllEnvironments == {Takeover, Campaigning, Failing, Calls, RatedCalls, Setup}
=============================================================================
