----------------------------- MODULE MCPipeline -----------------------------
(***************************************************************************)
(* One file and two plugins for TLC, in up to two workers' hands at once;  *)
(* and what ties the outcomes a run may decide on to the scores they come  *)
(* from.                                                                   *)
(***************************************************************************)
EXTENDS Pipeline, Scoring

CONSTANTS llm, whisper   \* plugins: one with a daily budget, one without

TwoPlugins == <<llm, whisper>>
MCBudget  == [p \in PluginSet |-> IF p = llm THEN 1 ELSE NoBudget]
OnePart   == [s \in Stages |-> 1]
OneOrAll  == {{"probe"}, Stages}
OnlyProbe == {{"probe"}}
TwoSubs   == [s \in Stages |-> IF s = "subs" THEN 2 ELSE 1]

\* What aggregate and route make of a panel, over all answers its plugins can
\* give: the ones in ok an answer, the others none.
Panels(ok) ==
    {a \in [PluginSet -> Answers] : \A p \in PluginSet : a[p].status = "ok" <=> p \in ok}
Decisions(a) ==
    LET t     == [DefaultThresholds EXCEPT !.auto_min_evidence = MinEvidence]
        sheet == Aggregate(a, Claimed, DefaultScoring)
    IN  {Route(sheet, t, f, DefaultScoring).outcome : f \in Flags}
Scored == {[ok |-> ok, outcomes |-> UNION {Decisions(a) : a \in Panels(ok)}] :
             ok \in SUBSET PluginSet}

\* Whatever a run has heard from its plugins, out of the cache, within their
\* budgets or in vain, it may decide on exactly the outcomes that scoring some
\* answers of the plugins that answered can give, and what it decided is one
\* of them.  (process_job, aggregate, route)
RoutesAsScored ==
    \A w \in Workers :
        LET r == run[w]
        IN  \E s \in Scored :
               /\ s.ok = r.ok
               /\ r.pc = "plugin" => s.outcomes = RouteOutcomes(r.ok)
               /\ r.outcome # "none" => r.outcome \in s.outcomes
=============================================================================
