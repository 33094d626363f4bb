--------------------------- MODULE NarrativeScorer --------------------------
(***************************************************************************)
(* The quality of a tick as one number                                     *)
(* (crates/fabula-narratives/src/scorer.rs): signals gathered from the     *)
(* engine and the trackers, each with a weight.                            *)
(*                                                                         *)
(* Weights and measured signals are integers, in halves: a weight of One   *)
(* is the code's 1.0.  A map from names to weights is a function on some   *)
(* of the names.                                                           *)
(***************************************************************************)
EXTENDS Integers, FiniteSets, FiniteSetsExt

One == 2

\* NarrativeWeights::default
DefaultWeights ==
  [ progress |-> 2, completion |-> 6, stall_penalty |-> -4, unresolved_penalty |-> -1,
    resolution_reward |-> 10, filo_violation_penalty |-> -6, tension_fit |-> 4,
    pivot_reward |-> 3, surprise_reward |-> 2, sequential_surprise_reward |-> 2,
    time_scale |-> 2 ]

\* A weight the map does not give is 1
Weight(map, n) == IF n \in DOMAIN map THEN map[n] ELSE One

\* w[x], for all x of S together
Total(S, w) == MapThenSumSet(LAMBDA x : w[x], S)

Weighted(S, map) == Total(S, [n \in S |-> Weight(map, n)])

\* tension_fit
TensionFit(actual, desired) ==
  CASE "Unknown" \in {actual, desired}                        -> 0
    [] actual = desired /\ actual # "Unknown"                 -> One
    [] {actual, desired} \in {{"Rising", "Falling"}, {"Peak", "Valley"}} -> -One
    [] OTHER                                                  -> 0

\* Fault: a payoff of long ago is not asked for
InProgressPairs(statuses) == {p \in statuses : p.active_plants > 0}

\* A pair's plant is unresolved when in progress and its payoff never came
UnresolvedPairs(statuses) == {p \in statuses : p.active_plants > 0 /\ p.payoff_completions = 0}

\* Completed patterns that are some pair's payoff
Resolved(d, statuses) == {n \in d.completed : \E p \in statuses : p.payoff_pattern = n}

\* assemble_signals; `measured` holds the four numbers passed through
AssembleSignals(d, statuses, filo, measured) ==
  [ advancements |-> Cardinality(d.advanced), completions |-> Cardinality(d.completed),
    stalled |-> Cardinality(d.stalled),
    unresolved_plants |-> Cardinality(UnresolvedPairs(statuses)),
    resolutions |-> Cardinality(Resolved(d, statuses)),
    filo_violations |-> filo,
    tension_fit |-> measured.tension_fit, pivot_magnitude |-> measured.pivot_magnitude,
    surprise |-> measured.surprise, sequential_surprise |-> measured.sequential_surprise,
    weighted_advancements |-> 0, weighted_completions |-> 0,
    weighted_filo_violations |-> 0, weighted_resolutions |-> 0 ]

\* assemble_signals_weighted
AssembleSignalsWeighted(d, statuses, filo, measured, importance) ==
  [ AssembleSignals(d, statuses, filo, measured) EXCEPT
    !.weighted_advancements = Weighted(d.advanced, importance),
    !.weighted_completions = Weighted(d.completed, importance) ]

\* assemble_signals_with_significance; violations are distinct
AssembleWithSignificance(d, statuses, violations, measured, significance) ==
  [ AssembleSignalsWeighted(d, statuses, Cardinality(violations), measured,
                            significance.pattern_importance) EXCEPT
    !.weighted_filo_violations =
        Total(violations,
              [v \in violations |-> Weight(significance.thread_significance, v.closed_thread)]),
    !.weighted_resolutions = Weighted(Resolved(d, statuses), significance.pattern_importance) ]

\* Fault: a weighted count is added to the plain one
Both(weighted, count) == weighted + One * count

\* A weighted count of 0 is taken to be missing
WeightedOr(weighted, count) == IF weighted > 0 THEN weighted ELSE One * count

\* score: the breakdown, the products of halves left as they are
Breakdown(s, w) ==
  LET adv  == WeightedOr(s.weighted_advancements, s.advancements)
      comp == WeightedOr(s.weighted_completions, s.completions)
      filo == WeightedOr(s.weighted_filo_violations, s.filo_violations)
      res  == WeightedOr(s.weighted_resolutions, s.resolutions)
  IN  [ progress            |-> adv * w.progress * w.time_scale,
        completion          |-> comp * w.completion * w.time_scale,
        stall_penalty       |-> One * s.stalled * w.stall_penalty * w.time_scale,
        unresolved_penalty  |-> One * s.unresolved_plants * w.unresolved_penalty * w.time_scale,
        resolution          |-> res * w.resolution_reward * w.time_scale,
        filo_penalty        |-> filo * w.filo_violation_penalty * w.time_scale,
        tension             |-> s.tension_fit * w.tension_fit * w.time_scale,
        pivot               |-> s.pivot_magnitude * w.pivot_reward * w.time_scale,
        surprise            |-> s.surprise * w.surprise_reward * w.time_scale,
        sequential_surprise |-> s.sequential_surprise * w.sequential_surprise_reward * w.time_scale ]

TotalScore(s, w) == LET b == Breakdown(s, w) IN Total(DOMAIN b, b)
=============================================================================
