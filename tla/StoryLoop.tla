------------------------------ MODULE StoryLoop -----------------------------
(***************************************************************************)
(* A game master's loop with the narrative trackers attached: the loop of  *)
(* GameLoop, whose every TickDelta the thread tracker observes, once, and  *)
(* the scorer turns into a score (crates/fabula-narratives).               *)
(***************************************************************************)
EXTENDS GameLoop, ThreadTracker, NarrativeScorer

storyVars == <<vars, threadVars>>

StoryInit == Init /\ ThreadInit

\* end_tick, then observe_delta on what it returned
StoryTick == TickEnds /\ ObserveDelta(delta')

StoryNext == StoryTick \/ (Play /\ UNCHANGED threadVars)

StorySpec == StoryInit /\ [][StoryNext]_storyVars /\ WF_storyVars(StoryTick)

\* How the pattern named n is counted; nothing, before it is registered
CountsOf(n) == IF Named(n) = {} THEN NewMetrics
               ELSE metrics[FirstNamed(CHOOSE i \in Named(n) : TRUE)]

LibraryNames == {Library[i].name : i \in DOMAIN Library}

\* As the tracker's status sees the engine, through each pattern's counters
ThreadsUnresolved ==
  UnresolvedThreads(
    [n \in LibraryNames |-> CountsOf(n)],
    [n \in LibraryNames |-> Cardinality({pm \in Active : Library[pm.pattern_idx].name = n})])

\* The tracker, which sees names in reports of ticks only, keeps up with the
\* engine's own counters: a thread has been opened as soon as its public
\* opening pattern has advanced and the tick is over, and not otherwise; it has
\* written down no more closings than there were completions, and at least one
\* as soon as a public closing pattern has completed and the tick is over (the
\* completions of one tick are one closing).  A thread its status calls
\* unresolved is one it has seen opened, if its opening takes more than one stage.
TrackerKeepsUp ==
  \A i \in DOMAIN Threads :
    LET t == Threads[i]
        opens == CountsOf(t.open).advancement_count
        opened == t.name \in Recorded(open_order)
        closings == Times(close_order, t.name)
    IN  /\ opened => opens > 0
        /\ opens > 0 /\ ~IsPrivate(t.open) =>
              opened \/ t.open \in acc.advanced
        /\ closings <= CountsOf(t.close).completion_count
        /\ CountsOf(t.close).completion_count > 0 /\ ~IsPrivate(t.close) =>
              closings > 0 \/ t.close \in acc.completed
        /\ i \in ThreadsUnresolved /\ ~IsPrivate(t.open)
             /\ (\A k \in Named(t.open) : StageCount(Library[k]) > 1) =>
              opened \/ t.open \in acc.advanced

Statuses(threshold) == {PlantStatus(pair, threshold) : pair \in Tracked}

\* What the scorer rewards as a resolution it does not at the same time
\* punish as an unresolved plant.
ResolutionsSettle ==
  \A threshold \in StaleThresholds :
    \A p \in UnresolvedPairs(Statuses(threshold)) :
      p.payoff_pattern \notin Resolved(delta, Statuses(threshold))

\* Weighing every pattern and thread as 1 is not weighing at all: the signals
\* assembled with significance then score like the plain ones, part by part.
UnitWeightsWeighNothing ==
  LET none == [n \in {} |-> One]
      measured == [ tension_fit |-> TensionFit("Rising", "Falling"), pivot_magnitude |-> 1,
                    surprise |-> 1, sequential_surprise |-> 1 ]
      all == [pattern_importance |-> none, thread_significance |-> none]
  IN  \A threshold \in StaleThresholds :
        LET plain   == AssembleSignals(delta, Statuses(threshold), Cardinality(CheckFilo), measured)
            weighed == AssembleWithSignificance(delta, Statuses(threshold), Violations, measured, all)
        IN  /\ Breakdown(plain, DefaultWeights) = Breakdown(weighed, DefaultWeights)
            /\ TotalScore(plain, DefaultWeights) = TotalScore(weighed, DefaultWeights)

\* What the score of a tick says of its resolutions and weights.
ScoreTellsTheTick == ResolutionsSettle /\ UnitWeightsWeighNothing
=============================================================================
