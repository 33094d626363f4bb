------------------------------ MODULE Observers ------------------------------
(***************************************************************************)
(* The trackers and scorers that watch a story from outside, each driven   *)
(* by its user.  They do not interact: one of them is `watched` in a       *)
(* behaviour, chosen at the start, and takes all its calls in any order.   *)
(* `past` remembers what it was told.                                      *)
(***************************************************************************)
EXTENDS ThreadTracker, TensionTracker, PivotDetector, PropertyScorer, PatternScorer

CONSTANTS Deltas,       \* reports of a tick: [advanced, completed]
          Values,       \* values of the tracked number
          Gaps,         \* ticks from one sample to the next
          MatchFacts,   \* [pattern, role, props]
          Rounds,       \* sequences of the names of one round's matches
          MaxSteps      \* calls per behaviour

ASSUME ObserversAssumption ==
  /\ Values \subseteq Int /\ Gaps \subseteq Nat
  /\ \A m \in MatchFacts : m.props \in Seq(ToSet(m.props))

VARIABLES watched, past

observers == <<threadVars, samples, pivotVars, scorerVars, surpriseVars, rows, watched, past>>

Watchable == {"threads", "tension", "pivot", "divergence", "properties",
              "batch", "incremental", "sequential"}

ObserversInit ==
  /\ watched \in Watchable /\ past = << >>
  /\ ThreadInit /\ TensionInit /\ PivotInit /\ ScorerInit /\ PatternScorerInit

Told(x) == past' = Append(past, x) /\ Len(past) < MaxSteps /\ UNCHANGED watched

StartedAfresh == past # << >> /\ past' = << >> /\ UNCHANGED watched

\* past: the threads each call opens and closes
ThreadCall(opened, closed) == [opened |-> opened, closed |-> closed]

Reported(d) ==
  LET Of(S) == {t.name : t \in S}
  IN  ThreadCall(Of({t \in ToSet(Threads) : t.open \in d.advanced}),
                 Of({t \in ToSet(Threads) : t.close \in d.completed}))

ThreadsNext ==
  \/ \E d \in Deltas : ObserveDelta(d) /\ Told(Reported(d))
  \/ \E n \in ThreadNames : \/ RecordOpen(n) /\ Told(ThreadCall({n}, {}))
                            \/ RecordClose(n) /\ Told(ThreadCall({}, {n}))
  \/ ThreadReset /\ StartedAfresh

TensionNext ==
  \/ \E v \in Values, g \in Gaps :
       PushSample((IF samples = << >> THEN 0 ELSE Last(samples).tick) + g, v) /\ Told(v)
  \/ TensionReset /\ StartedAfresh

\* past: the counts of the ticks that are over
PivotNext(metric) ==
  \/ \E k \in EventTypes : /\ Mass(current_counts) < 2 /\ PushEvent(k)
                           /\ Len(past) < MaxSteps /\ UNCHANGED <<past, watched>>
  \/ EndPivotTick(metric) /\ Told(current_counts)
  \/ PivotReset /\ StartedAfresh

PropertiesNext ==
  \/ \E m \in MatchFacts : ObserveMatch(m.pattern, m.role, m.props) /\ Told(m)
  \/ ScorerReset /\ StartedAfresh

\* past: the rounds that are over
BatchNext ==
  \/ \E names \in Rounds : Observe(names) /\ Told(names)
  \/ \E i \in DOMAIN PatternNames : SetBaseline(i, <<1, 2>>) /\ UNCHANGED <<past, watched>>
  \/ ResetCounts /\ StartedAfresh

\* A round of completions, reported together, and the tick that ends it
IncrementalNext ==
  LET open == past # << >> /\ Last(past).open
  IN  \/ \E names \in Rounds :
           /\ ~open /\ IsInjective(names)
           /\ ObserveEvents(names) /\ Told([open |-> TRUE, names |-> names])
      \/ /\ open /\ TickRound
         /\ past' = [past EXCEPT ![Len(past)].open = FALSE] /\ UNCHANGED watched
      \/ ResetCounts /\ StartedAfresh

SequentialNext ==
  \/ \E p, q \in ToSet(PatternNames) : ObserveTransition(p, q) /\ Told(<<p, q>>)
  \/ ResetRows /\ StartedAfresh

ObserversNext ==
  \/ /\ watched = "threads" /\ ThreadsNext
     /\ UNCHANGED <<samples, pivotVars, scorerVars, surpriseVars, rows>>
  \/ /\ watched = "tension" /\ TensionNext
     /\ UNCHANGED <<threadVars, pivotVars, scorerVars, surpriseVars, rows>>
  \/ /\ \/ watched = "pivot" /\ PivotNext("JensenShannon")
        \/ watched = "divergence" /\ PivotNext("KullbackLeibler")
     /\ UNCHANGED <<threadVars, samples, scorerVars, surpriseVars, rows>>
  \/ /\ watched = "properties" /\ PropertiesNext
     /\ UNCHANGED <<threadVars, samples, pivotVars, surpriseVars, rows>>
  \/ /\ \/ watched = "batch" /\ BatchNext
        \/ watched = "incremental" /\ IncrementalNext
     /\ UNCHANGED <<threadVars, samples, pivotVars, scorerVars, rows>>
  \/ /\ watched = "sequential" /\ SequentialNext
     /\ UNCHANGED <<threadVars, samples, pivotVars, scorerVars, surpriseVars>>

ObserversSpec == ObserversInit /\ [][ObserversNext]_observers

-----------------------------------------------------------------------------
\* A call was the first to close n, after m was opened, for the first time and
\* later than n, and before m was closed
ClosedWhileOpen(n, m) ==
  \E j, k, i \in DOMAIN past :
    /\ j < k /\ k < i
    /\ n \in past[j].opened /\ m \in past[k].opened /\ n \in past[i].closed
    /\ \A l \in 1..j : m \notin past[l].opened
    /\ \A l \in 1..(i - 1) : n \notin past[l].closed
    /\ \A l \in 1..i : m \notin past[l].closed

\* check_filo as it is documented: "Returns violations where a thread closed
\* while a later-opened thread was still open" (thread.rs).
FiloAsDocumented ==
  watched = "threads" =>
    \A n, m \in ThreadNames :
      ClosedWhileOpen(n, m) => [closed_thread |-> n, blocking_thread |-> m] \in Violations

\* The ticks before the i-th that had events
Eventful(i) == {j \in 1..(i - 1) : past[j] # NoCounts}

LastOf(S) == CHOOSE j \in S : \A k \in S : k <= j

\* The distance recorded for a tick is the one from the last tick that had
\* events, however many quiet ticks lie between; a quiet tick, and the first
\* with events, has distance zero (end_tick).
PivotSpansQuietTicks ==
  LET Expected(metric) ==
        [i \in DOMAIN past |->
          IF past[i] = NoCounts \/ Eventful(i) = {} THEN "zero"
          ELSE Distance(metric, past[LastOf(Eventful(i))], past[i])]
  IN  /\ watched = "pivot"      => history = Expected("JensenShannon")
      /\ watched = "divergence" => history = Expected("KullbackLeibler")

\* The two scorers see the same matches: a pattern's table is the sum of the
\* tables of its roles, and no pair was seen oftener than either property, nor
\* a property oftener than matches.
RolesAddUp ==
  \A n \in DOMAIN tables :
    LET t == tables[n]
        roles == {k \in DOMAIN role_tables : k[1] = n}
        Sum(w) == MapThenSumSet(LAMBDA k : w[k], roles)
    IN  /\ Sum([k \in roles |-> role_tables[k].total_matches]) = t.total_matches
        /\ \A p \in DOMAIN t.property_counts :
             /\ Sum([k \in roles |-> At(role_tables[k].property_counts, p, 0)])
                  = t.property_counts[p]
             /\ t.property_counts[p] <= t.total_matches
             /\ \A q \in DOMAIN t.property_counts \ {p} :
                  At(t.pair_counts, {p, q}, 0) <= t.property_counts[p]

\* Correcting for correlated properties never makes a match more surprising:
\* two properties that go together are one surprise, not two (correct_pmi).
PmiNeverAddsSurprise ==
  \A n \in DOMAIN tables, m \in MatchFacts :
    LET plain == Frequencies(tables[n], Unique(m.props))
        corrected == CorrectedFrequencies(tables[n], Unique(m.props))
    IN  \A i \in DOMAIN plain :
          ~Less(corrected[i], plain[i]) /\ ~Less(<<1, 1>>, corrected[i])

\* A match about which nothing is known has score 1, "maximally
\* unsurprising": no match scores above it, whether properties are counted by
\* pattern or by role, with the arithmetic mean and the minimum; with the
\* geometric mean only by role, where the product of the fractions tells (by
\* pattern the score is a root mixed with 1, which is not modelled).  With
\* "TfIdf" the scale goes the other way and 1 is no extreme of it.
NothingAboveUnobserved ==
  \A m \in MatchFacts :
    /\ Aggregation \in {"ArithmeticMean", "Min"} =>
         ~Less(Unobserved, StuScore(m.pattern, m.props))
    /\ Aggregation # "TfIdf" => ~Less(Unobserved, RoleScore(m.pattern, m.role, m.props))

\* What the scores of properties rest on, together.
ScoresAreConsistent == RolesAddUp /\ PmiNeverAddsSurprise /\ NothingAboveUnobserved

\* Batch and incremental feeding count the same thing: in how many rounds a
\* pattern matched, whatever the number of matches; only the first pattern of
\* a name is counted, and a round in progress is not a round yet.  Between the
\* rounds, what the surprise is the logarithm of is a probability over the
\* baseline: no pattern matched in more rounds than there were.
CountsRounds ==
  LET NamesIn(r) == IF watched = "batch" THEN ToSet(r) ELSE ToSet(r.names)
      over == IF watched = "batch" THEN DOMAIN past
              ELSE {k \in DOMAIN past : ~past[k].open}
  IN  watched \in {"batch", "incremental"} =>
        /\ total_rounds = Cardinality(over)
        /\ \A i \in DOMAIN PatternNames :
             Entry(counts, i, 0) =
               Cardinality({k \in DOMAIN past : \E n \in NamesIn(past[k]) : i \in IndexOf(n)})
        /\ over = DOMAIN past =>
             \A i \in DOMAIN baselines : \A p \in SurpriseFor(i) :
               p[1] * baselines[i][1] <= p[2] * baselines[i][2]

\* After a known predecessor the probabilities of its known successors sum to
\* one (observe_transition, transition_probability).
SuccessorsSumToOne ==
  \A p \in DOMAIN rows :
    LET succ   == DOMAIN rows[p].successors
        shares == [q \in succ |-> TransitionProbability(p, q)[1]]
    IN  MapThenSumSet(LAMBDA q : shares[q], succ)
          = TransitionProbability(p, CHOOSE q \in succ : TRUE)[2]

\* Both pattern scorers count what their probabilities are shares of.
SharesOfWhatWasSeen == CountsRounds /\ SuccessorsSumToOne
=============================================================================
