---------------------------- MODULE PatternScorer ---------------------------
(***************************************************************************)
(* Surprise by patterns: SurpriseScorer (crates/fabula/src/scoring/        *)
(* surprise.rs), which counts in how many rounds a pattern matched, and    *)
(* SequentialScorer (sequential.rs), which counts which pattern follows    *)
(* which.  Scores are minus the logarithm of a probability, kept here as   *)
(* the fraction <<numerator, denominator>>.                                *)
(***************************************************************************)
EXTENDS Integers, Sequences, FiniteSets

CONSTANT PatternNames   \* names of the engine's patterns, in order; may repeat

VARIABLES baselines,    \* pattern index -> fraction in (0, 1]
          counts, total_rounds,
          rows          \* predecessor -> [total, successors]

surpriseVars == <<baselines, counts, total_rounds>>

NoEntry == [x \in {} |-> 0]

PatternScorerInit == baselines = NoEntry /\ counts = NoEntry /\ total_rounds = 0 /\ rows = NoEntry

Entry(f, k, default) == IF k \in DOMAIN f THEN f[k] ELSE default
SetEntry(f, k, v)    == [x \in DOMAIN f \cup {k} |-> IF x = k THEN v ELSE f[x]]

\* The first pattern of a name, as a set
IndexOf(n) == {i \in DOMAIN PatternNames : /\ PatternNames[i] = n
                                           /\ \A j \in 1..(i - 1) : PatternNames[j] # n}

\* set_baseline
SetBaseline(i, b) == baselines' = SetEntry(baselines, i, b) /\ UNCHANGED <<counts, total_rounds>>

\* Fault: every match counts
EachMatch(names, i) == Cardinality({k \in DOMAIN names : i \in IndexOf(names[k])})

\* A pattern counts once a round, however many matches it has
OncePerRound(names, i) == IF \E k \in DOMAIN names : i \in IndexOf(names[k]) THEN 1 ELSE 0

\* observe: `names` are those of the matches' patterns
Observe(names) ==
  LET seen == UNION {IndexOf(names[k]) : k \in DOMAIN names}
  IN  /\ total_rounds' = total_rounds + 1
      /\ counts' = [i \in DOMAIN counts \cup seen |-> Entry(counts, i, 0) + OncePerRound(names, i)]
      /\ UNCHANGED baselines

\* observe_events: `names` are those of the completions, each counts
ObserveEvents(names) ==
  LET seen == UNION {IndexOf(names[k]) : k \in DOMAIN names}
  IN  /\ counts' = [i \in DOMAIN counts \cup seen |->
                     Entry(counts, i, 0) + Cardinality({k \in DOMAIN names : i \in IndexOf(names[k])})]
      /\ UNCHANGED <<baselines, total_rounds>>

\* tick
TickRound == total_rounds' = total_rounds + 1 /\ UNCHANGED <<baselines, counts>>

\* reset_counts
ResetCounts == counts' = NoEntry /\ total_rounds' = 0 /\ UNCHANGED baselines

Probability(i) == <<Entry(counts, i, 0) + 1, total_rounds + 1>>

\* surprise_for: the probability over the baseline, {} without a baseline
SurpriseFor(i) ==
  {<<Probability(i)[1] * baselines[j][2], Probability(i)[2] * baselines[j][1]>>
     : j \in DOMAIN baselines \cap {i}}

\* Fault: the row's total counts successors, not transitions
TotalOfKinds(row, next) ==
  [ total |-> Cardinality(DOMAIN row.successors \cup {next}),
    successors |-> SetEntry(row.successors, next, Entry(row.successors, next, 0) + 1) ]

Follow(row, next) ==
  [ total |-> row.total + 1,
    successors |-> SetEntry(row.successors, next, Entry(row.successors, next, 0) + 1) ]

\* observe_transition
ObserveTransition(prev, next) ==
  rows' = SetEntry(rows, prev, Follow(Entry(rows, prev, [total |-> 0, successors |-> NoEntry]), next))

\* transition_probability, for a known predecessor
TransitionProbability(prev, next) ==
  << Entry(rows[prev].successors, next, 0) + 1,
     rows[prev].total + Cardinality(DOMAIN rows[prev].successors) >>

\* reset of the sequential scorer
ResetRows == rows' = NoEntry
=============================================================================
