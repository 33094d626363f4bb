--------------------------- MODULE PropertyScorer ---------------------------
(***************************************************************************)
(* Surprise by properties of matches: StuScorer (crates/fabula/src/scoring *)
(* /stu.rs) and its role-conditioned variant (role_conditioned.rs), fed    *)
(* with the same matches.                                                  *)
(*                                                                         *)
(* Frequencies are fractions <<numerator, denominator>>.  A score is kept  *)
(* as a fraction that is lower for more surprise: for TfIdf, whose score   *)
(* is -log2 of it, and for the geometric mean, a root of it, the product   *)
(* of the frequencies.  A pair of properties is the set of the two.        *)
(***************************************************************************)
EXTENDS Integers, Sequences, FiniteSets, SequencesExt, FiniteSetsExt

CONSTANTS PmiCorrection,   \* pmi_correction
          Aggregation      \* aggregation

ASSUME ScorerAssumption ==
  PmiCorrection \in BOOLEAN /\ Aggregation \in {"ArithmeticMean", "TfIdf", "GeometricMean", "Min"}

VARIABLES tables,        \* StuScorer: pattern -> PropertyTable
          role_tables    \* RoleConditionedStuScorer: <<pattern, role>> -> PropertyTable

scorerVars == <<tables, role_tables>>

NoneYet  == [x \in {} |-> 0]
NewTable == [total_matches |-> 0, property_counts |-> NoneYet, pair_counts |-> NoneYet]

ScorerInit == tables = NoneYet /\ role_tables = NoneYet

At(f, k, default) == IF k \in DOMAIN f THEN f[k] ELSE default

\* `f` with one more for each member of S
OneMore(f, S) == [k \in DOMAIN f \cup S |-> At(f, k, 0) + (IF k \in S THEN 1 ELSE 0)]

\* Fault: a property listed twice counts twice
Listed(t, props, pairs) ==
  [ total_matches   |-> t.total_matches + 1,
    property_counts |-> [k \in DOMAIN t.property_counts \cup ToSet(props) |->
                          At(t.property_counts, k, 0) + Len(SelectSeq(props, LAMBDA q : q = k))],
    pair_counts     |-> OneMore(t.pair_counts, pairs) ]

\* observe_one on a table: presence, not multiplicity
Observed(t, props, pairs) ==
  [ total_matches   |-> t.total_matches + 1,
    property_counts |-> OneMore(t.property_counts, ToSet(props)),
    pair_counts     |-> OneMore(t.pair_counts, pairs) ]

PairsOf(props) == IF PmiCorrection THEN kSubset(2, ToSet(props)) ELSE {}

\* Fault: the role's table is started anew
Restarted(f, k, t) == IF k \in DOMAIN f THEN [f EXCEPT ![k] = Observed(NewTable, << >>, {})]
                      ELSE [x \in DOMAIN f \cup {k} |-> IF x = k THEN t ELSE f[x]]

Updated(f, k, t) == [x \in DOMAIN f \cup {k} |-> IF x = k THEN t ELSE f[x]]

\* observe_one of both scorers, for a match of `pattern` by an actor in `role`
ObserveMatch(pattern, role, props) ==
  /\ tables' = Updated(tables, pattern,
                       Observed(At(tables, pattern, NewTable), props, PairsOf(props)))
  /\ role_tables' = Updated(role_tables, <<pattern, role>>,
                            Observed(At(role_tables, <<pattern, role>>, NewTable), props, {}))

\* reset of both
ScorerReset == tables' = NoneYet /\ role_tables' = NoneYet

Less(f, g) == f[1] * g[2] < g[1] * f[2]

\* Fault: the smoothing is left out below the line
HalfSmoothed(t, prop) == << At(t.property_counts, prop, 0) + 1, t.total_matches >>

\* property_frequency, smoothed
Frequency(t, prop) ==
  << At(t.property_counts, prop, 0) + 1, t.total_matches + Cardinality(DOMAIN t.property_counts) >>

\* More than one bit of mutual information, on the unsmoothed frequencies
Correlated(t, a, b) ==
  /\ At(t.pair_counts, {a, b}, 0) > 0
  /\ t.pair_counts[{a, b}] * t.total_matches > 2 * t.property_counts[a] * t.property_counts[b]

\* Of two correlated properties the less rare gets its frequency given the other
CorrectPair(t, props, f, i, j) ==
  LET a == props[i]  b == props[j]
  IN  IF ~Correlated(t, a, b) THEN f
      ELSE IF Less(f[j], f[i])
           THEN [f EXCEPT ![i] = <<t.pair_counts[{a, b}], t.property_counts[b]>>]
           ELSE [f EXCEPT ![j] = <<t.pair_counts[{a, b}], t.property_counts[a]>>]

\* The properties that are scored: the first of each that is listed
Unique(props) ==
  FoldLeft(LAMBDA seen, p : IF Contains(seen, p) THEN seen ELSE Append(seen, p), << >>, props)

Frequencies(t, props) == [i \in DOMAIN props |-> Frequency(t, props[i])]

\* The two nested loops over the pairs of places; that no frequency needs to be
\* clamped to 1, as the code does, is part of PmiNeverAddsSurprise
CorrectedRow(t, props, f, i) ==
  FoldLeftDomain(LAMBDA g, j : IF i < j THEN CorrectPair(t, props, g, i, j) ELSE g, f, props)
CorrectedFrequencies(t, props) ==
  IF PmiCorrection
  THEN FoldLeftDomain(LAMBDA f, i : CorrectedRow(t, props, f, i), Frequencies(t, props), props)
  ELSE Frequencies(t, props)

Product(f) == FoldLeft(LAMBDA x, y : <<x[1] * y[1], x[2] * y[2]>>, <<1, 1>>, f)
FractionSum(f) == FoldLeft(LAMBDA x, y : <<x[1] * y[2] + y[1] * x[2], x[2] * y[2]>>, <<0, 1>>, f)

\* aggregate
Aggregate(f) ==
  CASE Aggregation = "ArithmeticMean" -> <<FractionSum(f)[1], Len(f) * FractionSum(f)[2]>>
    [] Aggregation = "Min" -> CHOOSE m \in ToSet(f) : \A x \in ToSet(f) : ~Less(x, m)
    [] Aggregation \in {"TfIdf", "GeometricMean"} -> Product(f)

\* The score 1.0 of a match about which nothing is known
Unobserved == IF Aggregation = "TfIdf" THEN <<1, 2>> ELSE <<1, 1>>

\* Cold-start attenuation, for the aggregations whose score is the fraction
\* itself: n of n + 1 parts of the score, one part of 1
Attenuated(t, s) ==
  << s[2] + t.total_matches * s[1], (t.total_matches + 1) * s[2] >>

\* score of StuScorer, for "ArithmeticMean" and "Min"
StuScore(pattern, props) ==
  IF props = << >> \/ pattern \notin DOMAIN tables THEN Unobserved
  ELSE Attenuated(tables[pattern],
                  Aggregate(CorrectedFrequencies(tables[pattern], Unique(props))))

\* score of RoleConditionedStuScorer: neither correction nor attenuation
RoleScore(pattern, role, props) ==
  IF props = << >> \/ <<pattern, role>> \notin DOMAIN role_tables THEN Unobserved
  ELSE Aggregate(Frequencies(role_tables[<<pattern, role>>], Unique(props)))
=============================================================================
