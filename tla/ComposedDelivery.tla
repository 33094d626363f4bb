-------------------------- MODULE ComposedDelivery --------------------------
(***************************************************************************)
(* What composed patterns mean, in terms of the matches of their parts,    *)
(* and whether the engine finds just those when events come in order.      *)
(* Setup >> Payoff, Offense * Count and Offense * Min..Max are registered, *)
(* in this order, by the modules that extend this one.                     *)
(***************************************************************************)
EXTENDS OrderedDelivery, Composition

CONSTANTS Setup, Payoff, Offense, Shared,  \* the parts, the variables shared
          Count, MinReps, MaxReps          \* MaxReps is {} or {max}

ComposedLibrary ==
  << SequenceOf(<<"arc">>, Setup, Payoff, Shared),
     RepeatOf(<<"strikes">>, Offense, Count, Shared),
     RepeatRangeOf(<<"spree">>, Offense, MinReps, MaxReps, Shared) >>

(***************************************************************************)
(* What a theorem asks of a part: the records the builder makes, of at     *)
(* least one stage, consecutive blocks, each stage about its event alone,  *)
(* and no negation.                                                        *)
(***************************************************************************)
IsSequence(q) == q \in Seq({q[i] : i \in DOMAIN q})

ClauseForm(c) ==
  /\ {"source", "label", "target", "negated"} \subseteq DOMAIN c
  /\ c.target.kind # "in" => c.target.kind = "bind" /\ {"kind", "var"} \subseteq DOMAIN c.target

PatternForm(p) ==
  /\ {"stages", "temporal", "negations", "unordered_groups"} \subseteq DOMAIN p
  /\ IsSequence(p.stages)
  /\ \A s \in DOMAIN p.stages :
       /\ IsSequence(p.stages[s].clauses)
       /\ \A k \in DOMAIN p.stages[s].clauses : ClauseForm(p.stages[s].clauses[k])
  /\ \A tc \in p.temporal : {"left", "right", "relation", "gap"} \subseteq DOMAIN tc

PartPattern(p) ==
  /\ PatternForm(p) /\ p.stages # << >> /\ p.negations = {}
  /\ BuiltPattern(p) /\ BlockPattern(p)
  /\ \A g \in p.unordered_groups : g \subseteq 1..StageCount(p)
  /\ \A tc \in p.temporal :
       {tc.left, tc.right} \subseteq {p.stages[s].anchor : s \in 1..StageCount(p)}
  /\ \A s \in 1..StageCount(p) :
       /\ AboutOneEvent(p.stages[s])
       /\ \A k \in 1..Len(p.stages[s].clauses) :
            p.stages[s].clauses[k].negated => p.stages[s].clauses[k].source = p.stages[s].anchor

\* ... and of the names: prefix keeps those of D apart, and x and y those of D
\* from those of E, the shared ones excepted
Apart(D, prefix) ==
  \A v, w \in D : Renamed(v, prefix, Shared) = Renamed(w, prefix, Shared) => v = w

ApartBut(D, E, x, y) ==
  \A v \in D, w \in E : Renamed(v, x, Shared) = Renamed(w, y, Shared) => v = w /\ v \in Shared

\* The names of the i-th repetition
Rep(i) == <<"rep", ToString(i - 1)>>

\* ... of the sequence
SequenceAsked ==
  /\ Library = ComposedLibrary
  /\ PartPattern(Setup) /\ PartPattern(Payoff)
  /\ Apart(PatternVars(Setup), <<"a">>) /\ Apart(PatternVars(Payoff), <<"b">>)
  /\ ApartBut(PatternVars(Setup), PatternVars(Payoff), <<"a">>, <<"b">>)

\* ... and of the repetition
RepeatAsked ==
  /\ Library = ComposedLibrary /\ Count \in Nat \ {0}
  /\ PartPattern(Offense)
  /\ \A s \in 1..StageCount(Offense) : Offense.stages[s].anchor \notin Shared
  /\ \A i \in 1..Count : Apart(PatternVars(Offense), Rep(i))
  /\ \A i, j \in 1..Count : i # j => ApartBut(PatternVars(Offense), PatternVars(Offense), Rep(i), Rep(j))

Occurrences(p) == {MatchOf(m) : m \in EvaluatePattern(graph, p, now)}

RenameKeys(f, prefix) ==
  [ y \in {Renamed(x, prefix, Shared) : x \in DOMAIN f} |->
      f[CHOOSE x \in DOMAIN f : Renamed(x, prefix, Shared) = y] ]

RenameMatch(m, prefix) ==
  [bindings |-> RenameKeys(m.bindings, prefix), intervals |-> RenameKeys(m.intervals, prefix)]

Both(m, n) == [ bindings  |-> Overlay(m.bindings, n.bindings),
                intervals |-> Overlay(m.intervals, n.intervals) ]

\* n wholly later than m, of the same shared entities
Continues(m, n) ==
  /\ \A x \in DOMAIN m.intervals, y \in DOMAIN n.intervals :
        m.intervals[x].start < n.intervals[y].start
  /\ \A x \in Shared \cap DOMAIN m.bindings \cap DOMAIN n.bindings :
        m.bindings[x] = n.bindings[x]

SequenceMeaning ==
  {Both(RenameMatch(mn[1], <<"a">>), RenameMatch(mn[2], <<"b">>)) :
     mn \in {x \in Occurrences(Setup) \X Occurrences(Payoff) : Continues(x[1], x[2])}}

\* Runs of n offenses, each continuing the one before
Runs(n) ==
  LET upTo[k \in 1..n] ==
        IF k = 1 THEN {<<m>> : m \in Occurrences(Offense)}
        ELSE UNION {{Append(r, m) : m \in {x \in Occurrences(Offense) : Continues(r[k - 1], x)}}
                    : r \in upTo[k - 1]}
  IN  upTo[n]

RepeatMeaning ==
  LET Match(r) ==
        LET upTo[k \in 1..Count] ==
              LET m == RenameMatch(r[k], Rep(k))
              IN  IF k = 1 THEN m ELSE Both(upTo[k - 1], m)
        IN  upTo[Count]
  IN  {Match(r) : r \in Runs(Count)}

\* Of a run the match shows the first offense, the last and their number; no
\* run has more offenses than there are events
RangeMeaning ==
  UNION {{[ rep |-> n,
            match |-> Both(RenameMatch(r[n], <<"last">>), RenameMatch(r[1], <<"first">>)) ]
          : r \in Runs(n)}
         : n \in {k \in MinReps..now : \A max \in MaxReps : k <= max}}

(***************************************************************************)
(* `a >> b` matches when and only when an occurrence of b follows one of a *)
(* with the same shared entities; `p * n` when n occurrences follow each   *)
(* other.                                                                  *)
(***************************************************************************)
SequenceMeansThen == Pending = {} => CompletedMatches(1) = SequenceMeaning

RepeatMeansTimes  == Pending = {} => CompletedMatches(2) = RepeatMeaning

(***************************************************************************)
(* `p * min..max` reports each run of min to max occurrences once: its     *)
(* first and last occurrence and its true length, whichever way the        *)
(* engine's loops went round in between.                                   *)
(***************************************************************************)
RangeMeansRuns ==
  Pending = {} =>
    {[rep |-> pm.repetition_count, match |-> MatchOf(pm)]
       : pm \in {m \in Complete : m.pattern_idx = 3}} = RangeMeaning
=============================================================================
