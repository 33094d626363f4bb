------------------------------- MODULE Sifting -------------------------------
(***************************************************************************)
(* Stateless evaluation (crates/fabula/src/engine/free.rs): one stage      *)
(* against one new edge, one stage against the whole graph, the temporal   *)
(* check, the two negation checks, batch evaluation and gap analysis.      *)
(*                                                                         *)
(* `g` is a graph, `now` its clock, `b` a binding map, `ivs` a map from    *)
(* stage anchors to intervals.  A function that may fail returns a set,    *)
(* empty on failure.                                                       *)
(***************************************************************************)
EXTENDS TemporalGraph, Patterns, TLC

NoBindings == [x \in {} |-> x]

\* A map of one entry; the entries of f, and those of g that f has not
Single(x, v)  == [y \in {x} |-> v]
Overlay(f, g) == [x \in DOMAIN f \cup DOMAIN g |-> IF x \in DOMAIN f THEN f[x] ELSE g[x]]

\* Bind a clause's target variable unless something already bound it
BindNew(target, value, b) ==
  IF target.kind = "bind" /\ target.var \notin DOMAIN b
  THEN Overlay(Single(target.var, value), b)
  ELSE b

(***************************************************************************)
(* try_match_stage: the first clause must be the new edge, every other is  *)
(* looked up in the graph at the new edge's start and binds from the first *)
(* edge that fits.  At most one extended binding map.                      *)
(***************************************************************************)
FirstClauseMatches(stage, e, b) ==
  LET c == stage.clauses[1]
  IN  /\ stage.clauses # << >>
      /\ c.label = e.label
      /\ BoundToNode(b, c.source) => b[c.source] = e.source
      /\ TargetAccepts(c.target, e.target, b)

FirstBindings(stage, e, b) ==
  LET c      == stage.clauses[1]
      anchor == Single(stage.anchor, e.source)
      source == IF c.source \in DOMAIN b THEN NoBindings ELSE Single(c.source, e.source)
      new    == Overlay(anchor, source)
  IN  IF c.target.kind = "bind" /\ c.target.var \in DOMAIN b
      THEN new ELSE BindNew(c.target, e.target, new)

LookupClause(g, c, b, at) ==
  LET hits == {i \in EdgesFrom(g, b[c.source], c.label, at) :
                 TargetAccepts(c.target, g[i].target, b)}
  IN  IF ~(BoundToNode(b, c.source) /\ Resolvable(c.target, b)) THEN {}
      ELSE IF c.negated THEN {x \in {b} : hits = {}}
      ELSE IF hits = {} THEN {} ELSE {BindNew(c.target, FirstOf(g, hits).target, b)}

TryMatchStage(g, stage, e, b) ==
  LET after[i \in 1..Len(stage.clauses)] ==
        IF i = 1 THEN {Overlay(FirstBindings(stage, e, b), b)}
        ELSE UNION {LookupClause(g, stage.clauses[i], m, e.interval.start) : m \in after[i - 1]}
  IN  IF FirstClauseMatches(stage, e, b) THEN after[Len(stage.clauses)] ELSE {}

(***************************************************************************)
(* find_stage_matches: the stage against every edge the clock covers.      *)
(* When the first clause's source is already bound the anchor is not, and  *)
(* when it is not bound a bound target variable is overwritten.            *)
(***************************************************************************)
FirstCandidates(g, stage, b, now) ==
  LET c == stage.clauses[1]
  IN  IF ~Resolvable(c.target, b) THEN {}
      ELSE IF c.source \in DOMAIN b
      THEN {<<BindNew(c.target, e.target, NoBindings), e.interval>> :
              e \in {x \in Scan(g, c.label, now) :
                       /\ BoundToNode(b, c.source) /\ x.source = b[c.source]
                       /\ TargetAccepts(c.target, x.target, b)}}
      ELSE {<<BindNew(c.target, e.target, [x \in {c.source, stage.anchor} |-> e.source]),
              e.interval>> :
              e \in {x \in Scan(g, c.label, now) :
                       /\ ConstraintAccepts(c.target, x.target, b)
                       /\ c.target.kind = "bind" /\ c.target.var \in {c.source, stage.anchor}
                            => x.target = x.source}}

\* clause_satisfied, then the binding of the first edge found, fitting or not
SatisfyClause(g, c, b, now) ==
  LET edges == EdgesFrom(g, b[c.source], c.label, now)
      found == \E i \in edges : TargetAccepts(c.target, g[i].target, b)
  IN  IF ~BoundToNode(b, c.source) \/ found = c.negated THEN {}
      ELSE {IF edges = {} THEN b ELSE BindNew(c.target, FirstOf(g, edges).target, b)}

RestSatisfied(g, stage, b, now) ==
  LET after[i \in 1..Len(stage.clauses)] ==
        IF i = 1 THEN {b}
        ELSE UNION {SatisfyClause(g, stage.clauses[i], m, now) : m \in after[i - 1]}
  IN  after[Len(stage.clauses)]

\* Pairs of an extended binding map and the interval the anchor matched at
FindStageMatches(g, stage, b, now) ==
  IF stage.clauses = << >> THEN {}
  ELSE UNION {{<<m, new[2]>> : m \in RestSatisfied(g, stage, Overlay(new[1], b), now)}
              : new \in FirstCandidates(g, stage, b, now)}

(***************************************************************************)
(* check_temporal: stages of a segment start before those of the next, and *)
(* every explicit constraint holds.  An Allen relation between intervals   *)
(* one of which is open-ended is undecided: Before and Meets then fall     *)
(* back on the starts, the others fail.                                    *)
(***************************************************************************)
StagesOrdered(p, ivs) ==
  \A s, t \in 1..StageCount(p) :
    LET x == p.stages[s].anchor
        y == p.stages[t].anchor
    IN  NextSegment(p, s, t) /\ {x, y} \subseteq DOMAIN ivs => ivs[x].start < ivs[y].start

ConstraintHolds(tc, ivs) ==
  LET l   == ivs[tc.left]
      r   == ivs[tc.right]
      rel == Relation(l, r)
  IN  {tc.left, tc.right} \subseteq DOMAIN ivs =>
        /\ \/ rel = {tc.relation}
           \/ rel = {} /\ tc.relation \in BeforeOrMeets /\ l.start < r.start
        /\ \A gap \in tc.gap, d \in Gap(l, r, tc.relation) :
             (\A m \in gap.min : m <= d) /\ (\A m \in gap.max : d <= m)

CheckTemporal(p, ivs) ==
  StagesOrdered(p, ivs) /\ \A tc \in p.temporal : ConstraintHolds(tc, ivs)

(***************************************************************************)
(* check_negation_kill: does the new edge complete a negation whose window *)
(* is open, that is, whose start is matched and whose end is not?  Any     *)
(* clause may be the one the edge matches; the others must already hold.   *)
(***************************************************************************)
\* Fault: the other clauses of a negation are not looked up
OtherIgnored(g, now, b, c, e, other) == TRUE

\* Fault: ... or only from variables the match binds, not from the edge's source
OtherHoldsIfBound(g, now, b, c, e, other) ==
  /\ BoundToNode(b, other.source)
  /\ \E x \in Scan(g, other.label, now) :
        x.source = b[other.source] /\ TargetAccepts(other.target, x.target, b)

OtherHolds(g, now, b, c, e, other) ==
  LET sameSource == other.source = c.source
      src        == IF sameSource THEN e.source ELSE b[other.source]
  IN  /\ sameSource \/ BoundToNode(b, other.source)
      /\ \E x \in Scan(g, other.label, now) :
            x.source = src /\ TargetAccepts(other.target, x.target, b)

NegationTriggered(g, now, neg, b, e) ==
  \E i \in DOMAIN neg.clauses :
    LET c == neg.clauses[i]
    IN  /\ c.label = e.label
        /\ TargetAccepts(c.target, e.target, b)
        /\ BoundToNode(b, c.source) => b[c.source] = e.source
        /\ \A j \in DOMAIN neg.clauses \ {i} : OtherHolds(g, now, b, c, e, neg.clauses[j])

\* Fault: an event of the instant at which the window began is taken for inside
KillFromStart(g, now, p, b, ivs, e) ==
  \E neg \in p.negations :
    /\ neg.between_start \in DOMAIN ivs
    /\ neg.between_end \cap DOMAIN ivs = {}
    /\ ivs[neg.between_start].start <= e.interval.start
    /\ NegationTriggered(g, now, neg, b, e)

CheckNegationKill(g, now, p, b, ivs, e) ==
  \E neg \in p.negations :
    /\ neg.between_start \in DOMAIN ivs
    /\ neg.between_end \cap DOMAIN ivs = {}
    /\ ivs[neg.between_start].start < e.interval.start
    /\ NegationTriggered(g, now, neg, b, e)

(***************************************************************************)
(* check_negations_batch: no edge of the graph, whenever it started,       *)
(* satisfies a negation strictly inside its window.  The source of the     *)
(* first clause and a variable it binds are not joined with the match.     *)
(***************************************************************************)
\* Fault: ... and one of the instant at which it ended
InWindowToEnd(neg, ivs, iv) ==
  /\ ivs[neg.between_start].start < iv.start
  /\ \A x \in neg.between_end \cap DOMAIN ivs : iv.start <= ivs[x].start

InWindow(neg, ivs, iv) ==
  /\ ivs[neg.between_start].start < iv.start
  /\ \A x \in neg.between_end \cap DOMAIN ivs : iv.start < ivs[x].start

NegationFound(g, now, neg, b, ivs) ==
  LET first == neg.clauses[1]
      Rest  == 2..Len(neg.clauses)
  IN  /\ neg.between_start \in DOMAIN ivs /\ neg.clauses # << >>
      /\ Resolvable(first.target, b)
      /\ \E x \in ScanAnyTime(g, first.label) :
           /\ ConstraintAccepts(first.target, x.target, b)
           /\ InWindow(neg, ivs, x.interval)
           /\ \A j \in Rest :
                /\ neg.clauses[j].source = first.source
                /\ \E y \in Scan(g, neg.clauses[j].label, now) :
                      y.source = x.source /\ TargetAccepts(neg.clauses[j].target, y.target, b)

CheckNegationsBatch(g, now, p, b, ivs) ==
  \A neg \in p.negations : ~NegationFound(g, now, neg, b, ivs)

(***************************************************************************)
(* evaluate_pattern_at: every complete match of the pattern in the graph.  *)
(* Groups hold consecutive stages, so the cascade is over stages 1, 2, ... *)
(***************************************************************************)
StageCascade(g, p, now) ==
  LET upTo[s \in 0..StageCount(p)] ==
        IF s = 0 THEN {[bindings |-> NoBindings, intervals |-> NoBindings]}
        ELSE UNION {{[bindings  |-> new[1],
                      intervals |-> Overlay(Single(p.stages[s].anchor, new[2]), m.intervals)]
                     : new \in FindStageMatches(g, p.stages[s], m.bindings, now)}
                    : m \in upTo[s - 1]}
  IN  upTo[StageCount(p)]

EvaluatePattern(g, p, now) ==
  IF p.stages = << >> THEN {}
  ELSE {m \in StageCascade(g, p, now) :
          /\ CheckTemporal(p, m.intervals)
          /\ CheckNegationsBatch(g, now, p, m.bindings, m.intervals)}

(***************************************************************************)
(* gap_analysis_at and analyze_clause: why a pattern has not matched       *)
(* (GapAnalysis in types.rs).                                              *)
(***************************************************************************)

\* analyze_clause: whether it matched, and if not why
AnalyzeClause(g, c, b, now) ==
  LET hits  == EdgesFrom(g, b[c.source], c.label, now)
      found == \E i \in hits : TargetAccepts(c.target, g[i].target, b)
      Result(matched, reason) == [matched |-> matched, reason |-> reason]
  IN  CASE c.source \notin DOMAIN b -> Result(FALSE, "not bound")
        [] c.source \in DOMAIN b /\ ~BoundToNode(b, c.source) -> Result(FALSE, "bound to a value")
        [] OTHER ->
             IF found # c.negated THEN Result(TRUE, "")
             ELSE Result(FALSE, IF c.negated THEN "edge exists"
                                ELSE IF hits = {} THEN "no edges" ELSE "no target fits")

\* One stage, under the binding map; the map of a gap analysis stays empty
AnalyzeStage(g, stage, b, now) ==
  LET clauses == [i \in DOMAIN stage.clauses |-> AnalyzeClause(g, stage.clauses[i], b, now)]
      matched == Cardinality({i \in DOMAIN clauses : clauses[i].matched})
  IN  [ anchor |-> stage.anchor, clauses |-> clauses, matched |-> matched,
        status |-> IF matched = Len(clauses) THEN "Matched"
                   ELSE IF matched > 0 THEN "PartiallyMatched" ELSE "Unmatched" ]

\* gap_analysis_at: up to the first stage that did not match
GapOf(g, p, now) ==
  LET stages == [s \in DOMAIN p.stages |-> AnalyzeStage(g, p.stages[s], NoBindings, now)]
      failed == {s \in DOMAIN stages : stages[s].status # "Matched"}
  IN  IF failed = {} THEN stages
      ELSE SubSeq(stages, 1, CHOOSE s \in failed : \A t \in failed : s <= t)

\* why_not: of the first pattern of this name, if there is one
WhyNot(g, patterns, name, now) ==
  LET named == {i \in DOMAIN patterns : patterns[i].name = name}
  IN  {GapOf(g, patterns[i], now) : i \in {k \in named : \A j \in named : k <= j}}

\* GapAnalysis::closeness, as a fraction; 0 without clauses
Closeness(gap) ==
  LET Sum(f(_)) == LET upTo[s \in 0..Len(gap)] == IF s = 0 THEN 0 ELSE upTo[s - 1] + f(gap[s])
                   IN  upTo[Len(gap)]
      total == Sum(LAMBDA s : Len(s.clauses))
  IN  IF total = 0 THEN <<0, 1>> ELSE <<Sum(LAMBDA s : s.matched), total>>
=============================================================================
