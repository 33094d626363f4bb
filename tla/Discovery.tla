------------------------------ MODULE Discovery ------------------------------
(***************************************************************************)
(* Pattern discovery (crates/fabula-discovery): a corpus is recorded, a    *)
(* generator proposes patterns, evaluators score them, a filter keeps some *)
(* and the scores go back to the generator, for a number of rounds.        *)
(* MinerfulGenerator is modelled whole; any other CandidateGenerator, from *)
(* outside, proposes whatever it likes within the budget.                  *)
(*                                                                         *)
(* Scores are kept as far as a filter that keeps what any evaluator scored *)
(* above nothing can tell them apart: a score is the set of the evaluators *)
(* whose value is positive.                                                *)
(*                                                                         *)
(* A corpus is the sequence of its edges, in insertion order; an edge is a *)
(* record [source, label, target, interval].  Its three indices answer     *)
(* what a selection from that sequence answers.                            *)
(***************************************************************************)
EXTENDS Sifting, SequencesExt

CONSTANTS
  CorpusEdges,      \* edges a simulation may leave behind
  LabelOrder,       \* the labels, sorted
  MinSupport,       \* a fraction <<n, d>>
  MinConfidence,
  Budget,           \* candidates_per_round
  MaxRounds,
  Proposals,        \* patterns another generator may propose
  MaxEdges

ASSUME DiscoveryAssumption ==
  /\ Budget \in Nat /\ MaxRounds \in Nat /\ MaxEdges \in Nat
  /\ {e.label : e \in CorpusEdges} \subseteq ToSet(LabelOrder)
  /\ \A e \in CorpusEdges :
       /\ e = [source |-> e.source, label |-> e.label, target |-> e.target, interval |-> e.interval]
       /\ e.source \in Nodes
  /\ MinSupport[2] > 0 /\ MinConfidence[2] > 0

\* What a theorem asks of the edges: they do not end before they have begun,
\* which Interval::new does not see to
ProperEdges ==
  \A e \in CorpusEdges :
    /\ e.interval.start \in Int
    /\ \A t \in e.interval.end : t \in Int /\ e.interval.end = {t} /\ e.interval.start < t

-----------------------------------------------------------------------------
(* The corpus (corpus.rs)                                                  *)

\* edges_with_label, as the positions of the edges
WithLabel(c, label) == {i \in DOMAIN c : c[i].label = label}

Labels(c) == {c[i].label : i \in DOMAIN c}

\* TraceCorpus::time_range: an open-ended edge ends where it starts
TimeRange(c) ==
  LET starts == {c[i].interval.start : i \in DOMAIN c}
      ends   == {IF IsBounded(c[i].interval) THEN EndOf(c[i].interval) ELSE c[i].interval.start
                 : i \in DOMAIN c}
  IN  IF c = << >> THEN <<0, 0>> ELSE <<Min(starts), Max(ends)>>

\* TraceCorpus::split_at
SplitAt(c, t) ==
  << FoldLeft(LAMBDA s, e : IF e.interval.start < t THEN Append(s, e) ELSE s, << >>, c),
     FoldLeft(LAMBDA s, e : IF e.interval.start < t THEN s ELSE Append(s, e), << >>, c) >>

\* TraceCorpus::label_pairs: both orders of every two labels
LabelPairs(c) == {pair \in Labels(c) \X Labels(c) : pair[1] # pair[2]}

\* How two edges share a node: the first way that holds, {} when they do not
SharedNode(a, b) ==
  CASE a.source = b.source -> {"Source"}
    [] a.source # b.source /\ a.source = b.target -> {"SourceTarget"}
    [] a.source \notin {b.source, b.target} /\ a.target = b.source -> {"TargetSource"}
    [] a.source \notin {b.source, b.target} /\ a.target # b.source /\ a.target = b.target -> {"Target"}
    [] OTHER -> {}

RelationAt(c, h) == Relation(c[h[1]].interval, c[h[2]].interval)

\* TraceCorpus::pairwise_relations: edges that share a node and whose
\* intervals have a relation, as the positions of the first and the second
PairwiseRelations(c, label_a, label_b) ==
  {h \in WithLabel(c, label_a) \X WithLabel(c, label_b) :
     SharedNode(c[h[1]], c[h[2]]) # {} /\ RelationAt(c, h) # {}}

\* A loop within a loop comes to x before y, or they are the same
ComesFirst(x, y) == x[1] < y[1] \/ (x[1] = y[1] /\ x[2] <= y[2])

FirstHit(hits) == CHOOSE h \in hits : \A g \in hits : ComesFirst(h, g)

InRelation(c, hits, relation) == {h \in hits : RelationAt(c, h) = {relation}}

-----------------------------------------------------------------------------
(* The session                                                             *)

VARIABLES
  corpus,
  miner,        \* [minerful, generated]: which generator, and whether it has mined
  rounds,       \* rounds_run
  over,         \* the generator had nothing to propose
  pending,      \* candidates of this round not yet evaluated
  round_scored, all_scored, accepted,
  told          \* what feedback handed back, all rounds together

discoveryVars == <<corpus, miner, rounds, over, pending, round_scored, all_scored, accepted, told>>

AtLeast(n, d, min) == n * min[2] >= d * min[1]

-----------------------------------------------------------------------------
(***************************************************************************)
(* MinerfulGenerator::generate.  A statistic counts how often two labels   *)
(* meet in one Allen relation; its shared node is that of the first time.  *)
(***************************************************************************)
\* Fault: the shared node is that of the pair's first meeting
FirstMeeting(c, hits, relation) ==
  CHOOSE n \in SharedNode(c[FirstHit(hits)[1]], c[FirstHit(hits)[2]]) : TRUE

ExampleOf(c, hits, relation) ==
  LET h == FirstHit(InRelation(c, hits, relation))
  IN  CHOOSE n \in SharedNode(c[h[1]], c[h[2]]) : TRUE

PairStats(c, pair) ==
  LET hits == PairwiseRelations(c, pair[1], pair[2])
      Count(r) == Cardinality(InRelation(c, hits, r))
  IN  IF hits = {} \/ ~AtLeast(Cardinality(hits), Len(c), MinSupport) THEN {}
      ELSE {[ label_a |-> pair[1], label_b |-> pair[2], relation |-> r, count |-> Count(r),
              total_pair |-> Cardinality(hits), shared_node |-> ExampleOf(c, hits, r) ]
            : r \in {q \in UNION {RelationAt(c, h) : h \in hits} :
                       AtLeast(Count(q), Cardinality(hits), MinConfidence)}}

\* count * (count / total_pair), the interest of x against that of y
MoreInteresting(x, y) == x.count * x.count * y.total_pair > y.count * y.count * x.total_pair

\* The sort is stable and pairs come in the order of their labels, but the
\* relations of one pair come out of a hash map: every order that agrees is
\* possible.
Stats(c) == UNION {PairStats(c, pair) : pair \in LabelPairs(c)}

Rankings(c) ==
  LET Place(label) == CHOOSE k \in DOMAIN LabelOrder : LabelOrder[k] = label
      Places(s) == <<Place(s.label_a), Place(s.label_b)>>
      Precedes(x, y) == \/ MoreInteresting(x, y)
                        \/ ~MoreInteresting(y, x) /\ ComesFirst(Places(x), Places(y))
  IN  {order \in SetToSeqs(Stats(c)) :
         \A i, j \in DOMAIN order : i < j => Precedes(order[i], order[j])}

\* build_pattern
EndsOf(shared_node) ==
  CASE shared_node = "Source"       -> <<"actor", "target_a", "actor", "target_b">>
    [] shared_node = "SourceTarget" -> <<"actor", "target_a", "source_b", "actor">>
    [] shared_node = "TargetSource" -> <<"source_a", "actor", "actor", "target_b">>
    [] shared_node = "Target"       -> <<"source_a", "actor", "source_b", "actor">>

BuildPattern(idx, s) ==
  LET v == EndsOf(s.shared_node)
  IN  [Plain(<<idx, s.label_a, s.label_b>>,
             <<Stage("e1", <<Clause(v[1], s.label_a, Bind(v[2]))>>),
               Stage("e2", <<Clause(v[3], s.label_b, Bind(v[4]))>>)>>)
       EXCEPT !.temporal = {[left |-> "e1", relation |-> s.relation, right |-> "e2", gap |-> {}]}]

\* The possible results of a call of generate
Generated(c) ==
  IF ~miner.minerful THEN UNION {[1..n -> Proposals] : n \in 0..Budget}
  ELSE IF miner.generated \/ c = << >> THEN {<< >>}
  ELSE {[i \in 1..Min({Budget, Len(order)}) |-> BuildPattern(i, order[i])] : order \in Rankings(c)}

-----------------------------------------------------------------------------
\* Fault: the copy keeps the ends of the edges
CopyWithEnds(c) == c

\* corpus_to_memgraph: every edge open-ended
CorpusGraph(c) == [i \in DOMAIN c |-> [c[i] EXCEPT !.interval = Open(@.start)]]

MatchCount(p, c) == Cardinality(EvaluatePattern(CorpusGraph(c), p, TimeRange(c)[2] + 1))

\* MatchQualityEvaluator: matches of more than half the corpus score less the
\* more there are, fewer score the logarithm of their number: one scores 0
HasQuality(p, c) ==
  LET n == MatchCount(p, c) IN n > 0 /\ (2 * n > Len(c) \/ n > 1)

\* Fault: only edges of the same source meet
MeetAtSource(a, b) == a.source = b.source

Touches(a, b) == {a.source, a.target} \cap {b.source, b.target} # {}

\* SurpriseEvaluator: edges of the first stage's label that share a node with
\* one of every other stage's, against how common the labels are
CoOccurrence(p, c) ==
  LET At(k) == WithLabel(c, p.stages[k].clauses[1].label)
      Met(i, k) == \E j \in At(k) : Touches(c[i], c[j])
  IN  Cardinality({i \in At(1) : \A k \in 2..StageCount(p) : Met(i, k)})

HasSurprise(p, c) ==
  LET freqs == {Cardinality(WithLabel(c, p.stages[k].clauses[1].label)) : k \in 1..StageCount(p)}
  IN  c # << >> /\ p.stages # << >> /\ 0 \notin freqs /\ CoOccurrence(p, c) > 0 /\ freqs # {Len(c)}

Scores(p, c) == {x \in {"match_quality", "surprise"} :
                   IF x = "surprise" THEN HasSurprise(p, c) ELSE HasQuality(p, c)}

\* ThresholdFilter, at a threshold no larger than any positive score
Accept(scored) == scored.scores # {}

-----------------------------------------------------------------------------
DiscoveryInit ==
  /\ corpus = << >> /\ rounds = 0 /\ over = FALSE
  /\ miner \in [minerful : BOOLEAN, generated : {FALSE}]
  /\ pending = << >> /\ round_scored = << >> /\ all_scored = << >>
  /\ accepted = << >> /\ told = << >>

Started == rounds > 0 \/ over

\* The simulation leaves an edge; the session has not begun.
Record ==
  /\ ~Started /\ Len(corpus) < MaxEdges
  /\ \E e \in CorpusEdges : corpus' = Append(corpus, e)
  /\ UNCHANGED <<miner, rounds, over, pending, round_scored, all_scored, accepted, told>>

\* The earlier part is kept to mine, the later to validate.
HoldOut ==
  /\ ~Started
  /\ \E t \in {corpus[i].interval.start : i \in DOMAIN corpus} : corpus' = SplitAt(corpus, t)[1]
  /\ UNCHANGED <<miner, rounds, over, pending, round_scored, all_scored, accepted, told>>

Idle == pending = << >> /\ round_scored = << >>

\* The head of the loop of DiscoverySession::run.  No candidates end the run.
StartRound ==
  /\ Idle /\ ~over /\ rounds < MaxRounds
  /\ pending' \in Generated(corpus)
  /\ miner' = [miner EXCEPT !.generated = miner.minerful]
  /\ over' = (pending' = << >>)
  /\ rounds' = IF over' THEN rounds ELSE rounds + 1
  /\ UNCHANGED <<corpus, round_scored, all_scored, accepted, told>>

\* One candidate is evaluated and, if the filter says so, kept.
EvaluateCandidate ==
  /\ pending # << >>
  /\ LET scored == [pattern |-> Head(pending), round |-> rounds - 1, scores |-> Scores(Head(pending), corpus)]
     IN  /\ accepted' = IF Accept(scored) THEN Append(accepted, scored) ELSE accepted
         /\ round_scored' = Append(round_scored, scored)
  /\ pending' = Tail(pending)
  /\ UNCHANGED <<corpus, miner, rounds, over, all_scored, told>>

\* The round's results go to the generator and into the history.
EndRound ==
  /\ pending = << >> /\ round_scored # << >>
  /\ told' = told \o round_scored
  /\ all_scored' = all_scored \o round_scored
  /\ round_scored' = << >>
  /\ UNCHANGED <<corpus, miner, rounds, over, pending, accepted>>

DiscoveryNext == Record \/ HoldOut \/ StartRound \/ EvaluateCandidate \/ EndRound

DiscoverySpec == DiscoveryInit /\ [][DiscoveryNext]_discoveryVars

-----------------------------------------------------------------------------
Candidates == {s.pattern : s \in ToSet(all_scored \o round_scored)} \cup ToSet(pending)
Mined      == IF miner.minerful THEN Candidates ELSE {}

RelationOf(p) == (CHOOSE tc \in p.temporal : TRUE).relation

\* Two edges read as the two stages of a mined pattern: the same variable
\* stands for the same node, and the intervals are related as it says.
Reads(p, a, b) ==
  LET ca == p.stages[1].clauses[1]
      cb == p.stages[2].clauses[1]
      at == { <<ca.source, a.source>>, <<ca.target.var, a.target>>,
              <<cb.source, b.source>>, <<cb.target.var, b.target>> }
  IN  /\ a.label = ca.label /\ b.label = cb.label
      /\ \A x, y \in at : x[1] = y[1] => x[2] = y[2]
      /\ Relation(a.interval, b.interval) = {RelationOf(p)}

\* A mined pattern is borne out: counting is per pair of labels, and still
\* some two edges share a node the way this very pattern says they do.  The
\* evaluator's copy of the corpus drops the ends of the edges, yet a pattern
\* of two edges one of which precedes the other still matches in it.  And
\* however the nodes are shared, what was mined is not scored without surprise.
MinedIsBorneOut ==
  /\ \A p \in Mined :
       /\ \E a, b \in ToSet(corpus) : Reads(p, a, b)
       /\ RelationOf(p) \in BeforeOrMeets => MatchCount(p, corpus) > 0
  /\ miner.minerful => \A s \in ToSet(all_scored \o round_scored) : "surprise" \in s.scores
=============================================================================
