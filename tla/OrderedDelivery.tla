--------------------------- MODULE OrderedDelivery ---------------------------
(***************************************************************************)
(* The engine under the caller its documentation assumes: every pattern is *)
(* registered first, each batch is one event later than all before it, and *)
(* the engine is told of the event before the next one is inserted.  Under *)
(* this caller incremental evaluation is compared with batch evaluation    *)
(* of the same graph (engine/eval.rs and engine/free.rs).                  *)
(***************************************************************************)
EXTENDS SiftEngine

\* Labels that can start a stage or trigger a negation: the edges the caller
\* notifies.  The others are attributes of an event, inserted with it.
StageLabels ==
  UNION {{Library[i].stages[s].clauses[1].label : s \in 1..StageCount(Library[i])}
         : i \in DOMAIN Library}

HeadLabels ==
  StageLabels
  \cup UNION {UNION {{neg.clauses[k].label : k \in DOMAIN neg.clauses}
                     : neg \in Library[i].negations}
              : i \in DOMAIN Library}

\* What a theorem asks of the batches: one edge of each at most can be a stage's
\* event, the others are its attributes
OneEventEach ==
  \A es \in Batches : \A i, j \in DOMAIN es :
    es[i].label \in StageLabels /\ es[j].label \in StageLabels => i = j

\* ... and of the events: a node of its own, whose edges have no end and begin
\* with it, come in one batch, one of a label, the one that can be a stage's
\* event before those that can only trigger a negation
EventVocabulary ==
  /\ \A x \in Edge : x.interval.start \in Int /\ x.interval.end = {}
  /\ \A x, y \in Edge :
       x.label \in HeadLabels /\ x.source = y.source => x.interval.start = y.interval.start
  /\ \A es \in Batches : \A i, j \in DOMAIN es :
       /\ es[i].source = es[j].source /\ es[i].label = es[j].label => es[i].target = es[j].target
       /\ es[i].label \in StageLabels /\ es[j].label \in HeadLabels => i <= j

\* What a clause, and a stage, binds
Binds(c)    == IF ~c.negated /\ c.target.kind = "bind" THEN {c.target.var} ELSE {}
BoundBy(stage, k) == {stage.anchor} \cup UNION {Binds(stage.clauses[j]) : j \in 1..k}
StageVars(stage)  == BoundBy(stage, Len(stage.clauses))
VarsOf(p, D)      == UNION {StageVars(p.stages[s]) : s \in D}
PatternVars(p)    == VarsOf(p, 1..StageCount(p))

CouldBe(c, x) == c.label = x.label /\ (c.target.kind = "in" => x.target \in c.target.vals)

\* A stage about its event alone, which its first clause knows by a value.  A
\* negated clause may be about what the stage has bound by then.
AboutOneEvent(stage) ==
  /\ stage.clauses # << >>
  /\ \A k \in 1..Len(stage.clauses) :
       LET c == stage.clauses[k]
       IN  /\ c.target.kind = "in" \/ (c.target.kind = "bind" /\ k # 1 /\ ~c.negated)
           /\ c.negated \in BOOLEAN
           /\ IF c.negated THEN k # 1 /\ c.source \in BoundBy(stage, k - 1)
                           ELSE c.source = stage.anchor

\* A negation about an event of its own, of which the match knows what its
\* window began with, and which cannot be the event that closes the window
AboutAnotherEvent(p, neg) ==
  /\ neg.clauses # << >> /\ neg.clauses \in Seq({neg.clauses[k] : k \in DOMAIN neg.clauses})
  /\ \A k \in DOMAIN neg.clauses :
       LET c == neg.clauses[k]
       IN  /\ c.source = neg.clauses[1].source /\ c.source \notin PatternVars(p)
           /\ c.target.kind \in {"in", "bind"}
           /\ c.target.kind = "bind" /\ c.target.var \in PatternVars(p) =>
                \A s \in 1..StageCount(p) :
                  p.stages[s].anchor = neg.between_start => c.target.var \in StageVars(p.stages[s])
           /\ \A s \in 1..StageCount(p), x \in Edge :
                p.stages[s].anchor \in neg.between_end =>
                  ~(CouldBe(p.stages[s].clauses[1], x) /\ CouldBe(c, x))

\* Patterns for which an event at a time finds what the whole graph shows: in a
\* group no event can be that of two stages, and none of the options by which a
\* match gives way to another, or is hidden from the caller, is used
StepwisePattern(p) ==
  /\ \A s \in 1..StageCount(p) : AboutOneEvent(p.stages[s])
  /\ \A neg \in p.negations : AboutAnotherEvent(p, neg)
  /\ \A s, t \in 1..StageCount(p), x \in Edge :
       SameGroup(p, s, t) /\ CouldBe(p.stages[s].clauses[1], x)
         /\ CouldBe(p.stages[t].clauses[1], x) => s = t
  /\ p.group = {} /\ ~p.advance_in_place /\ ~p.private
  /\ \A rr \in p.repeat_range : rr.min_reps \in 0..2

StepwiseLibrary == \A i \in DOMAIN Library : StepwisePattern(Library[i])

\* Patterns whose matches the whole graph bears out when they are made: a stage
\* does not stop being matched, no window opens again, the graph is searched for
\* the negations an event is compared with, and an event told too late to void
\* the match is one that could not have been told before
LastingPattern(p) ==
  /\ \A s \in 1..StageCount(p) : \A k \in 1..Len(p.stages[s].clauses) :
       LET c == p.stages[s].clauses[k]
       IN  c.negated => c.source = p.stages[s].anchor \/ StageCount(p) = 1
  /\ p.repeat_range # {} => p.negations = {}
  /\ \A neg \in p.negations :
       /\ neg.clauses[1].target.kind = "bind" => neg.clauses[1].target.var \notin PatternVars(p)
       /\ \/ \E s \in 1..StageCount(p) : p.stages[s].anchor \in neg.between_end
          \/ \E k \in DOMAIN neg.clauses : neg.clauses[k].label \in StageLabels
  /\ \A tc \in p.temporal : tc.left # tc.right

LastingLibrary == \A i \in DOMAIN Library : LastingPattern(Library[i])

Pending == {i \in DOMAIN graph \ notified : graph[i].label \in HeadLabels}

InsertNext(es) ==
  /\ registered = Len(Library) /\ Pending = {}
  /\ \A i \in DOMAIN es : es[i].interval.start = now + 1
  /\ Insert(es)

NotifyNext(i) == i \in Pending /\ (\A j \in Pending : i <= j) /\ Notify(i)

OrderedNext ==
  \/ Register
  \/ \E es \in Batches : InsertNext(es)
  \/ \E i \in DOMAIN graph : NotifyNext(i)

OrderedSpec == Init /\ [][OrderedNext]_vars

\* What a match is to a caller, whichever mode found it
MatchOf(m) == [bindings |-> m.bindings, intervals |-> m.intervals]

BatchMatches(i) == {MatchOf(m) : m \in EvaluatePattern(graph, Library[i], now)}

CompletedMatches(i) == {MatchOf(pm) : pm \in {m \in Complete : m.pattern_idx = i}}

(***************************************************************************)
(* Whenever the engine has been told of every event, each match batch      *)
(* evaluation finds has been completed incrementally: no interleaving of   *)
(* forks, deduplication and negation kills lost one.                       *)
(***************************************************************************)
NoMatchMissed ==
  Pending = {} => \A i \in Pats : BatchMatches(i) \subseteq CompletedMatches(i)

(***************************************************************************)
(* A match on_edge_added completes is, at that moment, a match of the      *)
(* graph: batch evaluation finds it with the same bindings and intervals.  *)
(* Later events may void it in batch mode (an open `unless` window).       *)
(***************************************************************************)
NoFalseMatch ==
  [][\A i \in Pats : CompletedMatches(i)' \ CompletedMatches(i) \subseteq BatchMatches(i)']_vars
=============================================================================
