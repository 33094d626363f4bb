----------------------------- MODULE SiftEngine -----------------------------
(***************************************************************************)
(* The sifting engine: its registry of patterns, its store of partial      *)
(* matches and the operations on them (crates/fabula/src/engine/mod.rs     *)
(* and eval.rs).                                                           *)
(*                                                                         *)
(* The store is the set of its partial matches: the code appends with      *)
(* increasing ids and only ever filters, so the vector is the set in id    *)
(* order.  The dedup hash is taken to be injective: a fingerprint is the   *)
(* tuple the code hashes.  A match found Dead is removed before the call   *)
(* that killed it returns, so Dead never shows between calls.              *)
(*                                                                         *)
(* The caller owns the graph.  It inserts edges (Insert), and tells the    *)
(* engine of them in any order, at most once each, or never (Notify).      *)
(***************************************************************************)
EXTENDS Sifting

CONSTANTS
  Library,          \* the patterns the caller registers, in this order
  Batches,          \* what the caller inserts at once: sequences of edges
  StaleThresholds,  \* arguments of end_tick
  MaxEdges,         \* bound: edges in the graph
  MaxTick           \* bound: the tick counter

MaskBits == 64    \* matched_stages is a u64, one bit per stage of a group

Edge == UNION {{es[i] : i \in DOMAIN es} : es \in Batches}

\* An edge starts at a node; where it leads is a node or a literal
ASSUME BatchesAssumption == Batches \subseteq Seq(Edge) /\ \A e \in Edge : e.source \in Nodes

ASSUME BoundsAssumption ==
  MaxEdges \in Nat /\ MaxTick \in Nat /\ StaleThresholds \subseteq Nat

\* What PatternBuilder::build and compose produce
BuiltPattern(p) ==
  /\ p.stages \in Seq({p.stages[s] : s \in DOMAIN p.stages})
  /\ \A s \in 1..StageCount(p) :
       /\ SegmentStart(p, s) \in 1..s
       /\ SegmentEnd(p, s) \in (s + 1)..(StageCount(p) + 1)
       /\ Segment(p, s) \subseteq 1..StageCount(p)
       /\ UnorderedGroup(p, s) \subseteq 1..MaskBits
       /\ p.stages[s].clauses \in Seq({p.stages[s].clauses[k] :
                                        k \in DOMAIN p.stages[s].clauses})
  /\ \A rr \in p.repeat_range : rr.stage_start \in 1..StageCount(p)

\* Finitely many stages in all
ASSUME LibraryAssumption ==
  /\ Library \in Seq({Library[i] : i \in DOMAIN Library})
  /\ \E limit \in {0} \cup {StageCount(Library[i]) : i \in DOMAIN Library} :
       \A i \in DOMAIN Library : StageCount(Library[i]) <= limit
  /\ \A i \in DOMAIN Library : BuiltPattern(Library[i])

\* Deadlines and inactivity thresholds are counted in ticks, as u64
ASSUME DeadlinesAssumption ==
  \A i \in DOMAIN Library :
    Library[i].deadline_ticks \subseteq Nat /\ Library[i].inactivity_threshold \subseteq Nat

VARIABLES
  graph, now, notified,           \* the data source and what was notified
  registered,                     \* how many patterns of Library are registered
  pms, next_match_id,             \* partial_matches, next_match_id
  enabled, metrics,               \* per-pattern lifecycle state
  tick_counter, acc, delta        \* tick state; the TickDelta returned last

dataSource == <<graph, now, notified>>
matches    == <<pms, next_match_id>>
vars       == <<dataSource, registered, matches, enabled, metrics, tick_counter, acc, delta>>

Pats == 1..registered

NoEvents == [advanced |-> {}, completed |-> {}, negated |-> {}]

NewMetrics == [last_advanced_tick |-> 0, completion_count |-> 0,
               advancement_count |-> 0, negation_count |-> 0]

Init ==
  /\ graph = << >> /\ now = 0 /\ notified = {}
  /\ registered = 0
  /\ pms = {} /\ next_match_id = 0
  /\ enabled = << >> /\ metrics = << >>
  /\ tick_counter = 0 /\ acc = NoEvents
  /\ delta = [advanced |-> {}, completed |-> {}, negated |-> {}, expired |-> {},
              stalled |-> {}, active_pm_count |-> 0]

Active   == {pm \in pms : pm.state = "Active"}
Complete == {pm \in pms : pm.state = "Complete"}

\* Names identify patterns in events; a name stands for the first so named
Named(n)      == {i \in Pats : Library[i].name = n}
FirstNamed(i) == CHOOSE j \in Named(Library[i].name) :
                   \A k \in Named(Library[i].name) : j <= k
IsPrivate(n)  == \E i \in Named(n) : Library[i].private

\* register
Register ==
  /\ registered < Len(Library)
  /\ registered' = registered + 1
  /\ enabled' = Append(enabled, TRUE)
  /\ metrics' = Append(metrics, NewMetrics)
  /\ UNCHANGED <<dataSource, matches, tick_counter, acc, delta>>

-----------------------------------------------------------------------------
(* on_edge_added, phase 1: negation                                        *)

\* Active matches whose open negation window the edge falls in
Killed(e) ==
  {pm \in Active : CheckNegationKill(graph, now, Library[pm.pattern_idx],
                                     pm.bindings, pm.intervals, e)}

-----------------------------------------------------------------------------
(* Phases 2 and 3.  An attempt <<phase, who, stage, branch>> is one place  *)
(* of the code's loops where a match is made: phase 0 starts pattern `who` *)
(* at `stage`; phase 1 advances the match of id `who` through `stage`,     *)
(* branch 0 to the next stage or to completion, branch 1 back to the start *)
(* of a repeat segment.  Their lexicographic order is the loops' order.    *)

Precedes(k, l) ==
  \/ k[1] < l[1]
  \/ k[1] = l[1] /\ k[2] < l[2]
  \/ k[1] = l[1] /\ k[2] = l[2] /\ k[3] < l[3]
  \/ k[1] = l[1] /\ k[2] = l[2] /\ k[3] = l[3] /\ k[4] < l[4]

Matches(i, s, e, b)  == TryMatchStage(graph, Library[i].stages[s], e, b) # {}
Extended(i, s, e, b) == CHOOSE m \in TryMatchStage(graph, Library[i].stages[s], e, b) : TRUE

\* Fault: one past the stage that follows
NextStageSkipping(p, s, mask) ==
  IF Segment(p, s) \subseteq mask \cup {s} THEN SegmentEnd(p, s) + 1 ELSE SegmentStart(p, s)

\* What follows stage s of a segment once the stages in `mask` are matched
NextStage(p, s, mask) ==
  IF Segment(p, s) \subseteq mask \cup {s} THEN SegmentEnd(p, s) ELSE SegmentStart(p, s)

NewMask(p, s, mask) == IF InGroup(p, s) THEN mask \cup {s} ELSE mask

PastEnd(i, next) == next > StageCount(Library[i])

\* Phase 2: the match that starting pattern i at stage s makes
Initiated(i, s, e) ==
  LET p    == Library[i]
      next == NextStage(p, s, {})
  IN  [ id |-> next_match_id, pattern_idx |-> i,
        bindings |-> Extended(i, s, e, NoBindings),
        intervals |-> [x \in {p.stages[s].anchor} |-> e.interval],
        next_stage |-> next, state |-> IF PastEnd(i, next) THEN "Complete" ELSE "Active",
        created_at_tick |-> tick_counter, last_advanced_tick |-> tick_counter,
        repetition_count |-> 0, matched_stages |-> NewMask(p, s, {}) ]

\* A single-stage match is checked against the graph for negations at once
NegationAllows(pm) ==
  pm.state = "Complete" =>
    CheckNegationsBatch(graph, now, Library[pm.pattern_idx], pm.bindings, pm.intervals)

Initiations(e) ==
  LET Starts(i) == {s \in Segment(Library[i], 1) :
                      Matches(i, s, e, NoBindings) /\ NegationAllows(Initiated(i, s, e))}
  IN  UNION {{<<0, i, s, 0>> : s \in Starts(i)} :
               i \in {j \in Pats : enabled[j] /\ Library[j].stages # << >>}}

\* Fault: an edge may advance a match whenever it happened
InAnyOrder(pm, s, e) == TRUE

\* Phase 3: later than everything matched so far outside the stage's own group
InOrder(pm, s, e) ==
  LET p == Library[pm.pattern_idx]
  IN  \A x \in DOMAIN pm.intervals :
        \/ pm.intervals[x].start < e.interval.start
        \/ \E t \in AnchorStage(p, x) : SameGroup(p, t, s)

Advancing(e) == {pm \in Active \ Killed(e) : enabled[pm.pattern_idx]}

TryStages(pm, e) ==
  {s \in Segment(Library[pm.pattern_idx], pm.next_stage) \ pm.matched_stages :
     Matches(pm.pattern_idx, s, e, pm.bindings) /\ InOrder(pm, s, e)}

\* Fault: the first pass through the segment counts as one
NextRepetitionByOne(pm) == pm.repetition_count + 1

\* Matches counted after the segment is passed once more: first_ and last_ make two
NextRepetition(pm) == pm.repetition_count + (IF pm.repetition_count = 0 THEN 2 ELSE 1)

Looping(pm, s) ==
  LET p == Library[pm.pattern_idx]
  IN  p.repeat_range # {} /\ PastEnd(pm.pattern_idx, NextStage(p, s, pm.matched_stages))

WithInterval(intervals, x, interval) ==
  [y \in DOMAIN intervals \cup {x} |-> IF y = x THEN interval ELSE intervals[y]]

\* `pm` with stage s matched: the next stage, or the complete match
AdvancedMatch(pm, s, e) ==
  LET p    == Library[pm.pattern_idx]
      next == NextStage(p, s, pm.matched_stages)
  IN  [ pm EXCEPT
        !.id = next_match_id,
        !.bindings = Extended(pm.pattern_idx, s, e, pm.bindings),
        !.intervals = WithInterval(pm.intervals, p.stages[s].anchor, e.interval),
        !.next_stage = next,
        !.state = IF PastEnd(pm.pattern_idx, next) THEN "Complete" ELSE "Active",
        !.last_advanced_tick = tick_counter,
        !.repetition_count = IF Looping(pm, s) THEN NextRepetition(pm) ELSE @,
        !.matched_stages = NewMask(p, s, pm.matched_stages) ]

\* `pm` back at the start of its repeat segment: the segment's own variables
\* are cleared from the bindings, the intervals stay
LoopedMatch(pm, s, e, rr) ==
  LET b == Extended(pm.pattern_idx, s, e, pm.bindings)
  IN  [ AdvancedMatch(pm, s, e) EXCEPT
        !.bindings = [x \in DOMAIN b \ LoopVars(Library[pm.pattern_idx], rr) |-> b[x]],
        !.next_stage = rr.stage_start,
        !.state = "Active",
        !.matched_stages = {} ]

TemporalOK(pm) == CheckTemporal(Library[pm.pattern_idx], pm.intervals)

MayLoop(rr, rep) == \A m \in rr.max_reps : rep < m

Branches(pm, s, e) ==
  IF ~Looping(pm, s) THEN {0}
  ELSE LET rep == NextRepetition(pm)
       IN  UNION {{br \in {0, 1} :
                     \/ br = 0 /\ rep >= rr.min_reps /\ TemporalOK(AdvancedMatch(pm, s, e))
                     \/ br = 1 /\ MayLoop(rr, rep)}
                  : rr \in Library[pm.pattern_idx].repeat_range}

Advances(e) ==
  UNION {UNION {{<<1, pm.id, s, br>> : br \in Branches(pm, s, e)} : s \in TryStages(pm, e)}
         : pm \in Advancing(e)}

Attempts(e) == Initiations(e) \cup Advances(e)

Parent(k) == CHOOSE pm \in pms : pm.id = k[2]

\* The match an attempt makes, its id still to be given
Made(e, k) ==
  IF k[1] = 0 THEN Initiated(k[2], k[3], e)
  ELSE IF k[4] = 0 THEN AdvancedMatch(Parent(k), k[3], e)
  ELSE LoopedMatch(Parent(k), k[3], e,
                   CHOOSE rr \in Library[Parent(k).pattern_idx].repeat_range : TRUE)

MatchesMade(e) == [k \in Attempts(e) |-> Made(e, k)]

-----------------------------------------------------------------------------
(* Deduplication and the store.  `made` is MatchesMade(e).                 *)

\* compute_fingerprint_full
Fingerprint(pm) == <<pm.pattern_idx, pm.next_stage, pm.repetition_count,
                     pm.matched_stages, pm.bindings, pm.intervals>>

Fingerprints(S) == {Fingerprint(pm) : pm \in S}

\* Fault: a call looks only at the store, not at what it has made itself
BornTwice(made) == {k \in DOMAIN made : Fingerprint(made[k]) \notin Fingerprints(pms)}

\* Attempts whose fingerprint is new to the store and to this call
Born(made) ==
  {k \in DOMAIN made :
     /\ Fingerprint(made[k]) \notin Fingerprints(pms)
     /\ \A l \in DOMAIN made : Precedes(l, k) => Fingerprint(made[l]) # Fingerprint(made[k])}

\* A completed advance must pass the temporal check, after it took its id
Kept(k, pm) == k[1] = 1 /\ pm.state = "Complete" => TemporalOK(pm)

KeptOf(made) == {k \in Born(made) : Kept(k, made[k])}

\* Fault: the counter moves once a call
IdOfCall(made, k) == next_match_id

IdOf(made, k) == next_match_id + Cardinality({l \in Born(made) : Precedes(l, k)})

NewMatches(made) == {[made[k] EXCEPT !.id = IdOf(made, k)] : k \in KeptOf(made)}

\* advance_in_place: a strict advance uses its parent up
Consumed(made) ==
  {pm \in Active : /\ Library[pm.pattern_idx].advance_in_place
                   /\ \E k \in KeptOf(made) : /\ k[1] = 1 /\ k[2] = pm.id /\ k[4] = 0
                                              /\ made[k].next_stage > pm.next_stage}

\* A completion ends the active matches of its exclusive group, except those
\* of its own pattern when that pattern repeats
Dominated(pm, done) ==
  /\ pm.state = "Active"
  /\ \E i \in done : /\ Library[i].group \cap Library[pm.pattern_idx].group # {}
                     /\ ~(pm.pattern_idx = i /\ Library[i].repeat_range # {})

CompletedPatterns(new) ==
  {FirstNamed(pm.pattern_idx) : pm \in {n \in new : n.state = "Complete"}}

\* Fault: a completion ends only the matches that were there before the call
StoreSparingNew(e, made) ==
  LET new == NewMatches(made)
  IN  {pm \in pms \ (Killed(e) \cup Consumed(made)) :
         ~Dominated(pm, CompletedPatterns(new))} \cup new

StoreAfter(e, made) ==
  LET new == NewMatches(made)
  IN  {pm \in (pms \ (Killed(e) \cup Consumed(made))) \cup new :
         ~Dominated(pm, CompletedPatterns(new))}

-----------------------------------------------------------------------------
(* The whole call                                                          *)

NamesOf(S) == {Library[pm.pattern_idx].name : pm \in S}

\* Fault: events are counted for every pattern of the event's name
CountedForEach(S, i) == Cardinality({pm \in S : Library[pm.pattern_idx].name = Library[i].name})

\* Events are counted for the first pattern of the event's name
Counted(S, i) == Cardinality({pm \in S : FirstNamed(pm.pattern_idx) = i})

\* Fault: only a completion moves the pattern's clock
MetricsOnCompletion(advanced, completed, negated) ==
  [i \in Pats |->
    [ metrics[i] EXCEPT
      !.advancement_count = @ + Counted(advanced, i),
      !.completion_count = @ + Counted(completed, i),
      !.negation_count = @ + Counted(negated, i),
      !.last_advanced_tick = IF Counted(completed, i) > 0 THEN tick_counter ELSE @ ]]

MetricsAfter(advanced, completed, negated) ==
  [i \in Pats |->
    [ advancement_count  |-> metrics[i].advancement_count + Counted(advanced, i),
      completion_count   |-> metrics[i].completion_count + Counted(completed, i),
      negation_count     |-> metrics[i].negation_count + Counted(negated, i),
      last_advanced_tick |-> IF Counted(advanced \cup completed, i) > 0
                             THEN tick_counter ELSE metrics[i].last_advanced_tick ]]

\* Fault: the accumulators remember the last call only
LastCallOnly(advanced, completed, negated) ==
  [ advanced  |-> NamesOf(advanced), completed |-> NamesOf(completed),
    negated   |-> NamesOf(negated) ]

Accumulated(advanced, completed, negated) ==
  [ advanced  |-> acc.advanced \cup NamesOf(advanced),
    completed |-> acc.completed \cup NamesOf(completed),
    negated   |-> acc.negated \cup NamesOf(negated) ]

OnEdgeAdded(e) ==
  LET made      == MatchesMade(e)
      killed    == Killed(e)
      new       == NewMatches(made)
      advanced  == {pm \in new : pm.state = "Active"}
      completed == {pm \in new : pm.state = "Complete"}
  IN  /\ pms' = StoreAfter(e, made)
      /\ next_match_id' = next_match_id + Cardinality(Born(made))
      /\ metrics' = MetricsAfter(advanced, completed, killed)
      /\ acc' = Accumulated(advanced, completed, killed)

-----------------------------------------------------------------------------
(* The operations                                                          *)

\* The caller inserts a batch of edges and moves its clock to their time
Insert(es) ==
  /\ Len(graph) + Len(es) <= MaxEdges
  /\ graph' = graph \o es
  /\ now' = CHOOSE t \in {now} \cup {es[i].interval.start : i \in DOMAIN es} :
              /\ t >= now
              /\ \A i \in DOMAIN es : es[i].interval.start <= t
  /\ UNCHANGED <<notified, registered, matches, enabled, metrics, tick_counter, acc, delta>>

\* on_edge_added, for an edge of the graph
Notify(i) ==
  /\ i \in DOMAIN graph \ notified
  /\ OnEdgeAdded(graph[i])
  /\ notified' = notified \cup {i}
  /\ UNCHANGED <<graph, now, registered, enabled, tick_counter, delta>>

\* Fault: what a disabled pattern has in progress stays
SwitchPattern(i, on) ==
  /\ i \in Pats
  /\ enabled' = [enabled EXCEPT ![i] = on]
  /\ UNCHANGED <<dataSource, registered, matches, metrics, tick_counter, acc, delta>>

\* set_pattern_enabled
SetPatternEnabled(i, on) ==
  /\ i \in Pats
  /\ enabled' = [enabled EXCEPT ![i] = on]
  /\ pms' = IF on THEN pms ELSE {pm \in pms : pm.pattern_idx # i \/ pm.state # "Active"}
  /\ UNCHANGED <<dataSource, registered, next_match_id, metrics, tick_counter, acc, delta>>

\* deregister
Deregister(i) == SetPatternEnabled(i, FALSE)

\* kill_pms_involving
Involves(pm, node) == \E x \in DOMAIN pm.bindings : pm.bindings[x] = node

\* Fault: complete matches go too
KillAllInvolving(node) ==
  /\ pms' = {pm \in pms : ~Involves(pm, node)}
  /\ UNCHANGED <<dataSource, registered, next_match_id, enabled, metrics, tick_counter, acc, delta>>

KillPmsInvolving(node) ==
  /\ pms' = {pm \in pms : pm.state # "Active" \/ ~Involves(pm, node)}
  /\ UNCHANGED <<dataSource, registered, next_match_id, enabled, metrics, tick_counter, acc, delta>>

\* Fault: the matches drained are copied
CopyCompleted ==
  UNCHANGED <<dataSource, registered, matches, enabled, metrics, tick_counter, acc, delta>>

\* drain_completed
DrainCompleted ==
  /\ pms' = Active
  /\ UNCHANGED <<dataSource, registered, next_match_id, enabled, metrics, tick_counter, acc, delta>>

\* tick
Tick ==
  /\ tick_counter < MaxTick
  /\ tick_counter' = tick_counter + 1
  /\ UNCHANGED <<dataSource, registered, matches, enabled, metrics, acc, delta>>

\* Fault: an advance saves a match from its deadline
ExpiredUntouched(t) ==
  {pm \in Active : /\ pm.last_advanced_tick = pm.created_at_tick
                   /\ \E d \in Library[pm.pattern_idx].deadline_ticks : t - pm.created_at_tick > d}

Expired(t) ==
  {pm \in Active : \E d \in Library[pm.pattern_idx].deadline_ticks : t - pm.created_at_tick > d}

Inactive(t) ==
  {pm \in Active : \E d \in Library[pm.pattern_idx].inactivity_threshold :
                      t - pm.last_advanced_tick >= d}

\* stale_patterns, at tick t over the matches S
StalePatterns(S, t, threshold) ==
  {i \in Pats : /\ enabled[i]
                /\ t - metrics[i].last_advanced_tick >= threshold
                /\ \E pm \in S : pm.pattern_idx = i /\ pm.state = "Active"}

Public(names) == {n \in names : ~IsPrivate(n)}

\* end_tick
EndTick(threshold) ==
  LET t    == tick_counter + 1
      left == pms \ (Expired(t) \cup Inactive(t))
  IN  /\ tick_counter < MaxTick
      /\ tick_counter' = t
      /\ pms' = left
      /\ acc' = NoEvents
      /\ delta' = [ advanced  |-> Public(acc.advanced),
                    completed |-> Public(acc.completed),
                    negated   |-> Public(acc.negated),
                    expired   |-> Public(NamesOf(Expired(t))),
                    stalled   |-> {Library[i].name : i \in
                                    {j \in StalePatterns(left, t, threshold) : ~Library[j].private}},
                    active_pm_count |-> Cardinality({pm \in left : pm.state = "Active"}) ]
      /\ UNCHANGED <<dataSource, registered, next_match_id, enabled, metrics>>

\* The caller goes on with a clone of the engine: a clone starts its tick anew
CommitFork ==
  /\ acc' = NoEvents
  /\ UNCHANGED <<dataSource, registered, matches, enabled, metrics, tick_counter, delta>>

Next ==
  \/ Register
  \/ \E es \in Batches : Insert(es)
  \/ \E i \in DOMAIN graph : Notify(i)
  \/ \E i \in Pats, on \in BOOLEAN : SetPatternEnabled(i, on)
  \/ \E i \in Pats : Deregister(i)
  \/ \E node \in Nodes : KillPmsInvolving(node)
  \/ DrainCompleted
  \/ Tick
  \/ \E threshold \in StaleThresholds : EndTick(threshold)
  \/ CommitFork

Spec == Init /\ [][Next]_vars
-----------------------------------------------------------------------------
(* What is expected of it                                                  *)

MatchFields == { "id", "pattern_idx", "bindings", "intervals", "next_stage", "state",
                 "created_at_tick", "last_advanced_tick", "repetition_count",
                 "matched_stages" }

\* Completed exactly when past its last stage; bindings and intervals are left
\* to MatchesWitnessed
IsMatch(pm) ==
  /\ DOMAIN pm = MatchFields
  /\ pm.id \in Nat /\ pm.pattern_idx \in Pats
  /\ pm.next_stage \in 1..(StageCount(Library[pm.pattern_idx]) + 1)
  /\ pm.state = IF PastEnd(pm.pattern_idx, pm.next_stage) THEN "Complete" ELSE "Active"
  /\ pm.created_at_tick \in Nat /\ pm.last_advanced_tick \in Nat
  /\ pm.repetition_count \in Nat
  /\ pm.matched_stages \subseteq 1..MaskBits

TypeOK ==
  /\ graph \in Seq(Edge) /\ notified \subseteq DOMAIN graph
  /\ registered \in 0..Len(Library)
  /\ IsFiniteSet(pms) /\ \A pm \in pms : IsMatch(pm)
  /\ next_match_id \in Nat
  /\ enabled \in [Pats -> BOOLEAN]
  /\ metrics \in [Pats -> [ last_advanced_tick : Nat, completion_count : Nat,
                            advancement_count : Nat, negation_count : Nat ]]
  /\ tick_counter \in 0..MaxTick

\* A match is known by its id, and ids still to be given are not in use
\* (Consumed and every event refer to a match by its id).
IdsUnique ==
  /\ \A pm \in pms : pm.id < next_match_id
  /\ \A pm, q \in pms : pm.id = q.id => pm = q

\* The same partial match is never stored twice, though an edge may make it
\* along several paths of the same call.
NoDuplicateMatch ==
  \A pm, q \in pms : Fingerprint(pm) = Fingerprint(q) => pm = q

\* A pattern that is disabled has nothing in progress, whatever was going on
\* when it was disabled.
DisabledPatternsQuiet == \A pm \in Active : enabled[pm.pattern_idx]

\* No clock runs ahead of the engine's, nor a match's ahead of the clock its
\* pattern's staleness is judged by: end_tick subtracts them as u64s.
ClocksAgree ==
  /\ \A pm \in pms :
       /\ pm.created_at_tick <= pm.last_advanced_tick
       /\ pm.last_advanced_tick <= metrics[FirstNamed(pm.pattern_idx)].last_advanced_tick
  /\ \A i \in Pats : metrics[i].last_advanced_tick <= tick_counter

\* A pattern reported stale has had no match advance within the threshold.
StaleIsIdle ==
  \A threshold \in StaleThresholds : \A i \in StalePatterns(pms, tick_counter, threshold) :
    \A pm \in pms : pm.pattern_idx = i => tick_counter - pm.last_advanced_tick >= threshold

\* Stages a match has been through
Passed(pm) == {s \in 1..StageCount(Library[pm.pattern_idx]) :
                 s < pm.next_stage \/ s \in pm.matched_stages}

\* The edge x satisfies the clause c as pm binds its variables
Agrees(pm, c, x) ==
  /\ x.label = c.label /\ ConstraintAccepts(c.target, x.target, pm.bindings)
  /\ c.source \in DOMAIN pm.bindings => pm.bindings[c.source] = x.source
  /\ c.target.kind = "bind" /\ c.target.var \in DOMAIN pm.bindings
       => pm.bindings[c.target.var] = x.target

\* The edge of index i is what stage s of pm matched: its first clause, the
\* others having edges that covered the start of this one
Witness(pm, s, i) ==
  LET st == Library[pm.pattern_idx].stages[s]
  IN  /\ graph[i].interval = pm.intervals[st.anchor]
      /\ Agrees(pm, st.clauses[1], graph[i])
      /\ \A k \in 2..Len(st.clauses) :
           st.clauses[k].negated \/ \E j \in DOMAIN graph :
             Agrees(pm, st.clauses[k], graph[j]) /\ Covers(graph[j].interval, graph[i].interval.start)

\* Each stage a match has been through is witnessed by an edge the engine was
\* told of, in agreement with all that the match binds: forking, joining and
\* looping never mix up the bindings of two matches.
MatchesWitnessed ==
  \A pm \in pms : \A s \in Passed(pm) :
    /\ Library[pm.pattern_idx].stages[s].anchor \in DOMAIN pm.intervals
    /\ \E i \in notified : Witness(pm, s, i)

\* Stages matched in different segments started in the order of the stages,
\* whatever order the edges arrived in.
StagesInSequence ==
  \A pm \in pms : \A s, t \in Passed(pm) :
    LET p == Library[pm.pattern_idx]
    IN  s < t /\ ~SameGroup(p, s, t) =>
          pm.intervals[p.stages[s].anchor].start < pm.intervals[p.stages[t].anchor].start

\* f[1] + ... + f[n]
SumTo(f, n) == LET upTo[i \in 0..n] == IF i = 0 THEN 0 ELSE f[i] + upTo[i - 1] IN upTo[n]

\* What is stored was counted, under the first pattern of its name
StoredIsCounted ==
  \A i \in Pats :
    LET Same(S) == Cardinality({pm \in S : FirstNamed(pm.pattern_idx) = FirstNamed(i)})
        m       == metrics[FirstNamed(i)]
    IN  Same(Complete) <= m.completion_count /\ Same(Active) <= m.advancement_count

\* What the counters say was written, pattern by pattern
Events == [i \in Pats |-> metrics[i].completion_count + metrics[i].advancement_count]

\* Advances through the last stage, on the edge e, that fail the temporal check
Rejections(e) ==
  {k \in Born(MatchesMade(e)) : LET pm == MatchesMade(e)[k]
                                IN  k[1] = 1 /\ pm.state = "Complete" /\ ~TemporalOK(pm)}

\* ... of a step, which notifies at most one edge
RejectedNow == UNION {Rejections(graph[i]) : i \in notified' \ notified}

\* As many ids are taken as events are counted and completions rejected
IdsAccounted ==
  next_match_id' = next_match_id + (SumTo(Events', registered') - SumTo(Events, registered))
                                 + Cardinality(RejectedNow)

\* Every id a call gives out belongs to a match its pattern's counters count or
\* to a completion rejected after it took its id, and no match is stored that
\* was not counted, though metrics are found by name, and names may be shared.
EveryIdAccounted == []StoredIsCounted /\ [][IdsAccounted]_vars

\* When a pattern of an exclusive group completes, nothing of the group is in
\* progress after the call, what the same call began included; a repeating
\* pattern's own loops go on.
ClosesGroup ==
  \A pm \in Complete' \ Complete, q \in Active' :
    LET p == Library[pm.pattern_idx]
    IN  p.group \cap Library[q.pattern_idx].group # {} =>
          q.pattern_idx = FirstNamed(pm.pattern_idx) /\ p.repeat_range # {}

\* Every step of the engine closes the groups it completes (the retain that
\* ends on_edge_added).
CompletionClosesGroup == [][ClosesGroup]_vars

-----------------------------------------------------------------------------
(* What the theorems ask of a library beyond LibraryAssumption             *)

\* Names tell patterns apart
UniqueNames ==
  \A i, j \in DOMAIN Library : Library[i].name = Library[j].name => i = j

\* What the builder and compose produce from stages with anchors of their own:
\* a segment is a block of consecutive stages, the segment of each of them,
\* and a repeat goes back to the start of one.
BlockPattern(p) ==
  /\ \A s, t \in 1..StageCount(p) : p.stages[s].anchor = p.stages[t].anchor => s = t
  /\ \A s, t \in 1..StageCount(p) :
       /\ t \in Segment(p, s) <=> SegmentStart(p, s) <= t /\ t < SegmentEnd(p, s)
       /\ t \in Segment(p, s) => Segment(p, t) = Segment(p, s)
  /\ \A rr \in p.repeat_range : SegmentStart(p, rr.stage_start) = rr.stage_start

BlockLibrary == \A i \in DOMAIN Library : BlockPattern(Library[i])

\* A stage whose first clause is about its anchor, and does not lead back to it
AnchoredStage(stage) ==
  stage.clauses # << >> =>
    /\ stage.clauses[1].source = stage.anchor
    /\ stage.clauses[1].target.kind = "bind" => stage.clauses[1].target.var # stage.anchor

\* The edges a clause would bind a variable of A from lead to nodes
LeadsToNodes(c, A) ==
  c.target.kind = "bind" /\ c.target.var \in A =>
    \A x \in Edge : x.label = c.label => x.target \in Nodes

Anchors(p) == {p.stages[s].anchor : s \in 1..StageCount(p)}

ClauseVars(c) ==
  {c.source} \cup (IF c.target.kind \in {"bind", "var"} THEN {c.target.var} ELSE {})

\* Every stage is anchored, what a clause binds to an anchor is a node, and what
\* a repeat clears is not what the stages before the repeat are about
AnchoredPattern(p) ==
  /\ \A s \in 1..StageCount(p) :
       /\ AnchoredStage(p.stages[s])
       /\ \A k \in 1..Len(p.stages[s].clauses) : LeadsToNodes(p.stages[s].clauses[k], Anchors(p))
  /\ \A rr \in p.repeat_range : \A s \in 1..(rr.stage_start - 1) :
       \A k \in 1..Len(p.stages[s].clauses) :
         ClauseVars(p.stages[s].clauses[k]) \cap LoopVars(p, rr) = {}

AnchoredLibrary == \A i \in DOMAIN Library : AnchoredPattern(Library[i])

-----------------------------------------------------------------------------
(***************************************************************************)
(* The abstract view: a ledger of matches under ids used once.             *)
(***************************************************************************)
Ledger == INSTANCE MatchLedger WITH active <- Active, complete <- Complete,
                                    next <- next_match_id

LedgerSpec == Ledger!Spec
=============================================================================
