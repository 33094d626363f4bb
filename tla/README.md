# Verification of fabula

fabula is a story sifting engine: a caller feeds it a temporal graph, edge by
edge, and it reports when patterns (sequences of events with shared variables,
windows in which something must not happen, deadlines, repeats) have been
matched. Around it stand a language to write patterns in, three graph stores,
trackers that read its reports, scorers, and a miner that proposes patterns.
This directory holds TLA+ models of all of these, the TLC configurations that
check them on small instances, and TLAPS proofs of what matters most for every
instance.

`tlc -config X.cfg M` checks a run, `tlapm M.tla` a module of proofs; the
table under "Runs" says which module goes with which configuration.

## The system

Paths are relative to `crates/`.

| Part | State | Operations | Interacts with |
|---|---|---|---|
| Interval algebra, `fabula/src/interval.rs` | none | covers, relation, before, meets, intersects, gap | used by evaluation, adapters, mining |
| Data source, `fabula/src/datasource.rs`; adapters `fabula-memory`, `fabula-petgraph`, `fabula-grafeo` | edges, clock | scan, edges_from (now or any time); add_edge, upsert_edge, end_edge belong to the caller | the engine only reads it |
| Patterns, `fabula/src/pattern.rs`, `builder.rs` | a builder under construction; a pattern never changes | builder calls | registered with the engine |
| Stateless evaluation, `fabula/src/engine/free.rs` | none | batch evaluation, one stage against one edge, temporal and negation checks, gap analysis | called by the engine, by callers directly |
| Sifting engine, `fabula/src/engine/{mod,eval,types}.rs` | patterns, partial matches, id counter, enabled flags, metrics, tick counter, tick accumulators, plant/payoff pairs | register, on_edge_added, set_pattern_enabled, deregister, kill_pms_involving, tick, end_tick, drain_completed, clone, plant_status, stale_patterns, evaluate, why_not | reads the data source; returns events, matches and a TickDelta |
| Composition, `fabula/src/compose.rs` | none | sequence, choice, repeat, repeat_range | patterns to patterns |
| Let bindings, `fabula/src/expr.rs`, `engine/let_evaluator.rs` | none | evaluate an expression over bindings | called when a stage matched |
| Causality, `fabula/src/causality.rs` | none | backward path search, the cleanest path | reads the data source |
| Scoring, `fabula/src/scoring/` | frequency counts | observe, score, tick, reset | fed with matches or events |
| Narratives, `fabula-narratives` | orders of opening and closing, a window of samples, a distribution and its history | observe, end a tick, status, score | reads TickDelta and metrics |
| Discovery, `fabula-discovery` | a corpus, a generator, a session's scores and round | record, mine, evaluate, filter, feed back, emit DSL | builds patterns, runs batch evaluation |
| DSL, `fabula-dsl` | none | lex, parse, expand, check, compile | calls the builder and composition |
| `fabula-wasm` | a JS handle | converts and calls the engine | |
| Benchmarks, examples, golden tests | none | harnesses | call all of it |

Everything is single-threaded: every operation of the engine takes `&mut self`
and runs to its end. What makes it hard is not preemption but **order**: the
caller may insert edges, tell the engine of them, switch patterns, remove
entities, drain results, end ticks and swap in a clone in any order; edges may be
told in another order than they happened, or before the attributes a pattern
looks up; and one call of `on_edge_added` kills, starts, advances, forks, loops,
completes, deduplicates and excludes matches against a store it is changing. The
same goes for the parts around it: a tracker sees only the names in reports, a
store keeps an edge in two or three indices, a text names things before and
after they exist. The hazards are listed line by line in `PROJECT.json`.

What makes each part correct:

- *Intervals*: relations and comparisons say what the covered instants say;
  swapping the arguments inverts the relation; a distance never wraps.
- *Stores*: all answer alike; a state has one value at a time.
- *Evaluation*: batch and incremental evaluation agree; every stage of a match
  is borne out by edges that agree with all its bindings.
- *Engine*: no match lost, stored or delivered twice; ids unique; a match never
  altered; disabled patterns quiet; exclusive groups closed; deadlines met;
  reports of a tick complete and consistent with each other.
- *Composition*: a composed pattern matches exactly when its parts do, in
  succession, of the same shared entities.
- *Narratives and scoring*: what they report is a function of what they were
  told, and agrees with the engine's own counters.
- *DSL and discovery*: a text means the builder calls it stands for; what is
  emitted reads back; what is mined is borne out by the log.

## Modules

| Module | Models | How |
|---|---|---|
| `Intervals` | `interval.rs` | operators; an optional value is a set of at most one element |
| `IntervalPairs` | – | ranges over pairs of intervals and states what `Intervals` should satisfy; checked in `MCStores` |
| `TemporalGraph` | the data source the engine reads | a graph is the sequence of its edges; a clause's target is a binding, a set of accepted values, or a relation with a bound variable |
| `GraphStores` | the three adapters | a vector, adjacency lists, records of properties; the inner workings of petgraph and Grafeo are external |
| `Causality` | `causality.rs` | a path is its nodes, edges and branch counts; the search is a recursion on hops |
| `StoreCalls` | – | a caller that adds, upserts and ends edges and asks for causes at any moment |
| `Patterns` | `pattern.rs` as the engine reads it | records; stages numbered from 1; unordered groups are sets of stages |
| `Sifting` | `free.rs` | `TryMatchStage`, `FindStageMatches`, `CheckTemporal`, `CheckNegationKill`, `CheckNegationsBatch`, `EvaluatePattern`, each a function of graph, clock and bindings; `why_not` and `gap_analysis` clause by clause, with the bindings the code has |
| `SiftEngine` | `mod.rs`, `eval.rs`, `types.rs` | the state machine: one action per operation |
| `MatchLedger` | – | abstract specification: matches written once under fresh ids, never altered, complete ones kept until drained |
| `OrderedDelivery` | – | SiftEngine under the caller the documentation assumes: one event after the other, each told before the next is inserted |
| `Consumer` | – | the same caller, draining completed matches |
| `GameLoop` | `plant_status` | SiftEngine driven tick by tick with `end_tick`, fairness on it; the pairs are registered beforehand |
| `ThreadTracker`, `TensionTracker`, `PivotDetector` | `thread.rs`, `tension.rs`, `pivot.rs` and `distance.rs` | one action per method; of a distance only zero, some, most, infinite |
| `NarrativeScorer` | `scorer.rs` | signals, weights and the breakdown, in exact units |
| `StoryLoop` | – | **GameLoop, ThreadTracker and NarrativeScorer composed**: what `end_tick` returns is what the tracker observes and the scorer scores |
| `PropertyScorer`, `PatternScorer` | `scoring/{stu,role_conditioned}.rs`, `scoring/{surprise,sequential}.rs` | counts; a score is the fraction its logarithm is taken of |
| `Observers` | – | each tracker or scorer under every order of its calls, with the calls remembered |
| `Composition` | `compose.rs` | operators on pattern records |
| `ComposedDelivery` | – | what composed patterns mean, in terms of the matches of their parts |
| `PatternBuilder` | `builder.rs` | the pattern under construction, every method an operator |
| `DslParser` | `lexer.rs` from words on, `ast.rs`, `parser.rs` | a parser is an operator from tokens to a set, empty on an error, of what it read and the tokens left |
| `DslCompiler` | `compiler.rs`, `lib.rs`; `expr.rs`, `let_evaluator.rs` | expansion, scopes, the builder calls; let bindings over integers |
| `Emission` | `emit.rs` | pattern to words |
| `Authoring` | – | a pattern written as text and, declaration by declaration, asked of the builder; or a document grown item by item |
| `Discovery` | `fabula-discovery`: corpus, minerful, evaluators, session | one action per step of a round |
| `Publishing` | – | **Authoring and Discovery composed** over `Emission`, compiler and parser |
| `SiftEngineProofs`, `DeliveryProofs`, `StoryProofs`, `NarrativeProofs`, `ObserverProofs`, `StoreProofs`, `RelationProofs` | – | theorems and proofs, each of the components it is named after, `DeliveryProofs` of the consumer and of composed patterns, `RelationProofs` of the interval algebra and of what Discovery mines from it (`NarrativeProofs` holds the lemmas on sequences, folds and finite sums that the next two rest on); `MatchLedger` proves its one theorem itself |
| `MC…` | – | libraries of patterns, streams of edges, things to declare, for TLC |

### How SiftEngine corresponds to the code

`pms` is the vector `partial_matches`. The code appends matches with increasing
ids and otherwise only filters, so the vector is the set of matches in id order.
`acc` is the four `tick_…` sets (expired names never outlive `end_tick`), `delta`
the `TickDelta` returned last, `metrics` the per-pattern vectors.

`Notify(i)` is the whole of `on_edge_added` for the graph's edge i:

- `Killed(e)` – phase 1, matches whose open negation window the edge violates;
- `Initiations(e)`, `Advances(e)` – the places in the loops of phases 2 and 3 where
  a match is made, as tuples whose lexicographic order is the loops' order;
  `Made` is the match made there;
- `Born` – those whose fingerprint is new to the store and to this call; `KeptOf` –
  less the completions that fail the temporal check *after* taking an id, as in
  the code (`eval.rs:421-426`);
- `IdOf` – ids in the order of the loops;
- `StoreAfter` – negation kills, `advance_in_place`, the new matches, exclusive groups;
- `MetricsAfter`, `Accumulated` – bookkeeping by *name*, for the first pattern so named.

State between calls never shows a Dead match: each operation removes those it
makes. The dedup hash is taken to be injective. Variables, values and labels are
opaque; a value that is one of `Nodes` is a node. Metadata, importance, statistics
counters and event payloads other than names are left out.

The caller (`Insert`, and the order of everything) is not in `src/` as code; it is
whatever the documentation lets a caller do, narrowed by `OrderedDelivery` and
`GameLoop` where a property holds only for the documented use.

### How the text corresponds to the code

The lexer is modelled from words on: a word that is a keyword becomes the keyword.
`DslParser` has one operator per `parse_…` method, with its order of alternatives
and its errors; `DslCompiler` expands template instances, checks scopes and calls
`PatternBuilder`'s operators. `Authoring` keeps two things side by side: `draft`, the
words written so far, and `asked`, the builder on which each declaration was called
as it was written. Reading `draft` with the parser and compiler must give what
`asked` builds.

## Runs

Every passing run explores its whole state space.

| Run | Module | Question | Bounds |
|---|---|---|---|
| `MCOrdered` | `MCOrdered` | do batch and incremental evaluation agree, and do drains lose or repeat a match? | 10 edges: 4 events with attributes, two people, five patterns; an alarm raised during an event falls on the instant at which an `unless` window begins, inside it, or on the one that ends it |
| `MCLifecycle` | `MCLifecycle` | are the books kept under every order of every operation? | 3 edges, 2 patterns of one name and one exclusive choice, 2 ticks; a gap some completions exceed, so that they are rejected |
| `MCDisorder` | `MCDisorder` | can edges out of order yield a match the graph does not bear out? | 4 batches of 7, in any order and repeated |
| `MCGameLoop` | `MCGameLoop` (`StoryLoop`) | are deadlines met, and do engine, tracker and scorer tell the same story? | 3 edges, events up to tick 1, ticks up to 4: a deadline of 2 ticks begun in the last tick with events is over by then |
| `MCCompose` | `MCCompose` | do composed patterns mean what their parts mean? | 6 events of two kinds and two people; counts up to 3 |
| `MCStores` | `MCStores` (`StoreCalls`) | do the three stores answer alike, is every cause found, and is the interval algebra that of sets of instants? | 4 edges out of 7 links between three events, in a chain, a fork and a circle, and one state of two values; 3 hops; a clock up to 3. And every pair of intervals over 5 instants: enough for every relation with strict inequalities on both sides |
| `MCObservers` | `MCObservers` (`Observers`) | does each tracker and scorer report what it was told? | 5 calls of each, in every order, resets included: one more than the window of 4 samples holds |
| `MCPublishing` | `MCPublishing` (`Publishing`) | does a pattern survive being written, compiled, emitted and read, and is what is mined true? | 3 of 18 declarations in any order and repeated, under two headers; 3 of 9 document items; corpora of up to 3 of 8 edges, two rounds |

What they establish:

- `AllDelivered`, `NoFalseMatch`: batch finds no match the engine missed, and
  the engine completes none that batch does not find at that moment.
- `DeliveredOnce`, `NoDuplicateMatch`: draining forgets fingerprints; still nothing
  is made twice.
- `IdsUnique`, `DisabledPatternsQuiet`, `ClocksAgree`, `EveryIdAccounted`,
  `CompletionClosesGroup`: the engine's books under arbitrary calls. `EveryIdAccounted`: as many
  ids are given out in a step as advances and completions are counted and completions
  rejected, though the counters are found by name and a name may be shared. `ClocksAgree` is
  what keeps `tick_counter - last_advanced_tick` (`mod.rs:368`) from wrapping.
- `LedgerSpec`: SiftEngine implements `MatchLedger`.
- `MatchesWitnessed`, `StagesInSequence`: forks, joins and loops never mix bindings,
  whatever the order of edges.
- `NoneOverdue`, `DeadlinesEnd`, `TickRemembered`, `StaleIsIdle`, `StaleReportsAgree`:
  the documented loop of a game master. A branch inherits its parent's creation
  tick, so everything that grew from an expired match expires with it.
- `TrackerKeepsUp`: the thread tracker, which sees only the names in a tick's report,
  and the engine's own counters agree on which threads are open, and on whether one was closed – a thread is closed
  no more often than its pattern completed, several completions of a tick being one
  closing – except that a pattern of one stage never advances, so it never opens its
  thread, and a private pattern is never reported.
- `ScoreTellsTheTick`: a resolution is not at the same time punished as an unresolved
  plant; weighing everything as 1 is not weighing.
- `SequenceMeansThen`, `RepeatMeansTimes`, `RangeMeansRuns`: composition.
- `AdaptersAgree`, `StateHasOneValue`: indices of one store do not drift from each
  other or from the other stores, whatever is upserted and ended in between.
- `PathsAreChains`, `ShortPathsOutrank`: the backward search finds exactly the chains of
  causal edges, circles and simultaneous edges included, and ranks them.
- `ClosingsAreReported`: right after a call, `check_filo` blames each thread the call was the first to
  close on exactly the threads opened after it and still open. Asked later it no longer does
  (`MCFilo` below).
- `CourseFollowsSamples`, `PivotSpansQuietTicks`, `ScoresAreConsistent`,
  `SharesOfWhatWasSeen`: the observers, against what was told to them.
- `TextMeansCalls`: parser and compiler add nothing, lose nothing and confuse nothing.
  `EveryReadHasAWriter`: in what the compiler accepts, a comparison reads only what its own
  stage has bound by then, or a stage that must be done before, or a sibling of its concurrent group; and lets have values. `ReadingIsIncremental`: later text takes
  nothing back. `PublishedSurvivesText`: what is emitted reads back, washed of what the
  DSL has no words for. `MinedIsBorneOut`: some two edges of the log share a node in the
  mined way and in the mined relation.

Events of the runs that compare batch with incremental evaluation use the event
vocabulary of the repository's tests: an `eventType` edge and attribute edges,
all open-ended.

### Fairness

`GameLoop` states `WF(TickEnds)` and `StoryLoop` `WF(StoryTick)`, its `end_tick` followed by
the trackers: the caller ends every tick it begins. The engine cannot move time
itself; `end_tick`'s documentation makes the caller's loop end each tick, and
nothing ever disables `end_tick`. No fairness is put on events, kills or drains.
`MaxTick` is large enough for every match begun to meet its deadline before the
bound. The other components promise nothing for later: each call ends with its work
done.

### Where the program disagrees with its documentation

These runs check one documented statement each and TLC finds it violated.

| Run | Statement | What the code does |
|---|---|---|
| `MCBatchJoin` | both modes agree (`how-the-engine-works.md:120`) | batch binds a target variable anew when the stage's source is unbound, losing the join (`free.rs:531-535`) |
| `MCGap` | closeness is "1.0 = full match" (`types.rs:210`) | gap analysis starts every clause from empty bindings that nothing fills, so no clause counts (`free.rs:343`) |
| `MCFilo` | `check_filo` reports each thread "closed while a later-opened thread was still open" (`thread.rs:191-193`) | it asks whether that thread is open *now* (`thread.rs:203`): feud opened, quest opened, feud closed, quest closed leaves nothing to report, and a thread opened only after the closing is reported as blocking it |
| `MCTemplates` | a group holds the stage indices of its concurrent block (`ast.rs:102-103`) | expanding a template in front of the block moves its stages and not the group (`compiler.rs:227`) |

Met while modelling; the models do what the code does, and the passing runs keep
clear of the case or state the property around it.

*Evaluation and engine.* The batch check of a negation accepts any source for its
first clause (`free.rs:807`, against the joins of `pattern.rs:16-19`). Batch lets one event
match two stages of an unordered group (`free.rs:464`). An event at the very end of an
`unless` window kills a match when it is told before the end (`free.rs:862`, against
`debugging-patterns.md:64`). A loop keeps the end anchor of the round before, which
closes the window (`free.rs:863`, against `composition.md:39`). The first completion of a
`repeat_range` comes after two rounds even for a minimum of one (`eval.rs:298`, against
`compose.rs:341` and `dsl.md:429`). Alternatives of an exclusive choice completed earlier or
begun later complete as well (against `composition.md:63`). With two patterns of one
name, metrics go to the first, and the second is reported stale while it advances
(`eval.rs:492`). `shared_binding` of a plant/payoff pair is never read (`mod.rs:497-499`).
`Interval::before` compares an end with a start (against its comment,
`interval.rs:120`). A negated clause whose constraint refers to an unbound variable fails
incrementally and holds in batch (`free.rs:1030`, `free.rs:673`). A name bound by `let` and
shared by a composition makes the second part fail, the name being taken
(`free.rs:71`).

*Stores.* `PetTemporalGraph` iterates newest first, so the first edge that fits a clause
differs from `MemGraph`'s. `end_edge` takes any instant, one before the edge's start too.

*Narratives and scoring.* `PivotDetector` passes the old distribution as `p`, where
`distance.rs` describes `KL(p || q)` as the surprise of an audience that expected `q` at
seeing `p`: with `KullbackLeibler` the argument order is the other one. `observe_events`
counts every completion, so without a `tick` between two of them `p` exceeds 1. A
weighted sum of exactly 0 falls back to the unweighted count (`scorer.rs`), so
weighing everything as nothing weighs it as 1; no comment says what it should, and no
property is about it.

*DSL.* A stage of a concurrent block may compare with what only a sibling binds ("symmetric
scoping", `dsl.md:216`); it then cannot match before the sibling, so the block does not match
"in any order" (`dsl.md:184`). A `let` after `instantiate` goes to the last declared stage. A bare node name as the
source of a clause becomes a variable (against `dsl.md:92`). A `!` inside `unless` is
dropped. `unless` and `temporal` accept anchors of no stage; two stages may have one
anchor; a concurrent block of one stage is accepted. Variables of a template's own are
shared by its instances. A `deadline` of 0, negated constraints and variables nothing binds
are emitted as text that does not compile; importance, inactivity, lets and
`advance_in_place` are not emitted; two clauses that accept anything are emitted with
one variable, which joins them. A global negation is emitted as a window over the
stages, which is refused when they all are in a group and is no text at all when
there are none.

*Discovery.* A mined relation whose second interval does not begin later makes a
pattern that never matches, stages being strictly ordered. Ranking equal scores
follows the order of a hash map.

## Proofs

Each theorem holds for every value of the constants that meets the named assumptions of its
module; the runs check the same definitions on their small instances.

*The engine*, `SiftEngineProofs`, and *what it delivers*, `DeliveryProofs`:

| Theorem | Statement |
|---|---|
| `TypeCorrect` | `Spec => []TypeOK` |
| `UniqueIds` | `Spec => []IdsUnique` |
| `Deduplication` | `Spec => []NoDuplicateMatch` |
| `DisabledQuiet` | `Spec => []DisabledPatternsQuiet` |
| `ClockAgreement` | `Spec => []ClocksAgree` |
| `NothingUncounted` | `Spec => EveryIdAccounted` |
| `GroupsClose` | names distinct: `Spec => CompletionClosesGroup` |
| `StaleMeansIdle` | names distinct: `Spec => []StaleIsIdle` |
| `ImplementsLedger` | `Spec => LedgerSpec` |
| `SequenceInOrder` | `BlockLibrary`: `Spec => []StagesInSequence` |
| `EveryStageWitnessed` | `BlockLibrary`, `AnchoredLibrary`: `Spec => []MatchesWitnessed` |
| `NothingDrainedTwice` | `OneEventEach`: `ConsumerSpec => []DeliveredOnce` |
| `NothingLost` | `BlockLibrary`, `EventVocabulary`, `StepwiseLibrary`: `ConsumerSpec => []AllDelivered` |
| `NothingFalse` | these, `AnchoredLibrary`, `OneEventEach`, `LastingLibrary`: `ConsumerSpec => NoFalseMatch` |
| `SequenceMeansThenAlways` | the same six and `SequenceAsked`: `OrderedSpec => []SequenceMeansThen` |
| `RepeatMeansTimesAlways` | the same six and `RepeatAsked`: `OrderedSpec => []RepeatMeansTimes` |

*The loop of a host that ends every tick with `end_tick`*, `StoryProofs`:

| Theorem | Statement |
|---|---|
| `DeltaForgetsNothing` | `LoopSpec => []TickRemembered` |
| `DeadlinesHold` | `LoopSpec => []NoneOverdue` |
| `StaleReportsMeet` | for any caller: `Spec => []StaleReportsAgree` |
| `TrackerInStep` | `StorySpec => []TrackerKeepsUp` |
| `TheScoreTells` | names distinct: `StorySpec => []ScoreTellsTheTick` |

*Trackers and scorers under every order of their calls*, `ObserverProofs`, on the lemmas of
`NarrativeProofs`; *stores*, `StoreProofs`; *intervals and mining*, `RelationProofs`; *the ledger*, `MatchLedger`:

| Theorem | Statement |
|---|---|
| `FiloReport` | `ObserversSpec => ClosingsAreReported` |
| `PivotReport` | `ObserversSpec => []PivotSpansQuietTicks` |
| `SharesReport` | `ObserversSpec => []SharesOfWhatWasSeen` |
| `ScoresReport` | `ObserversSpec => []ScoresAreConsistent` |
| `CourseReport` | `ObserversSpec => []CourseFollowsSamples` |
| `StatesAreFunctions` | `CallsSpec => []StateHasOneValue` |
| `AdaptersAlike` | `CallsSpec => []AdaptersAgree` |
| `PathsAreTheChains` | `CallsSpec => []PathsAreChains` |
| `ShortPathsAreCleanest` | `CallsSpec => []ShortPathsOutrank` |
| `IntersectionIsCommonInstant`, `SwappingInverts`, `GapsAreDistances` | for every set of integer instants |
| `MiningIsBorneOut` | edges end after they begin: `DiscoverySpec => []MinedIsBorneOut` |
| `LedgerIdsUnique` | the ledger alone keeps its ids apart |

### From which assumptions

The assumptions on constants are named in the module that declares them and evaluated by TLC
in each run: `BatchesAssumption`, `BoundsAssumption`, `DeadlinesAssumption` and
`LibraryAssumption` of `SiftEngine`; `TimesAssumption` of `IntervalPairs`; `CallsAssumption` of
`StoreCalls`; `DiscoveryAssumption` of `Discovery`; `ObserversAssumption`, `ThreadsAssumption`, `WindowAssumption` and `ScorerAssumption`
of `Observers` and the trackers. `LibraryAssumption` says what `PatternBuilder::build` and the
composition operators produce: finitely many stages, unordered groups of consecutive
stages, a repeat range that starts at a stage, and group stages within the 64 bits of
`matched_stages`, which the code does not enforce. `WindowAssumption` asks for a window of at least
three samples, as the constructor does (`tension.rs`). `CallsAssumption` says of edges and
values that they are the records the adapters keep, that starts are integers, and that there are
finitely many causal labels, as of any `HashMap`, whose weights are counted in whole units.

Some theorems have a hypothesis besides, because they are false without it and the
code does not see to it. TLC evaluates them for the libraries of the runs (`AsTheoremsAsk` in
`MCOrdered`, `MCDisorder`, `MCLifecycle`, `MCGameLoop`, `MCCompose` and `MCPublishing`):

- `UniqueNames`: no two patterns of one name. With two, metrics go to the first.
- `BlockLibrary`: the anchors of a pattern are distinct, a segment is a block of consecutive stages, and
  a repeat goes back to the start of one.
- `AnchoredLibrary`: the first clause of a stage has the stage's anchor as its source and does not bind
  back to it (`try_match_stage`, `free.rs:1001-1013`, binds the source and then the target
  without looking whether they are one); what a clause binds to an anchor is a node; and
  the variables a repeat clears are used by no earlier stage, which `repeat_range`'s
  renaming provides.
- `OneEventEach`: of the edges of a batch at most one can be a stage's event. Were an edge told
  twice at one instant, the match it completed, drained in between, would be completed again.
- `EventVocabulary`: how a caller writes events down. An event is a node of its own; its edges have no end,
  begin with it and come in one batch, one of a label, the one that can be a stage's event
  before those that can only trigger a negation.
- `StepwiseLibrary`: patterns for which an event at a time finds what the whole graph shows. The clauses
  of a stage are about its event, the first by a value, but for negated ones, which may be
  about what the stage has bound by then; an `unless` is about an event of its own, and what it
  compares with the match was bound when its window began; no event can be that of two stages of a
  group, nor close an `unless` window and trigger it. And of the options by which a
  match gives way to another, or is hidden, none is used: no exclusive group, no `advance_in_place`, not
  private, no repeat range that asks for more than two rounds. What goes wrong outside these the runs
  show, `MCBatchJoin` for stages whose first clause binds a variable.
- `LastingLibrary`: patterns whose matches stand up to batch evaluation, which looks at everything at the clock
  and at the end. A negated clause is about the event of its stage, unless the pattern has but one: `on_edge_added` asked
  at the time of the event, batch asks again later. A pattern that repeats has no `unless`: a loop
  drops the bindings it was compared with. The first clause of an `unless` joins with no variable of the
  match, as `check_negations_batch` does not join it (`check_negation_kill` does). An `unless`
  either ends with a stage or has a clause that only the event of a stage can match: otherwise an
  edge of the very event that completes the match, told of after it, voids the match in batch
  but not in the engine. And no temporal constraint is of a stage with itself, since the first match of
  a one-stage pattern is made without `check_temporal`.
- `SequenceAsked`, `RepeatAsked`: what is composed and how it is named. A part (`PartPattern`) has stages and no
  negation; each of its stages is about its event alone, its groups are blocks of its stages and its
  temporal constraints are between its anchors. Prefixes keep a part's names apart from each other (`Apart`)
  and from the other part's, the shared ones excepted (`ApartBut`), as the strings of `compose.rs` do unless
  a name already looks like a prefixed one; and no anchor of a repeated part is shared, or one
  event would be that of all repetitions. Nothing is asked of what the parts match.
- `ProperEdges`: no edge of a log ends before it has begun, which `Interval::new` does not see to. Its
  start could be beyond every end, and the evaluator's clock, one past the latest, before it.

### Along which argument

*The books.* The inductive invariant is the conjunction
`TypeOK /\ IdsUnique /\ NoDuplicateMatch /\ DisabledPatternsQuiet /\ ClocksAgree`.
`Invariance` shows each action preserves it; all but `Notify` only filter
matches, move clocks forward or change what the invariant does not read. For
`Notify`:

- *ids*: attempts are finitely many and `Precedes` orders them totally, so
  `IdOf` is injective on `Born`, starts at `next_match_id` and stays below
  `next_match_id + |Born|` – rejected completions leave gaps, never collisions;
- *duplicates*: two attempts of equal fingerprint cannot both be born, and none is
  born whose fingerprint is stored (the stored matches' fingerprints do not
  change because matches do not);
- *enabled*: what a call makes belongs to enabled patterns, whether started or
  advanced;
- *clocks*: a match made takes the current tick, and its event moves its
  pattern's clock to it. This needs *every* new match to be counted for the first
  pattern of its name, which is why `ClocksAgree` is stated with `FirstNamed`.

`StaleIsIdle` follows from `ClocksAgree` with distinct names. `NothingUncounted`: every match stored
was made by a call that also raised the counter of the first pattern of its name, counters
are never lowered, and what a call gives an id (`Born`) it either keeps and counts, or rejects (`BornKeptOrRejected`). `ImplementsLedger` maps `Active`, `Complete` and `next_match_id`; `Notify` enters
matches, `DrainCompleted` drains, the rest retire active matches or stutter; `IdsUnique` gives the
freshness the ledger asks for.

*Order of stages.* That passed stages started in order is not inductive: what `InOrder`
checks of a new interval is against every interval the match holds, and a loop puts
the match back to an earlier stage. `AllSequenced` adds that a match stands at the
start of a segment or past the last, with marks only on stages behind it or in that
segment, and that it holds intervals of nothing else than what it passed. Then an advance writes an interval later than all those behind
(`AdvancedSequenced`), and after a loop what stands behind the match is what was in front
of the repeated segment and is unchanged (`LoopedSequenced`).

*Witnesses.* `MatchesWitnessed` says of each stage passed that one edge of the graph is its event
and agrees with the match's *final* bindings. The invariant behind it vouches for a stage with the
bindings at hand; bindings only grow, except where a loop clears the variables of a
repeated segment. So it also says which variables are *firm*: those the stages in front
of the segment use are never among the cleared ones. What an advance binds extends what was bound
(`BindNewExtends`, `TryMatchSteps`: the recursion over clauses, taken one clause at a time).

*Nothing drained twice.* Fingerprints are forgotten with the matches drained, so what protects a
caller is time: nothing stored or delivered holds an interval of the future, nor one of the present
while an event of the present is awaited (`NothingAhead`, `Horizon`), and a new completion
holds the interval of the event that completed it. Hence it differs from all that was delivered.

*Nothing lost.* A *picture* (`Picture`) is a set of stages with an event of the graph for each of them,
in order, told to the engine, that one choice of bindings fits and no `unless` told so far
disturbs. The inductive invariant, `AllPictured` with `EventsInOrder`, says that for each
picture the store has the match that stands where the picture ends, with the bindings of its stages and
no more, or, if it is of the whole pattern, that this match was drained. It is about all
sets of stages, not only whole patterns, as a whole picture grows from its parts. When the engine is told of an
edge, a picture that uses it as its latest event was one without it before (`PictureBefore`), whose
match still waits and is advanced by just this edge (`StillThere`, `AdvancedShows`), or which began with it (`StartedShows`); what such an attempt makes is
stored unless an equal match is there, which then shows the picture (`LatestStored`). A
picture that does not use the edge keeps its match, because what would kill it would disturb the
picture (`ShownStays`). When a batch is inserted no picture comes into being that was
not one before: what the clauses of a stage look up is the event's, and a clause about
an older node looks at the time of the event (`InsertPictures`). In the end each match batch
evaluation finds, taken through its cascade stage by stage (`CascadeTaken`), is a whole picture
(`BatchPictured`): `check_temporal` compares only neighbouring segments, and by induction all are in
order (`StartsOrdered`).

*Nothing false.* The inductive invariant, `AllBorneOut`, says of each match in progress what batch
evaluation would ask of it as far as it got: each stage it passed has an edge, told to the engine, that fits the stage
with the match's bindings as batch evaluation tests it (`Fits`), it holds the interval
of that edge and nothing of the future, it binds and holds nothing beyond the pattern, and no edge told falls in one of its
windows and completes a negation (`Calm`). It is kept by an edge told since a match it disturbs is killed
(`SparedBorne`) and what `try_match_stage` binds fits (`StageMatchFits`); by a loop, which clears what its
own segment binds and no other stage is about (`LoopedBorne`); and by a batch inserted, since
what fits goes on to fit and nothing told begins to complete a negation (`InsertBorne`). A match that
completes is borne out in every stage, and from its bindings the cascade of batch evaluation can be followed
stage by stage (`CascadeFollows`). What is left is the negations: the edge that would void the
match was either told, and disturbs no window, or comes with the event that has just completed the match;
then the window has no end and the event itself completes the negation (`CompleteAllowed`).

*Composition.* What a pattern of the library without negation has matched in the end is what `Occurs` of it:
stages in order with an event of the graph each, one choice of bindings that fits them all, and no
variable or interval besides. That is `AllPictured` and `AllBorneOut` put together for a caller who does not
drain (`CompletedAreOccurrences`), and it is what batch evaluation finds of a part that is not registered
(`OccurrencesAre`). What remains is about patterns: a joined pattern occurs exactly when its two parts do, the second wholly
later and with the same value of each common variable (`JoinedOccurs`), for which segments, anchors and temporal
constraints of the whole are shown to be those of the parts, shifted (`JoinedSegments`, `JoinedOrdered`); a
renamed pattern occurs with renamed bindings exactly when the pattern does (`RenamedOccurs`); so of two renamed
parts the later continues the earlier exactly when the unrenamed occurrences do (`ContinuedOccurs`).
A repetition is a sequence of sequences: by induction over the number of repetitions, an
occurrence of the first k is a run of k offenses put together (`RunsShown`). The engine asks of
the next repetition that it comes after *all* before it, and agrees with all of them, and a run only that it continues
the last; that these are the same is `ContinuesLast`.

*The loop.* `NoneOverdue` needs that a match made in a tick takes its creation tick
from the match it grew from or from the clock, both within bounds after the last
`end_tick`; `EndTick` removes just those that would break it. `TickRemembered` needs that
`Notify` enters the name of each match it makes, and that drains, kills and switches
touch no accumulator. A step of the loop is a step of the engine, so `Inv` is
inherited. `StaleReportsAgree` follows from `DisabledPatternsQuiet`: a pattern with a match in
progress is enabled, and that is the only difference between the two reports.

*Tracker and score.* `TrackerKeepsUp` compares the thread tracker, which sees names in reports, with the
engine's counters. In mid-tick the two differ by what the accumulators hold, and `KeepsUp` says so:
whatever is told, or about to be, was counted; what was counted for a thread is recorded in
its orders or waits in an accumulator; and a pattern of several stages advanced before it
completed. With
distinct names and each thread opened once (`OpenedOnce`) the same invariant gives
`ScoreTellsTheTick`.

*Trackers alone.* Each report is a function of the calls, so the invariant says of each field of
a tracker what it is of the calls remembered: a thread is in the order of opening once
and at its first opening (`OpenedOnce`), and what the shrinking loop of `check_filo` blames on whom
does not depend on the order of closings (`FiloPairs`, `FiloBlames`); the pivot detector's distribution is that of the last
eventful tick (`PivotInv`); the share of a round is kept with the round (`RoundsKept`), and a row of
shares adds up by sums over finite sets (`RowAddsUp`). For `ScoresAreConsistent` the tables of both
scorers are well kept and a pattern's table is the sum of its roles' (`TablesInv`), the code's
folds being taken place by place (`LoopKeeps`); the correction for pairs only
raises a score, because it applies only where a pair was seen more often than twice what its two
parts would give (`pair·N > 2·c_a·c_b`). `NothingAboveUnobserved` is about the arithmetic mean and the minimum, and about the
geometric mean by role; it makes no claim for `TfIdf`, where "1.0
(maximally unsurprising)" (`stu.rs:231-232`) is no extreme of the scale.
`CourseFollowsSamples` says what the sign of a least-squares slope means: a course that never
falls has no falling slope and mirrored samples have a mirrored one. It is Chebyshev's sum
inequality with the samples in order of time (`SamplesInv`).

*Stores.* Of the edges of one state all but the last ended no later than their successor began
(`Kept`), so at no instant do two hold. The adapters agree because each link occurs as often
in the vector, in its source's list under its one index, and among the records it can be read
from (`AdaptersInv`); what a scan returns depends on no more than that. For causes, a *trail* is a
path told from the effect back (`Trail`): by induction over hops, what the search holds after h
hops are trails of h edges with their nodes and branches (`HopsWalk`), and every trail of h edges
is held (`TrailsFound`); told in reverse a trail is a chain and the other way round
(`TrailsAreChains`). No branch count falls along a path and no gap is negative, so of equal
weights the first hop is the cleanest (`OneHopCleanest`).

*Intervals.* A chain of conditions, one per relation, is shown to have exactly one that
holds of two proper intervals (`RelationCases`); each property is then a case per
relation.

*Mining.* Once a session has begun its log stays, and what was proposed is of the statistics of that
very log (`MiningInv`). A statistic is found at its example: the first hit in its relation exists, and
shares a node in the way the pattern says (`StatsBorneOut`); read back, its two edges are the two stages
(`ReadsBack`). In the evaluator's copy both are open-ended and below its clock (`AllCovered`), the
first binds what the second is joined with, in each of the four ways to share a node
(`FirstStageFinds`, `NextStageFinds`), and their starts are strictly ordered when one ended before the
other began (`BeforeStarts`), so that the temporal check passes and a match is found (`BuiltMatches`). Surprise
is never withheld because the two labels differ: neither is the label of every edge (`BuiltSurprises`).

Induction over data, where these arguments need it, is over the naturals, by the least element of
a set of them, or over a finite set taken element by element (`OneByOne`); both are stated
in terms of sets, which the provers can instantiate.

### Only model-checked

- `RangeMeansRuns`: the loops of `repeat_range` are not those of batch evaluation, by which the other
  two properties of composition are proved.
- `TextMeansCalls`, `EveryReadHasAWriter`, `PublishedSurvivesText`, `ReadingIsIncremental`: parser and compiler
  are recursive operators, which the prover does not handle in a module with theorems.
- `DeadlinesEnd`: the prover has no liveness under fairness.

## Not modelled

- The bindings for JavaScript: they convert values and call the engine.
- Benchmarks, examples, the golden tests: harnesses. Their scenarios gave the runs their vocabulary.
- `tick_delta` (a fold over events the caller kept), statistics counters, query helpers, the
  evaluation limit.
- Floating point. Logarithms, roots, exponentials are compared by their arguments; a
  distance of distributions is known by whether it is zero, maximal or infinite; a
  candidate's score in discovery by whether it is positive.
- The spelling of tokens, comments and positions in error messages.
- Hash collisions of fingerprints, and patterns of more than 64 stages.
- Edges that are closed after the engine was told of them: `StoreCalls` closes edges,
  the engine's runs do not. Let bindings are evaluated in `DslCompiler`, but the
  engine's matches carry none.

## What is left

1. Let bindings and edges with ends in `SiftEngine`'s matches, and what closing an edge
   does to the agreement of batch and incremental evaluation.
2. Proofs: the meaning of `repeat_range`, over the rounds a match has gone.
3. The order of drains against `on_edge_added` within `StoryLoop`, with a tension and a pivot
   tracker fed from the same ticks.
