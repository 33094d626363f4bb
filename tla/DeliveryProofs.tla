--------------------------- MODULE DeliveryProofs ---------------------------
(***************************************************************************)
(* What the engine delivers to the caller that tells of one event after    *)
(* the other, for every library of patterns.                               *)
(*                                                                         *)
(* No match is drained twice: NothingDrainedTwice.  And none that batch    *)
(* evaluation finds is lost: NothingLost, over pictures, the ways events   *)
(* can take through the stages of a pattern.  As long as the engine's      *)
(* store has the match where each picture ends (AllPictured, the inductive *)
(* invariant) it has those where a picture of the whole pattern ends, and  *)
(* what batch evaluation finds is such a picture.                          *)
(*                                                                         *)
(* None is completed that batch evaluation does not find: NothingFalse,    *)
(* over what the graph bears out of a match in progress (AllBorneOut, the  *)
(* inductive invariant).                                                   *)
(*                                                                         *)
(* So the complete matches are the occurrences of the pattern (AllFaithful *)
(* and Occurs), and composed patterns match what they mean:                *)
(* SequenceMeansThenAlways, RepeatMeansTimesAlways.                        *)
(***************************************************************************)
EXTENDS SiftEngineProofs, Consumer, ComposedDelivery

-----------------------------------------------------------------------------
(* No match drained twice, under the caller that tells of one event after  *)
(* the other.  What tells a new match from all before it is the event that *)
(* completes it: it is later than everything any match holds.              *)

\* Every interval held started at t or before
HeldBy(intervals, t) ==
  \A x \in DOMAIN intervals : intervals[x].start \in Int /\ intervals[x].start <= t

\* Events that are still to be told
Awaited == {i \in Pending : graph[i].label \in StageLabels}

\* Up to when the engine has been told of everything: the event awaited is the
\* only one of its time
Horizon == IF Awaited = {} THEN now ELSE now - 1

\* No match, stored or delivered, holds anything past the horizon
NothingAhead ==
  /\ now \in Int
  /\ \A i \in Awaited : graph[i].interval.start = now /\ \A j \in Awaited : i = j
  /\ \A pm \in pms : HeldBy(pm.intervals, Horizon)
  /\ \A d \in delivered : HeldBy(d[3].intervals, Horizon)

\* Time only adds to what may be held
LEMMA HeldLonger ==
  ASSUME NEW intervals, NEW t \in Int, NEW u \in Int, t <= u, HeldBy(intervals, t)
  PROVE  HeldBy(intervals, u)
BY DEF HeldBy

\* A stage an edge matches has that edge's label in front
LEMMA StageLabelled ==
  ASSUME NEW i \in DOMAIN Library, NEW s \in 1..StageCount(Library[i]), NEW e, NEW b,
         Matches(i, s, e, b)
  PROVE  e.label \in StageLabels
<1>1. FirstClauseMatches(Library[i].stages[s], e, b)
  BY Zenon DEF Matches, TryMatchStage
<1>2. Library[i].stages[s].clauses[1].label = e.label
  BY <1>1 DEF FirstClauseMatches
<1> QED BY <1>2 DEF StageLabels

\* A match made by an edge holds the edge's interval, and else only what its
\* parent held
KeptWithin(m, e) ==
  /\ \E x \in DOMAIN m.intervals : m.intervals[x] = e.interval
  /\ \A x \in DOMAIN m.intervals :
       \/ m.intervals[x] = e.interval
       \/ \E pm \in pms : x \in DOMAIN pm.intervals /\ m.intervals[x] = pm.intervals[x]

\* An advance enters the edge under the anchor of its stage
LEMMA AdvancedHolds ==
  ASSUME TypeOK, NEW pm \in Active, NEW s, NEW e
  PROVE  KeptWithin(AdvancedMatch(pm, s, e), e)
<1> DEFINE a == Library[pm.pattern_idx].stages[s].anchor
           m == AdvancedMatch(pm, s, e)
<1>1. DOMAIN pm = MatchFields /\ pm \in pms
  BY DEF TypeOK, IsMatch, Active
<1>2. m.intervals = WithInterval(pm.intervals, a, e.interval)
  BY <1>1 DEF AdvancedMatch, MatchFields
<1> HIDE DEF m, a
<1>3. /\ DOMAIN m.intervals = DOMAIN pm.intervals \cup {a}
      /\ \A x \in DOMAIN m.intervals :
           m.intervals[x] = IF x = a THEN e.interval ELSE pm.intervals[x]
  BY <1>2 DEF WithInterval
<1> QED BY <1>1, <1>3 DEF KeptWithin, m

\* A match that loops keeps its intervals
LEMMA LoopedHolds ==
  ASSUME TypeOK, NEW pm \in Active, NEW s, NEW e, NEW rr
  PROVE  KeptWithin(LoopedMatch(pm, s, e, rr), e)
<1>1. DOMAIN pm = MatchFields
  BY DEF TypeOK, IsMatch, Active
<1>2. DOMAIN AdvancedMatch(pm, s, e) = MatchFields
  BY <1>1 DEF AdvancedMatch, MatchFields
<1>3. LoopedMatch(pm, s, e, rr).intervals = AdvancedMatch(pm, s, e).intervals
  BY <1>2 DEF LoopedMatch, MatchFields
<1> QED BY <1>3, AdvancedHolds DEF KeptWithin

\* Whatever an edge makes holds the edge, and the edge is an event
LEMMA MadeHolds ==
  ASSUME TypeOK, IdsUnique, NEW e, NEW k \in Attempts(e)
  PROVE  KeptWithin(Made(e, k), e) /\ e.label \in StageLabels
<1>1. CASE k \in Initiations(e)
  <2>1. PICK i \in Pats : Library[i].stages # << >> /\
               \E s \in Segment(Library[i], 1) :
                 Matches(i, s, e, NoBindings) /\ k = <<0, i, s, 0>>
    BY <1>1, Zenon DEF Initiations
  <2>2. PICK s \in Segment(Library[i], 1) : Matches(i, s, e, NoBindings) /\ k = <<0, i, s, 0>>
    BY <2>1
  <2>3. Made(e, k) = Initiated(i, s, e)
    BY <2>2 DEF Made
  <2>4. KeptWithin(Initiated(i, s, e), e)
    BY DEF KeptWithin, Initiated
  <2> QED BY <2>1, <2>2, <2>3, <2>4, StartedStage, StageLabelled
<1>2. CASE k \in Advances(e)
  <2>1. PICK pm \in Advancing(e) : \E s \in TryStages(pm, e) : \E br \in Branches(pm, s, e) :
               k = <<1, pm.id, s, br>> /\ Parent(k) = pm
    BY <1>2, ParentOfAdvance
  <2>2. PICK s \in TryStages(pm, e) : \E br \in Branches(pm, s, e) : k = <<1, pm.id, s, br>>
    BY <2>1
  <2>3. PICK br \in Branches(pm, s, e) : k = <<1, pm.id, s, br>>
    BY <2>2
  <2>4. pm \in Active /\ s \in 1..StageCount(Library[pm.pattern_idx])
    BY TriedStage
  <2>5. pm.pattern_idx \in DOMAIN Library /\ Matches(pm.pattern_idx, s, e, pm.bindings)
    BY <2>4, ActiveUnfinished DEF TryStages
  <2>6. e.label \in StageLabels
    BY <2>4, <2>5, StageLabelled
  <2>7. k[1] = 1 /\ k[3] = s /\ k[4] = br /\ Parent(k) = pm
    BY <2>1, <2>3
  <2>8. CASE br = 0
    <3>1. Made(e, k) = AdvancedMatch(pm, s, e)
      BY <2>7, <2>8 DEF Made
    <3> QED BY <2>4, <2>6, <3>1, AdvancedHolds
  <2>9. CASE br # 0
    <3>1. Made(e, k) = LoopedMatch(Parent(k), k[3], e,
                                   CHOOSE r \in Library[Parent(k).pattern_idx].repeat_range : TRUE)
      BY <2>7, <2>9 DEF Made
    <3>2. PICK rr : rr = CHOOSE r \in Library[pm.pattern_idx].repeat_range : TRUE
      OBVIOUS
    <3>3. Made(e, k) = LoopedMatch(pm, s, e, rr)
      BY <2>7, <3>1, <3>2
    <3> QED BY <2>4, <2>6, <3>3, LoopedHolds
  <2> QED BY <2>8, <2>9
<1> QED BY <1>1, <1>2 DEF Attempts

\* What a call adds to the store holds the edge it was told of
LEMMA AddedHolds ==
  ASSUME TypeOK, IdsUnique, NEW e, NEW pm \in StoreAfter(e, MatchesMade(e)), pm \notin pms
  PROVE  KeptWithin(pm, e) /\ e.label \in StageLabels
<1> DEFINE made == MatchesMade(e)
<1>1. pm \in NewMatches(made)
  BY StoreAfterParts
<1>2. PICK k \in KeptOf(made) : pm = [made[k] EXCEPT !.id = IdOf(made, k)]
  BY <1>1, Zenon DEF NewMatches
<1>3. k \in Attempts(e) /\ made[k] = Made(e, k)
  BY BornFacts
<1>4. DOMAIN made[k] = MatchFields /\ KeptWithin(made[k], e) /\ e.label \in StageLabels
  BY <1>3, MadeHolds, MadeIsMatch DEF GoodMatch, IsMatch
<1> HIDE DEF made
<1>5. pm.intervals = made[k].intervals
  BY <1>2, <1>4 DEF MatchFields
<1> QED BY <1>4, <1>5 DEF KeptWithin

\* What a caller sees of a match are its intervals too
LEMMA DrainedIntervals ==
  ASSUME NEW S, NEW d \in MatchesOf(S)
  PROVE  \E pm \in S : d[3].intervals = pm.intervals
BY DEF MatchesOf, MatchOf

\* A caller of events that happen one by one is a caller of the engine
LEMMA ConsumerSteps ==
  /\ [OrderedNext]_vars \/ [ConsumerNext]_<<vars, delivered>> => [OrderedNext \/ DrainCompleted]_vars
  /\ [OrderedNext \/ DrainCompleted]_vars => [Next]_vars
BY DEF ConsumerNext, OrderedNext, InsertNext, NotifyNext, Next

\* Being told of an edge keeps everything behind the horizon, and completes
\* nothing that was delivered before
LEMMA NotifyKeeps ==
  ASSUME Inv, NothingAhead, DeliveredOnce, NEW i \in DOMAIN graph, NotifyNext(i),
         delivered' = delivered
  PROVE  NothingAhead' /\ DeliveredOnce'
<1> DEFINE e == graph[i]
<1>1. /\ i \in Pending /\ pms' = StoreAfter(e, MatchesMade(e)) /\ TypeOK /\ IdsUnique
      /\ graph' = graph /\ now' = now /\ notified' = notified \cup {i}
  BY DEF NotifyNext, Notify, OnEdgeAdded, Inv
<1>2. Awaited' = Awaited \ {i}
  BY <1>1 DEF Awaited, Pending
<1>3. now \in Int /\ Horizon \in Int /\ Horizon <= Horizon' /\ Horizon' \in Int
  BY <1>1, <1>2 DEF NothingAhead, Horizon
<1>4. \A m \in pms' : m \in pms \/ (KeptWithin(m, e) /\ e.label \in StageLabels)
  BY <1>1, AddedHolds
<1>5. ASSUME e.label \in StageLabels
      PROVE  e.interval.start = now /\ Horizon = now - 1 /\ Horizon' = now
  <2>1. i \in Awaited
    BY <1>1, <1>5 DEF Awaited
  <2>2. e.interval.start = now /\ Awaited = {i}
    BY <2>1 DEF NothingAhead
  <2> QED BY <1>1, <1>2, <2>2 DEF Horizon
<1>6. \A m \in pms : HeldBy(m.intervals, Horizon')
  BY <1>3, HeldLonger DEF NothingAhead
<1>7. \A d \in delivered : HeldBy(d[3].intervals, Horizon')
  BY <1>3, HeldLonger DEF NothingAhead
<1>8. ASSUME NEW m \in pms', m \notin pms
      PROVE  HeldBy(m.intervals, Horizon')
  <2>1. KeptWithin(m, e) /\ e.interval.start = now /\ Horizon' = now
    BY <1>4, <1>5, <1>8
  <2>2. ASSUME NEW x \in DOMAIN m.intervals
        PROVE  m.intervals[x].start \in Int /\ m.intervals[x].start <= Horizon'
    <3>1. CASE m.intervals[x] = e.interval
      BY <1>3, <2>1, <3>1
    <3>2. ASSUME NEW pm \in pms, x \in DOMAIN pm.intervals, m.intervals[x] = pm.intervals[x]
          PROVE  <2>2!2!1 /\ <2>2!2!2
      BY <1>6, <3>2 DEF HeldBy
    <3> QED BY <2>1, <3>1, <3>2 DEF KeptWithin
  <2> QED BY <2>2 DEF HeldBy
<1>9. NothingAhead'
  <2>1. \A j \in Awaited' : graph'[j].interval.start = now' /\ \A k \in Awaited' : j = k
    BY <1>1, <1>2 DEF NothingAhead
  <2>2. \A m \in pms' : HeldBy(m.intervals, Horizon')
    BY <1>6, <1>8
  <2> QED BY <1>1, <1>3, <1>7, <2>1, <2>2 DEF NothingAhead
<1>10. ASSUME NEW d \in MatchesOf(Complete'), d \in delivered
       PROVE  FALSE
  <2>1. PICK m \in Complete' : /\ d = <<m.pattern_idx, m.repetition_count, MatchOf(m)>>
                               /\ d[3].intervals = m.intervals
    BY <1>10 DEF MatchesOf, MatchOf
  <2>2. HeldBy(m.intervals, Horizon)
    BY <1>10, <2>1 DEF NothingAhead
  <2>3. m \in pms' /\ m.state = "Complete"
    BY DEF Complete
  <2>4. CASE m \in pms
    <3>1. d \in MatchesOf(Complete)
      BY <2>1, <2>3, <2>4 DEF MatchesOf, Complete
    <3> QED BY <1>10, <3>1 DEF DeliveredOnce
  <2>5. CASE m \notin pms
    <3>1. KeptWithin(m, e) /\ e.interval.start = now /\ Horizon = now - 1
      BY <1>4, <1>5, <2>3, <2>5
    <3>2. PICK x \in DOMAIN m.intervals : m.intervals[x].start = now
      BY <3>1 DEF KeptWithin
    <3> QED BY <1>3, <2>2, <3>1, <3>2 DEF HeldBy
  <2> QED BY <2>4, <2>5
<1>11. DeliveredOnce'
  <2>1. MatchesOf(Complete') \cap delivered = {}
    BY <1>10
  <2>2. MatchesOf(Complete)' = MatchesOf(Complete')
    BY Zenon DEF MatchesOf, MatchOf
  <2> QED BY <2>1, <2>2 DEF DeliveredOnce
<1> QED BY <1>9, <1>11

\* A new batch brings at most one event, later than the horizon
LEMMA InsertKeeps ==
  ASSUME OneEventEach, Inv, NothingAhead, NEW es \in Batches, InsertNext(es)
  PROVE  /\ now' \in Int /\ Horizon \in Int /\ Horizon' \in Int /\ Horizon <= Horizon'
         /\ \A i \in Awaited' : graph'[i].interval.start = now' /\ \A j \in Awaited' : i = j
<1> DEFINE n == Len(graph)
<1>1. graph \in Seq(Edge) /\ es \in Seq(Edge) /\ n \in Nat /\ Len(es) \in Nat
  BY BatchesAssumption, LenProperties DEF Inv, TypeOK, BatchesAssumption
<1>2. /\ graph' = graph \o es /\ notified' = notified /\ Pending = {} /\ now \in Int
      /\ \A i \in DOMAIN es : es[i].interval.start = now + 1
      /\ now' = CHOOSE t \in {now} \cup {es[i].interval.start : i \in DOMAIN es} :
                  t >= now /\ \A i \in DOMAIN es : es[i].interval.start <= t
  BY DEF InsertNext, Insert, NothingAhead
<1>3. Awaited = {} /\ Horizon = now
  BY <1>2 DEF Awaited, Horizon
<1>4. /\ DOMAIN es = 1..Len(es) /\ DOMAIN graph = 1..n
      /\ DOMAIN graph' = 1..(n + Len(es))
      /\ \A i \in DOMAIN graph : graph'[i] = graph[i]
      /\ \A i \in DOMAIN graph' : i \notin DOMAIN graph => i - n \in DOMAIN es /\ graph'[i] = es[i - n]
  <2> HIDE DEF Edge
  <2> QED BY <1>1, <1>2, ConcatProperties, LenProperties
<1>5. (DOMAIN es = {} => now' = now) /\ (DOMAIN es # {} => now' = now + 1)
  <2> DEFINE T == {now} \cup {es[i].interval.start : i \in DOMAIN es}
             Late(t) == t >= now /\ \A i \in DOMAIN es : es[i].interval.start <= t
  <2>1. CASE DOMAIN es = {}
    <3>1. T = {now}
      BY <2>1
    <3>2. now \in T /\ Late(now) /\ now' = CHOOSE t \in T : Late(t)
      BY <1>2, <2>1, <3>1
    <3> HIDE DEF T, Late
    <3> QED BY <2>1, <3>1, <3>2
  <2>2. CASE DOMAIN es # {}
    <3>1. PICK i \in DOMAIN es : TRUE
      BY <2>2
    <3>2. es[i].interval.start = now + 1 /\ now + 1 \in T /\ Late(now + 1)
      BY <1>2, <3>1
    <3>3. now' = CHOOSE t \in T : Late(t)
      BY <1>2
    <3>4. \A t \in T : Late(t) => t = now + 1
      BY <1>2, <3>2
    <3> HIDE DEF T, Late
    <3> QED BY <2>2, <3>2, <3>3, <3>4
  <2> QED BY <2>1, <2>2
<1>6. \A i \in Awaited' : i \in DOMAIN graph' /\ i \notin DOMAIN graph /\ graph'[i].label \in StageLabels
  <2> SUFFICES ASSUME NEW i \in Awaited', i \in DOMAIN graph
               PROVE  FALSE
    BY DEF Awaited, Pending
  <2>1. i \in Pending
    BY <1>2, <1>4 DEF Awaited, Pending
  <2> QED BY <1>2, <2>1
<1>7. ASSUME NEW i \in Awaited', NEW j \in Awaited'
      PROVE  graph'[i].interval.start = now' /\ i = j
  <2>1. /\ i - n \in DOMAIN es /\ graph'[i] = es[i - n] /\ es[i - n].label \in StageLabels
        /\ j - n \in DOMAIN es /\ graph'[j] = es[j - n] /\ es[j - n].label \in StageLabels
    BY <1>4, <1>6
  <2>2. i - n = j - n /\ i \in Int /\ j \in Int
    BY <1>4, <1>6, <2>1 DEF OneEventEach
  <2>3. es[i - n].interval.start = now + 1 /\ now' = now + 1
    BY <1>2, <1>5, <2>1
  <2> QED BY <1>1, <2>1, <2>2, <2>3
<1>8. now' \in Int /\ Horizon' \in Int /\ now <= Horizon'
  <2>1. /\ Awaited' = {} => Horizon' = now'
        /\ Awaited' # {} => Horizon' = now' - 1
    BY DEF Horizon
  <2>2. Awaited' # {} => DOMAIN es # {}
    BY <1>4, <1>6
  <2>3. now \in Int
    BY <1>2
  <2>4. now' = now \/ now' = now + 1
    BY <1>5, Zenon
  <2>5. CASE Awaited' = {}
    BY <2>1, <2>3, <2>4, <2>5
  <2>6. CASE Awaited' # {}
    <3>1. now' = now + 1
      BY <1>5, <2>2, <2>6, Zenon
    <3> QED BY <2>1, <2>3, <2>6, <3>1
  <2> QED BY <2>5, <2>6
<1> QED BY <1>2, <1>3, <1>7, <1>8

\* Nothing that keeps the store and the graph moves the horizon, and what is
\* drained held what it held
LEMMA ConsumerKeeps ==
  ASSUME OneEventEach, Inv, NothingAhead, DeliveredOnce, [ConsumerNext]_<<vars, delivered>>
  PROVE  NothingAhead' /\ DeliveredOnce'
<1>1. ASSUME NEW es \in Batches, InsertNext(es), delivered' = delivered
      PROVE  NothingAhead' /\ DeliveredOnce'
  <2>1. pms' = pms
    BY <1>1 DEF InsertNext, Insert, matches
  <2>2. /\ now' \in Int /\ Horizon \in Int /\ Horizon' \in Int /\ Horizon <= Horizon'
        /\ \A i \in Awaited' : graph'[i].interval.start = now' /\ \A j \in Awaited' : i = j
    BY <1>1, InsertKeeps
  <2>3. \A m \in pms : HeldBy(m.intervals, Horizon')
    BY <2>2, HeldLonger DEF NothingAhead
  <2>4. \A d \in delivered : HeldBy(d[3].intervals, Horizon')
    BY <2>2, HeldLonger DEF NothingAhead
  <2>5. NothingAhead'
    BY <1>1, <2>1, <2>2, <2>3, <2>4 DEF NothingAhead
  <2> QED BY <1>1, <2>1, <2>5 DEF DeliveredOnce, Complete, MatchesOf, MatchOf
<1>2. ASSUME NEW i \in DOMAIN graph, NotifyNext(i), delivered' = delivered
      PROVE  NothingAhead' /\ DeliveredOnce'
  BY <1>2, NotifyKeeps
<1>3. ASSUME DrainCompleted, delivered' = delivered \cup Drained
      PROVE  NothingAhead' /\ DeliveredOnce'
  <2>1. pms' = Active /\ graph' = graph /\ now' = now /\ notified' = notified
    BY <1>3 DEF DrainCompleted, dataSource
  <2>2. Awaited' = Awaited /\ Horizon' = Horizon
    BY <2>1 DEF Awaited, Pending, Horizon
  <2>3. \A m \in pms' : HeldBy(m.intervals, Horizon)
    BY <2>1 DEF NothingAhead, Active
  <2>4. ASSUME NEW d \in Drained
        PROVE  HeldBy(d[3].intervals, Horizon)
    <3>1. PICK m \in Complete : d[3].intervals = m.intervals
      BY DrainedIntervals DEF Drained
    <3> QED BY <3>1 DEF NothingAhead, Complete
  <2>5. \A d \in delivered' : HeldBy(d[3].intervals, Horizon)
    BY <1>3, <2>4 DEF NothingAhead
  <2>6. NothingAhead'
    BY <2>1, <2>2, <2>3, <2>5 DEF NothingAhead
  <2>7. Complete' = {}
    BY <2>1 DEF Complete, Active
  <2>8. MatchesOf(Complete)' = {}
    BY <2>7 DEF MatchesOf
  <2> QED BY <2>6, <2>8 DEF DeliveredOnce
<1>4. CASE Register /\ delivered' = delivered
  BY <1>4 DEF Register, dataSource, matches, NothingAhead, DeliveredOnce, Horizon, Awaited, Pending,
              Complete, MatchesOf, MatchOf
<1>5. CASE UNCHANGED <<vars, delivered>>
  BY <1>5 DEF vars, dataSource, matches, NothingAhead, DeliveredOnce, Horizon, Awaited, Pending,
              Complete, MatchesOf, MatchOf
<1> QED BY <1>1, <1>2, <1>3, <1>4, <1>5 DEF ConsumerNext, OrderedNext

\* A caller that tells of one event after the other and drains whenever it likes
\* is never given a match twice (drain_completed), though the fingerprint that
\* keeps on_edge_added from making a match again is forgotten with it.
THEOREM NothingDrainedTwice ==
  ASSUME OneEventEach
  PROVE  ConsumerSpec => []DeliveredOnce
<1>1. ConsumerInit => NothingAhead /\ DeliveredOnce /\ Init
  BY DEF ConsumerInit, Init, NothingAhead, DeliveredOnce, Awaited, Pending, Horizon, MatchesOf, Complete
<1>2. Init => Inv
  BY InitInv
<1>3. Inv /\ [ConsumerNext]_<<vars, delivered>> => Inv'
  BY ConsumerSteps, NextInv
<1>4. Inv /\ NothingAhead /\ DeliveredOnce /\ [ConsumerNext]_<<vars, delivered>>
        => NothingAhead' /\ DeliveredOnce'
  BY ConsumerKeeps
<1> QED BY <1>1, <1>2, <1>3, <1>4, PTL DEF ConsumerSpec

-----------------------------------------------------------------------------
(* No match lost, under the same caller.  First, a stage against the edge  *)
(* that is its event: try_match_stage binds what the event shows.          *)

Within(B, W) == [x \in W |-> B[x]]

\* An edge the clause asks for is there at the time, or none that it forbids
FitsClause(g, c, at, B) ==
  LET hits == {j \in EdgesFrom(g, B[c.source], c.label, at) : TargetAccepts(c.target, g[j].target, B)}
  IN  B[c.source] \in Nodes /\ IF c.negated THEN hits = {} ELSE hits # {}

\* The edge e is the event of a stage, as B binds the stage's variables
Fits(g, stage, e, B) ==
  /\ CouldBe(stage.clauses[1], e) /\ B[stage.anchor] = e.source
  /\ \A k \in 2..Len(stage.clauses) : FitsClause(g, stage.clauses[k], e.interval.start, B)

\* A node has one edge of a label
OneOfALabel(g, x) ==
  \A i, j \in DOMAIN g :
    g[i].source = x /\ g[j].source = x /\ g[i].label = g[j].label => g[i].target = g[j].target

\* Looking a clause up under what is bound so far binds what B does
LEMMA LookupFollows ==
  ASSUME NEW g \in Seq(Edge), NEW c, NEW at, NEW B, NEW W, W \subseteq DOMAIN B,
         c.source \in W, Binds(c) \subseteq DOMAIN B,
         c.target.kind = "in" \/ (c.target.kind = "bind" /\ ~c.negated),
         ~c.negated => OneOfALabel(g, B[c.source]),
         FitsClause(g, c, at, B)
  PROVE  LookupClause(g, c, Within(B, W), at) = {Within(B, W \cup Binds(c))}
<1> DEFINE b == Within(B, W)
           from == EdgesFrom(g, b[c.source], c.label, at)
           hits == {i \in from : TargetAccepts(c.target, g[i].target, b)}
<1>1. DOMAIN b = W /\ \A x \in W : b[x] = B[x]
  BY DEF Within
<1>2. BoundToNode(b, c.source) /\ Resolvable(c.target, b) /\ b[c.source] = B[c.source]
  BY <1>1 DEF BoundToNode, Resolvable, FitsClause
<1>3. LookupClause(g, c, b, at)
        = IF c.negated THEN {x \in {b} : hits = {}}
          ELSE IF hits = {} THEN {} ELSE {BindNew(c.target, FirstOf(g, hits).target, b)}
  BY <1>2 DEF LookupClause
<1>4. from = EdgesFrom(g, B[c.source], c.label, at)
  BY <1>2
<1>5. \A i \in DOMAIN g : TargetAccepts(c.target, g[i].target, B) => TargetAccepts(c.target, g[i].target, b)
  BY <1>1 DEF TargetAccepts, Resolvable, ConstraintAccepts
<1>6. CASE c.target.kind = "in"
  <2>1. \A v : TargetAccepts(c.target, v, b) <=> TargetAccepts(c.target, v, B)
    BY <1>6 DEF TargetAccepts, Resolvable, ConstraintAccepts
  <2>2. hits = {j \in EdgesFrom(g, B[c.source], c.label, at) : TargetAccepts(c.target, g[j].target, B)}
    BY <1>4, <2>1
  <2>3. Binds(c) = {} /\ \A v : BindNew(c.target, v, b) = b
    BY <1>6 DEF Binds, BindNew
  <2> HIDE DEF hits, b
  <2>4. IF c.negated THEN hits = {} ELSE hits # {}
    BY <2>2 DEF FitsClause
  <2>5. LookupClause(g, c, b, at) = {b}
    BY <1>3, <2>3, <2>4
  <2> QED BY <2>3, <2>5 DEF b
<1>7. CASE c.target.kind = "bind" /\ ~c.negated
  <2> DEFINE x == c.target.var
  <2>1. Binds(c) = {x} /\ x \in DOMAIN B
    BY <1>7 DEF Binds
  <2>2. PICK j \in EdgesFrom(g, B[c.source], c.label, at) : TargetAccepts(c.target, g[j].target, B)
    BY <1>7 DEF FitsClause
  <2>3. j \in DOMAIN g /\ g[j].target = B[x] /\ j \in hits
    BY <1>4, <1>5, <1>7, <2>1, <2>2 DEF TargetAccepts, EdgesFrom
  <2>4. hits \subseteq Nat /\ \A i \in hits : i \in DOMAIN g /\ g[i].source = B[c.source] /\ g[i].label = c.label
    BY <1>4, LenProperties DEF EdgesFrom
  <2>5. g[j].source = B[c.source] /\ g[j].label = c.label
    BY <2>2 DEF EdgesFrom
  <2>6. \A i \in hits : g[i].target = B[x]
    BY <1>7, <2>3, <2>4, <2>5 DEF OneOfALabel
  <2>7. PICK i \in hits : FirstOf(g, hits) = g[i]
    <3> HIDE DEF hits
    <3>1. \E i \in hits : \A k \in hits : i <= k
      BY <2>3, <2>4, LeastNatural
    <3> QED BY <3>1, Zenon DEF FirstOf
  <2>8. LookupClause(g, c, b, at) = {BindNew(c.target, B[x], b)}
    <3> HIDE DEF hits, b, x
    <3> QED BY <1>3, <1>7, <2>3, <2>6, <2>7
  <2>9. BindNew(c.target, B[x], b) = Within(B, W \cup {x})
    <3>1. CASE x \in W
      <4>1. BindNew(c.target, B[x], b) = b /\ W \cup {x} = W
        BY <1>1, <3>1 DEF BindNew
      <4> QED BY <4>1
    <3>2. CASE x \notin W
      <4>1. BindNew(c.target, B[x], b) = Overlay(Single(x, B[x]), b)
        BY <1>1, <1>7, <3>2 DEF BindNew
      <4> QED BY <3>2, <4>1 DEF Overlay, Single, Within
    <3> QED BY <3>1, <3>2
  <2> QED BY <2>1, <2>8, <2>9
<1> QED BY <1>6, <1>7

\* What is bound after k + 1 clauses
LEMMA BoundByNext ==
  ASSUME NEW stage, NEW k \in Nat
  PROVE  /\ BoundBy(stage, k + 1) = BoundBy(stage, k) \cup Binds(stage.clauses[k + 1])
         /\ stage.anchor \in BoundBy(stage, k)
<1>1. 1..(k + 1) = 1..k \cup {k + 1}
  OBVIOUS
<1>2. \A x : x \in BoundBy(stage, k + 1) <=> x \in BoundBy(stage, k) \cup Binds(stage.clauses[k + 1])
  BY <1>1 DEF BoundBy
<1> QED BY <1>2 DEF BoundBy

\* ... grows with k
LEMMA BoundByGrows ==
  ASSUME NEW stage, NEW k \in Int, NEW n \in Int, k <= n
  PROVE  BoundBy(stage, k) \subseteq BoundBy(stage, n)
<1>1. 1..k \subseteq 1..n
  OBVIOUS
<1> QED BY <1>1 DEF BoundBy

\* The stage against its event, under what is bound so far, binds what B does
LEMMA StageFollows ==
  ASSUME NEW g \in Seq(Edge), NEW stage, NEW T, stage.clauses \in Seq(T), AboutOneEvent(stage),
         NEW e \in Edge, NEW B, NEW W, W \subseteq DOMAIN B, StageVars(stage) \subseteq DOMAIN B,
         OneOfALabel(g, e.source), Fits(g, stage, e, B)
  PROVE  TryMatchStage(g, stage, e, Within(B, W)) = {Within(B, W \cup StageVars(stage))}
<1> DEFINE n == Len(stage.clauses)
           at == e.interval.start
           b == Within(B, W)
           first == {Overlay(FirstBindings(stage, e, b), b)}
           a == stage.anchor
<1>0. n \in Nat /\ n # 0 /\ DOMAIN stage.clauses = 1..n
  BY EmptySeq, LenProperties DEF AboutOneEvent
<1>1. PICK h : /\ h = [i \in 1..n |-> After(g, stage, at, first, h, i)]
               /\ TryMatchStage(g, stage, e, b)
                    = IF FirstClauseMatches(stage, e, b) THEN h[n] ELSE {}
  BY <1>0, TryMatchSteps
<1>2. \A i \in 1..n : h[i] = After(g, stage, at, first, h, i)
  BY <1>1
<1>3. /\ stage.clauses[1].source = a /\ stage.clauses[1].target.kind = "in"
      /\ Binds(stage.clauses[1]) = {} /\ stage.clauses # << >>
      /\ B[a] = e.source /\ a \in DOMAIN B
      /\ stage.clauses[1].label = e.label /\ e.target \in stage.clauses[1].target.vals
  BY <1>0 DEF AboutOneEvent, Fits, CouldBe, StageVars, BoundBy, Binds
<1>4. FirstClauseMatches(stage, e, b)
  BY <1>3 DEF FirstClauseMatches, BoundToNode, TargetAccepts, Resolvable, ConstraintAccepts, Within
<1>5. Overlay(FirstBindings(stage, e, b), b) = Within(B, W \cup {a})
  <2>1. FirstBindings(stage, e, b) = Single(a, e.source)
    BY <1>3 DEF FirstBindings, Overlay, Single, NoBindings, BindNew
  <2> QED BY <1>3, <2>1 DEF Overlay, Single, Within
<1>6. W \cup BoundBy(stage, 1) = W \cup {a}
  <2>1. BoundBy(stage, 1) = {a} \cup Binds(stage.clauses[1])
    BY DEF BoundBy
  <2> QED BY <1>3, <2>1
<1> DEFINE Follows(j) == h[j] = {Within(B, W \cup BoundBy(stage, j))}
           S == {k \in Nat : k + 1 \in 1..n => Follows(k + 1)}
<1> HIDE DEF b, at, n, Follows
<1>7. 0 \in S
  <2> SUFFICES ASSUME 1 \in 1..n
               PROVE  Follows(1)
    OBVIOUS
  <2>1. h[1] = first
    BY <1>2 DEF After
  <2> QED BY <1>5, <1>6, <2>1 DEF Follows
<1>8. ASSUME NEW k \in Nat, k \in S
      PROVE  k + 1 \in S
  <2> SUFFICES ASSUME k + 1 + 1 \in 1..n
               PROVE  Follows(k + 1 + 1)
    OBVIOUS
  <2> DEFINE c == stage.clauses[k + 1 + 1]
             V == W \cup BoundBy(stage, k + 1)
  <2>1. k + 1 \in 1..n /\ k + 1 + 1 # 1 /\ k + 1 + 1 - 1 = k + 1 /\ k + 1 + 1 \in 2..n /\ n \in Int
        /\ k + 1 \in Int /\ k + 1 + 1 \in Int /\ k + 1 <= n /\ k + 1 + 1 <= n
    BY <1>0
  <2>2. h[k + 1] = {Within(B, V)}
    BY <1>8, <2>1 DEF Follows
  <2>3. h[k + 1 + 1] = UNION {LookupClause(g, c, m, at) : m \in h[k + 1]}
    <3> DEFINE i == k + 1 + 1
    <3>1. i \in 1..n /\ i # 1 /\ i - 1 = k + 1
      BY <2>1
    <3> HIDE DEF i
    <3>2. h[i] = UNION {LookupClause(g, stage.clauses[i], d, at) : d \in h[i - 1]}
      BY <1>2, <3>1 DEF After
    <3>3. h[i] = UNION {LookupClause(g, stage.clauses[i], d, at) : d \in h[k + 1]}
      BY <3>1, <3>2
    <3> QED BY <3>3 DEF i
  <2>4. h[k + 1 + 1] = LookupClause(g, c, Within(B, V), at)
    <3> HIDE DEF V, c
    <3> QED BY <2>2, <2>3
  <2>5. FitsClause(g, c, at, B)
    BY <2>1 DEF Fits, n, at
  <2>6. /\ c.target.kind = "in" \/ (c.target.kind = "bind" /\ ~c.negated)
        /\ IF c.negated THEN c.source \in BoundBy(stage, k + 1) ELSE c.source = a
    BY <2>1 DEF AboutOneEvent, n
  <2>7. BoundBy(stage, k + 1) \subseteq DOMAIN B /\ BoundBy(stage, k + 1 + 1) \subseteq DOMAIN B
    <3>1. BoundBy(stage, k + 1) \subseteq BoundBy(stage, n)
      BY <2>1, BoundByGrows
    <3>2. BoundBy(stage, k + 1 + 1) \subseteq BoundBy(stage, n)
      BY <2>1, BoundByGrows
    <3> QED BY <3>1, <3>2 DEF StageVars, n
  <2>8. /\ BoundBy(stage, k + 1 + 1) = BoundBy(stage, k + 1) \cup Binds(c) /\ a \in BoundBy(stage, k + 1)
    <3>1. k + 1 \in Nat
      OBVIOUS
    <3> QED BY <3>1, BoundByNext
  <2>9. c.source \in V /\ V \subseteq DOMAIN B /\ Binds(c) \subseteq DOMAIN B
    BY <2>6, <2>7, <2>8
  <2>10. ~c.negated => OneOfALabel(g, B[c.source])
    BY <1>3, <2>6
  <2>11. LookupClause(g, c, Within(B, V), at) = {Within(B, V \cup Binds(c))}
    <3> HIDE DEF V, c
    <3> QED BY <2>5, <2>6, <2>9, <2>10, LookupFollows
  <2>12. V \cup Binds(c) = W \cup BoundBy(stage, k + 1 + 1)
    BY <2>8
  <2> HIDE DEF V, c
  <2> QED BY <2>4, <2>11, <2>12 DEF Follows
<1>9. Nat \subseteq S
  <2> HIDE DEF S
  <2> QED BY <1>7, <1>8, Induction
<1>10. n - 1 \in Nat /\ n - 1 + 1 = n /\ n \in 1..n
  BY <1>0
<1>11. h[n] = {Within(B, W \cup BoundBy(stage, n))}
  BY <1>9, <1>10 DEF Follows
<1> QED BY <1>1, <1>4, <1>11 DEF b, StageVars, n

-----------------------------------------------------------------------------
(* Where a set of stages matched stands *)

\* The stages D matched, and next the segment that begins at c, in part matched
Standing(p, D, c) ==
  /\ c \in 1..(StageCount(p) + 1)
  /\ \A t \in 1..StageCount(p) : t < c => t \in D
  /\ \A t \in D : t >= c => c <= StageCount(p) /\ t \in Segment(p, c)
  /\ c <= StageCount(p) => SegmentStart(p, c) = c /\ ~(Segment(p, c) \subseteq D)

Marks(p, D) == {t \in D : InGroup(p, t)}

\* A segment holds the stage it is of, and its own first one
LEMMA OwnSegment ==
  ASSUME BlockLibrary, NEW i \in DOMAIN Library, NEW s \in 1..StageCount(Library[i])
  PROVE  LET p == Library[i]
             c == SegmentStart(p, s)
         IN  /\ StageCount(p) \in Nat
             /\ c \in 1..StageCount(p) /\ c <= s
             /\ SegmentEnd(p, s) \in (s + 1)..(StageCount(p) + 1)
             /\ Segment(p, s) \subseteq 1..StageCount(p)
             /\ \A t \in 1..StageCount(p) : t \in Segment(p, s) <=> c <= t /\ t < SegmentEnd(p, s)
             /\ \A t \in Segment(p, s) : Segment(p, t) = Segment(p, s) /\ SegmentStart(p, t) = c
             /\ s \in Segment(p, s) /\ c \in Segment(p, s)
             /\ \A t \in Segment(p, s) : InGroup(p, t) <=> InGroup(p, s)
             /\ ~InGroup(p, s) => Segment(p, s) = {s}
<1> DEFINE p == Library[i]
           N == StageCount(p)
           c == SegmentStart(p, s)
           end == SegmentEnd(p, s)
           seg == Segment(p, s)
<1>1. BlockPattern(p)
  BY DEF BlockLibrary
<1>2. N \in Nat /\ c \in 1..s /\ end \in (s + 1)..(N + 1) /\ seg \subseteq 1..N
  BY StageFacts
<1>3. \A t \in 1..N : t \in seg <=> c <= t /\ t < end
  BY <1>1, Zenon DEF BlockPattern
<1>4. \A t \in seg : Segment(p, t) = seg
  BY <1>1, <1>2, Zenon DEF BlockPattern
<1>5. \A t \in seg : SegmentStart(p, t) = c
  BY <1>4, SameSegmentSameStart, Zenon
<1>6. ~InGroup(p, s) => seg = {s}
  BY Zenon DEF Segment
<1>7. ASSUME NEW t \in seg
      PROVE  InGroup(p, t) <=> InGroup(p, s)
  <2>1. CASE InGroup(p, s)
    <3>1. t \in UnorderedGroup(p, s)
      BY <1>7, <2>1, Zenon DEF Segment
    <3>2. InGroup(p, t)
      BY <3>1 DEF UnorderedGroup, InGroup
    <3> QED BY <2>1, <3>2
  <2>2. CASE ~InGroup(p, s)
    BY <1>6, <1>7, <2>2
  <2> QED BY <2>1, <2>2
<1> HIDE DEF p, N, c, end, seg
<1>8. s \in seg /\ c \in seg /\ c \in 1..N /\ c <= s
  BY <1>2, <1>3 DEF N
<1> QED BY <1>2, <1>3, <1>4, <1>5, <1>6, <1>7, <1>8 DEF p, N, c, end, seg

\* Before the latest stage was matched the match stood at the segment of that
\* stage, from where matching it leads on
LEMMA WithoutLatest ==
  ASSUME BlockLibrary, NEW i \in DOMAIN Library, NEW D \in SUBSET (1..StageCount(Library[i])),
         NEW c, Standing(Library[i], D, c),
         NEW s \in D, \A t \in D : t > s => SameGroup(Library[i], s, t)
  PROVE  LET p == Library[i]
             rest == D \ {s}
         IN  /\ Standing(p, rest, SegmentStart(p, s))
             /\ s \in Segment(p, SegmentStart(p, s)) \ Marks(p, rest)
             /\ NextStage(p, s, Marks(p, rest)) = c
             /\ NewMask(p, s, Marks(p, rest)) = Marks(p, D)
<1> DEFINE p == Library[i]
           N == StageCount(p)
           c0 == SegmentStart(p, s)
           end == SegmentEnd(p, s)
           seg == Segment(p, s)
           rest == D \ {s}
<1>1. /\ N \in Nat /\ c0 \in 1..N /\ c0 <= s /\ end \in (s + 1)..(N + 1) /\ seg \subseteq 1..N
      /\ \A t \in 1..N : t \in seg <=> c0 <= t /\ t < end
      /\ \A t \in seg : Segment(p, t) = seg /\ SegmentStart(p, t) = c0
      /\ s \in seg /\ c0 \in seg
      /\ \A t \in seg : InGroup(p, t) <=> InGroup(p, s)
      /\ ~InGroup(p, s) => seg = {s}
  BY OwnSegment
<1>2. \A t \in D : t > s => t \in seg
  <2> SUFFICES ASSUME NEW t \in D, t > s
               PROVE  t \in seg
    OBVIOUS
  <2>1. s \in Int /\ t \in Int /\ s # t
    BY <1>1
  <2> QED BY <2>1, GroupIsSegment
<1>3. /\ c \in 1..(N + 1)
      /\ \A t \in 1..N : t < c => t \in D
      /\ \A t \in D : t >= c => c <= N /\ t \in Segment(p, c)
      /\ c <= N => SegmentStart(p, c) = c /\ ~(Segment(p, c) \subseteq D)
  BY DEF Standing
<1>4. NewMask(p, s, Marks(p, rest)) = Marks(p, D) /\ s \notin Marks(p, rest)
  BY DEF NewMask, Marks
<1>5. NextStage(p, s, Marks(p, rest)) = IF seg \subseteq Marks(p, rest) \cup {s} THEN end ELSE c0
  BY DEF NextStage
<1>6. seg \subseteq Marks(p, rest) \cup {s} <=> seg \subseteq D
  <2>1. ASSUME seg \subseteq D
        PROVE  seg \subseteq Marks(p, rest) \cup {s}
    BY <1>1, <2>1 DEF Marks
  <2>2. ASSUME seg \subseteq Marks(p, rest) \cup {s}
        PROVE  seg \subseteq D
    BY <2>2 DEF Marks
  <2> QED BY <2>1, <2>2
<1> HIDE DEF p, N, c0, end, seg
<1>7. s \in Int /\ D \subseteq 1..N
  BY DEF N, p
<1>8. c = IF seg \subseteq D THEN end ELSE c0
  <2>1. CASE c <= s
    <3>1. c <= N /\ s \in Segment(p, c)
      BY <1>3, <1>7, <2>1
    <3>2. c \in 1..N
      BY <1>3, <3>1
    <3>3. Segment(p, c) = seg /\ SegmentStart(p, c) = c0
      <4>1. s \in Segment(p, c) => Segment(p, s) = Segment(p, c) /\ SegmentStart(p, s) = SegmentStart(p, c)
        BY <3>2, OwnSegment DEF p, N
      <4> QED BY <3>1, <4>1 DEF seg, c0
    <3> QED BY <1>3, <3>1, <3>3
  <2>2. CASE s < c
    <3>1. ASSUME c < end
          PROVE  FALSE
      <4>1. c \in seg /\ c <= N
        BY <1>1, <1>3, <1>7, <2>2, <3>1
      <4> QED BY <1>1, <1>3, <1>7, <2>2, <4>1
    <3>2. ASSUME end < c
          PROVE  FALSE
      <4>1. end \in 1..N /\ end \in D /\ end > s
        BY <1>1, <1>3, <1>7, <3>2
      <4> QED BY <1>1, <1>2, <4>1
    <3>3. c = end
      BY <1>1, <1>3, <1>7, <3>1, <3>2
    <3>4. seg \subseteq D
      BY <1>1, <1>3, <1>7, <3>3
    <3> QED BY <3>3, <3>4
  <2> QED BY <1>3, <1>7, <2>1, <2>2
<1>9. Standing(p, rest, c0)
  <2>1. \A t \in 1..N : t < c0 => t \in rest
    BY <1>1, <1>3, <1>7, <1>8
  <2>2. ASSUME NEW t \in rest, t >= c0
        PROVE  t \in Segment(p, c0)
    <3>1. Segment(p, c0) = seg
      BY <1>1
    <3>2. CASE t > s
      BY <1>2, <3>1, <3>2
    <3>3. CASE ~(t > s)
      BY <1>1, <1>7, <2>2, <3>1, <3>3
    <3> QED BY <3>2, <3>3
  <2>3. Segment(p, c0) = seg /\ SegmentStart(p, c0) = c0 /\ s \in seg /\ s \notin rest
    BY <1>1
  <2>4. c0 \in 1..(N + 1) /\ c0 <= N
    BY <1>1
  <2> HIDE DEF rest
  <2> QED BY <2>1, <2>2, <2>3, <2>4 DEF Standing, N
<1>10. s \in Segment(p, c0)
  BY <1>1
<1> QED BY <1>4, <1>5, <1>6, <1>8, <1>9, <1>10 DEF p, c0

\* Nothing matched stands at the start
LEMMA NothingStands ==
  ASSUME BlockLibrary, NEW i \in DOMAIN Library, NEW c \in 1..StageCount(Library[i]),
         Standing(Library[i], {}, c)
  PROVE  c = 1
<1>1. StageCount(Library[i]) \in Nat
  BY StageFacts
<1> QED BY <1>1 DEF Standing

-----------------------------------------------------------------------------
(* What the events told are *)

EventsInOrder ==
  /\ now \in Int
  /\ registered < Len(Library) => graph = << >>
  /\ \A i \in Pats : enabled[i]
  /\ \A i \in DOMAIN graph : graph[i].interval.start <= now
  /\ \A i \in notified : graph[i].label \in HeadLabels
  /\ \A i \in Pending : graph[i].interval.start = now /\ \A j \in notified : j < i
  /\ \A i, j \in DOMAIN graph :
       graph[i].interval.start = graph[j].interval.start =>
         \E es \in Batches : \E a, b \in DOMAIN es : es[a] = graph[i] /\ es[b] = graph[j] /\ i - j = a - b

\* The edges of an event begin with it, one of a label
LEMMA EdgesOfEvent ==
  ASSUME EventVocabulary, TypeOK, EventsInOrder,
         NEW i \in DOMAIN graph, graph[i].label \in HeadLabels
  PROVE  /\ OneOfALabel(graph, graph[i].source)
         /\ \A j \in DOMAIN graph :
              graph[j].source = graph[i].source => graph[j].interval.start = graph[i].interval.start
<1>1. \A j \in DOMAIN graph : graph[j] \in Edge
  BY ElementOfSeq, LenProperties DEF TypeOK
<1>2. \A j \in DOMAIN graph :
        graph[j].source = graph[i].source => graph[j].interval.start = graph[i].interval.start
  BY <1>1 DEF EventVocabulary
<1>3. ASSUME NEW j \in DOMAIN graph, NEW k \in DOMAIN graph, graph[j].source = graph[i].source,
             graph[k].source = graph[i].source, graph[j].label = graph[k].label
      PROVE  graph[j].target = graph[k].target
  <2>1. graph[j].interval.start = graph[k].interval.start
    BY <1>2, <1>3
  <2>2. PICK es \in Batches : \E a, b \in DOMAIN es : es[a] = graph[j] /\ es[b] = graph[k]
    BY <2>1 DEF EventsInOrder
  <2> QED BY <1>3, <2>2 DEF EventVocabulary
<1> QED BY <1>2, <1>3 DEF OneOfALabel

\* Every edge holds from its start on, and has started
LEMMA EdgesHold ==
  ASSUME EventVocabulary, TypeOK, EventsInOrder, NEW i \in DOMAIN graph
  PROVE  /\ graph[i] \in Edge /\ graph[i].interval.start \in Int /\ graph[i].interval.start <= now
         /\ now \in Int
         /\ \A at : Covers(graph[i].interval, at) <=> graph[i].interval.start <= at
<1>1. graph[i] \in Edge
  BY ElementOfSeq, LenProperties DEF TypeOK
<1> QED BY <1>1 DEF EventVocabulary, EventsInOrder, Covers

\* Whether an edge completes a negation does not depend on what was bound after
\* the stage its window began with
LEMMA TriggeredWithin ==
  ASSUME NEW p, NEW neg, AboutAnotherEvent(p, neg), NEW B, DOMAIN B \subseteq PatternVars(p),
         NEW W, W \subseteq DOMAIN B,
         NEW s \in 1..StageCount(p), p.stages[s].anchor = neg.between_start,
         StageVars(p.stages[s]) \subseteq W, NEW g, NEW at, NEW e
  PROVE  NegationTriggered(g, at, neg, Within(B, W), e) <=> NegationTriggered(g, at, neg, B, e)
<1> DEFINE b == Within(B, W)
<1>1. DOMAIN b = W /\ \A x \in W : b[x] = B[x]
  BY DEF Within
<1>2. ASSUME NEW k \in DOMAIN neg.clauses
      PROVE  /\ ~BoundToNode(b, neg.clauses[k].source) /\ ~BoundToNode(B, neg.clauses[k].source)
             /\ neg.clauses[k].source = neg.clauses[1].source
             /\ \A v : TargetAccepts(neg.clauses[k].target, v, b) <=> TargetAccepts(neg.clauses[k].target, v, B)
  <2> DEFINE c == neg.clauses[k]
  <2>1. /\ c.source = neg.clauses[1].source /\ c.source \notin PatternVars(p)
        /\ c.target.kind \in {"in", "bind"}
        /\ c.target.kind = "bind" /\ c.target.var \in PatternVars(p) => c.target.var \in W
    BY DEF AboutAnotherEvent
  <2> HIDE DEF c
  <2>2. \A v : TargetAccepts(c.target, v, b) <=> TargetAccepts(c.target, v, B)
    <3>1. c.target.kind = "bind" => (c.target.var \in W <=> c.target.var \in DOMAIN B)
      BY <2>1
    <3> QED BY <1>1, <2>1, <3>1 DEF TargetAccepts, Resolvable, ConstraintAccepts
  <2>3. ~BoundToNode(b, c.source) /\ ~BoundToNode(B, c.source)
    BY <1>1, <2>1 DEF BoundToNode
  <2> QED BY <2>1, <2>2, <2>3 DEF c
<1> HIDE DEF b
<1>3. \A k, l \in DOMAIN neg.clauses :
        OtherHolds(g, at, b, neg.clauses[k], e, neg.clauses[l])
          <=> OtherHolds(g, at, B, neg.clauses[k], e, neg.clauses[l])
  BY <1>2 DEF OtherHolds
<1> QED BY <1>2, <1>3 DEF NegationTriggered, b

-----------------------------------------------------------------------------
(* Pictures *)

\* Nothing told so far falls in a window and completes its negation
Undisturbed(i, ivs, B) ==
  \A neg \in Library[i].negations : neg.between_start \in DOMAIN ivs =>
    \A j \in notified :
      InWindow(neg, ivs, graph[j].interval) => ~NegationTriggered(graph, now, neg, B, graph[j])

AnchorsOf(p, D) == {p.stages[s].anchor : s \in D}

\* The edges idx of the graph, all told, are the events of the stages D of
\* pattern i: they began at ivs, in the order of the stages, and B binds every
\* variable
Picture(i, D, c, idx, ivs, B) ==
  LET p == Library[i]
  IN  /\ i \in Pats /\ D \subseteq 1..StageCount(p) /\ D # {} /\ Standing(p, D, c)
      /\ VarsOf(p, D) \subseteq DOMAIN B /\ DOMAIN B \subseteq PatternVars(p)
      /\ ivs = [x \in AnchorsOf(p, D) |-> ivs[x]]
      /\ \A s \in D : /\ idx[s] \in notified /\ Fits(graph, p.stages[s], graph[idx[s]], B)
                      /\ ivs[p.stages[s].anchor] = graph[idx[s]].interval
      /\ \A s, t \in D : s < t /\ ~SameGroup(p, s, t) =>
           graph[idx[s]].interval.start < graph[idx[t]].interval.start
      /\ Undisturbed(i, ivs, B)
      /\ c > StageCount(p) => CheckTemporal(p, ivs)

\* The match stands where the picture ends
Shows(pm, i, D, c, ivs, B) ==
  /\ pm.pattern_idx = i /\ pm.next_stage = c /\ pm.matched_stages = Marks(Library[i], D)
  /\ pm.bindings = Within(B, VarsOf(Library[i], D)) /\ pm.intervals = ivs

\* The complete picture is among what was given away
HandedOver(given, i, D, c, ivs, B) ==
  /\ c > StageCount(Library[i])
  /\ \E d \in given : /\ d[1] = i
                      /\ d[3] = [bindings |-> Within(B, VarsOf(Library[i], D)), intervals |-> ivs]

\* Every picture is accounted for, if `given` are the matches given away
AllPictured(given) ==
  \A i, D, c, idx, ivs, B :
    Picture(i, D, c, idx, ivs, B) =>
      (\E pm \in pms : Shows(pm, i, D, c, ivs, B)) \/ HandedOver(given, i, D, c, ivs, B)

-----------------------------------------------------------------------------
(* What an attempt makes is stored, unless it is there already *)

\* Of some attempts one comes first
LEMMA FirstAttempt ==
  ASSUME NEW S \in SUBSET Keys, S # {}
  PROVE  \E k \in S : \A l \in S : ~Precedes(l, k)
<1> DEFINE S2(a) == {k \in S : k[1] = a}
<1>1. PICK a \in {k[1] : k \in S} : \A x \in {k[1] : k \in S} : a <= x
  <2>1. {k[1] : k \in S} \in SUBSET Nat /\ {k[1] : k \in S} # {}
    BY DEF Keys
  <2> QED BY <2>1, LeastNatural
<1> DEFINE T == {k \in S : k[1] = a}
<1>2. PICK b \in {k[2] : k \in T} : \A x \in {k[2] : k \in T} : b <= x
  <2>1. {k[2] : k \in T} \in SUBSET Nat /\ {k[2] : k \in T} # {}
    BY <1>1 DEF Keys
  <2> QED BY <2>1, LeastNatural
<1> DEFINE U == {k \in T : k[2] = b}
<1>3. PICK c \in {k[3] : k \in U} : \A x \in {k[3] : k \in U} : c <= x
  <2>1. {k[3] : k \in U} \in SUBSET Nat /\ {k[3] : k \in U} # {}
    BY <1>2 DEF Keys
  <2> QED BY <2>1, LeastNatural
<1> DEFINE V == {k \in U : k[3] = c}
<1>4. PICK d \in {k[4] : k \in V} : \A x \in {k[4] : k \in V} : d <= x
  <2>1. {k[4] : k \in V} \in SUBSET Nat /\ {k[4] : k \in V} # {}
    BY <1>3 DEF Keys
  <2> QED BY <2>1, LeastNatural
<1>5. PICK k \in V : k[4] = d
  BY <1>4
<1>6. ASSUME NEW l \in S
      PROVE  ~Precedes(l, k)
  <2>1. /\ a <= l[1] /\ (l[1] = a => b <= l[2]) /\ (l[1] = a /\ l[2] = b => c <= l[3])
        /\ l[1] = a /\ l[2] = b /\ l[3] = c => d <= l[4]
    BY <1>1, <1>2, <1>3, <1>4
  <2>2. k[1] = a /\ k[2] = b /\ k[3] = c /\ k[4] = d
    BY <1>5
  <2>3. /\ l[1] \in Nat /\ l[2] \in Nat /\ l[3] \in Nat /\ l[4] \in Nat
        /\ k[1] \in Nat /\ k[2] \in Nat /\ k[3] \in Nat /\ k[4] \in Nat
    <3>1. l \in Keys /\ k \in Keys
      OBVIOUS
    <3> QED BY <3>1 DEF Keys
  <2> HIDE DEF T, U, V
  <2> QED BY <2>1, <2>2, <2>3 DEF Precedes
<1>7. k \in S
  OBVIOUS
<1> QED BY <1>6, <1>7

\* Whatever an attempt makes that passes the temporal check, the store or the
\* call has a match of that fingerprint
LEMMA AttemptStored ==
  ASSUME TypeOK, IdsUnique, NEW e, NEW k \in Attempts(e),
         Made(e, k).state = "Complete" => TemporalOK(Made(e, k))
  PROVE  \E q \in pms \cup NewMatches(MatchesMade(e)) : Fingerprint(q) = Fingerprint(Made(e, k))
<1> DEFINE F == Fingerprint(Made(e, k))
           made == MatchesMade(e)
           S == {l \in Attempts(e) : Fingerprint(Made(e, l)) = F}
<1>1. CASE F \in Fingerprints(pms)
  BY <1>1 DEF Fingerprints
<1>2. CASE F \notin Fingerprints(pms)
  <2>1. S \in SUBSET Keys /\ S # {}
    BY AttemptsFinite
  <2>2. PICK l \in S : \A m \in S : ~Precedes(m, l)
    <3> HIDE DEF S
    <3> QED BY <2>1, FirstAttempt
  <2>3. l \in Attempts(e) /\ Fingerprint(Made(e, l)) = F
    OBVIOUS
  <2>4. DOMAIN made = Attempts(e) /\ \A m \in Attempts(e) : made[m] = Made(e, m)
    BY BornFacts
  <2>5. l \in Born(made)
    <3>1. \A m \in Attempts(e) : Precedes(m, l) => Fingerprint(Made(e, m)) # F
      BY <2>2
    <3> HIDE DEF F, made, S
    <3> QED BY <1>2, <2>3, <2>4, <3>1 DEF Born
  <2>6. IsMatch(Made(e, l)) /\ IsMatch(Made(e, k))
    BY <2>3, MadeIsMatch DEF GoodMatch
  <2>7. /\ Made(e, l).pattern_idx = Made(e, k).pattern_idx
        /\ Made(e, l).next_stage = Made(e, k).next_stage
        /\ Made(e, l).intervals = Made(e, k).intervals
    BY <2>3 DEF Fingerprint
  <2>8. Made(e, l).state = "Complete" => TemporalOK(Made(e, l))
    BY <2>6, <2>7 DEF IsMatch, TemporalOK
  <2>9. l \in KeptOf(made)
    <3> HIDE DEF made, S, F
    <3> QED BY <2>3, <2>4, <2>5, <2>8 DEF KeptOf, Kept
  <2> DEFINE n == [made[l] EXCEPT !.id = IdOf(made, l)]
  <2>10. n \in NewMatches(made)
    BY <2>9, Zenon DEF NewMatches
  <2>11. DOMAIN made[l] = MatchFields
    BY <2>3, <2>4, <2>6 DEF IsMatch
  <2>12. Fingerprint(n) = Fingerprint(made[l])
    <3> HIDE DEF made
    <3> QED BY <2>11 DEF Fingerprint, MatchFields
  <2> HIDE DEF n, made, S, F
  <2>13. Fingerprint(n) = F
    BY <2>3, <2>4, <2>12
  <2> QED BY <2>10, <2>13 DEF F, made
<1> QED BY <1>1, <1>2

\* With nothing that gives way to anything, a call keeps what is not killed
LEMMA StaysStored ==
  ASSUME StepwiseLibrary, TypeOK, IdsUnique, NEW e,
         NEW q \in pms \cup NewMatches(MatchesMade(e)), q \notin Killed(e)
  PROVE  q \in StoreAfter(e, MatchesMade(e))
<1> DEFINE made == MatchesMade(e)
<1>1. q.pattern_idx \in Pats
  <2>1. CASE q \in pms
    BY <2>1 DEF TypeOK, IsMatch
  <2>2. CASE q \in NewMatches(made)
    <3>1. GoodMatch(q)
      BY <2>2, NewMatchFacts
    <3> QED BY <3>1 DEF GoodMatch, IsMatch
  <2> QED BY <2>1, <2>2
<1>2. q.pattern_idx \in DOMAIN Library
  BY <1>1, LibraryDomain DEF TypeOK, Pats
<1>3. Library[q.pattern_idx].group = {} /\ ~Library[q.pattern_idx].advance_in_place
  BY <1>2 DEF StepwiseLibrary, StepwisePattern
<1> HIDE DEF made
<1>4. q \notin Consumed(made)
  BY <1>3 DEF Consumed
<1>5. ~Dominated(q, CompletedPatterns(NewMatches(made)))
  BY <1>3 DEF Dominated
<1> QED BY <1>4, <1>5 DEF StoreAfter, made

\* An edge that does not disturb the picture spares the match that shows it
LEMMA NotKilled ==
  ASSUME StepwiseLibrary, NEW i \in DOMAIN Library, NEW D, D \subseteq 1..StageCount(Library[i]),
         NEW c, NEW ivs, NEW B, NEW e,
         VarsOf(Library[i], D) \subseteq DOMAIN B, DOMAIN B \subseteq PatternVars(Library[i]),
         DOMAIN ivs = AnchorsOf(Library[i], D),
         \A neg \in Library[i].negations :
           neg.between_start \in DOMAIN ivs /\ neg.between_end \cap DOMAIN ivs = {}
             /\ InWindow(neg, ivs, e.interval)
             => ~NegationTriggered(graph, now, neg, B, e),
         NEW q, Shows(q, i, D, c, ivs, B)
  PROVE  q \notin Killed(e)
<1> DEFINE p == Library[i]
           b == Within(B, VarsOf(p, D))
<1>1. q.pattern_idx = i /\ q.bindings = b /\ q.intervals = ivs
  BY DEF Shows
<1>2. SUFFICES ASSUME NEW neg \in p.negations, neg.between_start \in DOMAIN ivs,
                      neg.between_end \cap DOMAIN ivs = {},
                      ivs[neg.between_start].start < e.interval.start,
                      NegationTriggered(graph, now, neg, b, e)
               PROVE  FALSE
  <2> HIDE DEF b
  <2> QED BY <1>1, Zenon DEF Killed, CheckNegationKill
<1>3. InWindow(neg, ivs, e.interval)
  BY <1>2 DEF InWindow
<1>4. PICK s \in D : p.stages[s].anchor = neg.between_start
  BY <1>2 DEF AnchorsOf
<1>5. StageVars(p.stages[s]) \subseteq VarsOf(p, D) /\ s \in 1..StageCount(p)
  BY DEF VarsOf
<1>6. AboutAnotherEvent(p, neg)
  BY DEF StepwiseLibrary, StepwisePattern
<1>7. NegationTriggered(graph, now, neg, B, e)
  <2> HIDE DEF p
  <2> QED BY <1>2, <1>4, <1>5, <1>6, TriggeredWithin DEF p
<1> QED BY <1>2, <1>3, <1>7

-----------------------------------------------------------------------------
(* Being told of an edge *)

\* The intervals of the stages D alone
Only(i, D, ivs) == [x \in AnchorsOf(Library[i], D) |-> ivs[x]]

\* The picture as far as it went before its latest edge, of which the engine is
\* told now, is a picture
LEMMA PictureBefore ==
  ASSUME BlockLibrary, EventVocabulary, TypeOK, EventsInOrder,
         NEW n \in Pending, \A j \in Pending : n <= j, graph[n].label \in StageLabels,
         NEW i, NEW D, NEW c, NEW idx, NEW ivs, NEW B,
         Picture(i, D, c, idx, ivs, B)', UNCHANGED <<graph, now, registered>>,
         notified' = notified \cup {n},
         NEW s \in D, idx[s] = n, \A t \in D \ {s} : idx[t] \in notified, D \ {s} # {},
         NEW c0 \in 1..StageCount(Library[i]), Standing(Library[i], D \ {s}, c0)
  PROVE  Picture(i, D \ {s}, c0, idx, Only(i, D \ {s}, ivs), B)
<1> DEFINE p == Library[i]
           rest == D \ {s}
           was == [x \in AnchorsOf(p, rest) |-> ivs[x]]
           e == graph[n]
<1>1. /\ i \in Pats /\ D \subseteq 1..StageCount(p)
      /\ VarsOf(p, D) \subseteq DOMAIN B /\ DOMAIN B \subseteq PatternVars(p)
      /\ ivs = [x \in AnchorsOf(p, D) |-> ivs[x]]
      /\ \A t \in D : /\ Fits(graph, p.stages[t], graph[idx[t]], B)
                      /\ ivs[p.stages[t].anchor] = graph[idx[t]].interval
      /\ \A t, u \in D : t < u /\ ~SameGroup(p, t, u) =>
           graph[idx[t]].interval.start < graph[idx[u]].interval.start
      /\ Undisturbed(i, ivs, B)'
  BY DEF Picture, Pats
<1>2. \A neg \in p.negations : neg.between_start \in DOMAIN ivs =>
        \A j \in notified :
          InWindow(neg, ivs, graph[j].interval) => ~NegationTriggered(graph, now, neg, B, graph[j])
  BY <1>1 DEF Undisturbed
<1>3. /\ n \in DOMAIN graph /\ e.interval.start = now /\ now \in Int /\ n \notin notified
      /\ \A j \in notified : j \in DOMAIN graph /\ j < n
  BY DEF EventsInOrder, Pending, TypeOK
<1>4. DOMAIN was = AnchorsOf(p, rest) /\ \A x \in AnchorsOf(p, rest) : was[x] = ivs[x]
  OBVIOUS
<1>5. AnchorsOf(p, rest) \subseteq AnchorsOf(p, D) /\ VarsOf(p, rest) \subseteq VarsOf(p, D)
  BY DEF AnchorsOf, VarsOf
<1>6. \A x \in AnchorsOf(p, D) : x \in AnchorsOf(p, rest) \/ x = p.stages[s].anchor
  BY DEF AnchorsOf
<1>7. DOMAIN ivs = AnchorsOf(p, D)
  BY <1>1
<1>8. ASSUME NEW neg \in p.negations, neg.between_start \in DOMAIN was, NEW j \in notified,
             InWindow(neg, was, graph[j].interval)
      PROVE  ~NegationTriggered(graph, now, neg, B, graph[j])
  <2>1. /\ neg.between_start \in DOMAIN ivs /\ was[neg.between_start] = ivs[neg.between_start]
    BY <1>4, <1>5, <1>7, <1>8
  <2>2. graph[j].interval.start \in Int /\ graph[j].interval.start <= now
    BY <1>3, EdgesHold
  <2>3. CASE graph[j].interval.start < now
    <3>1. \A x \in neg.between_end \cap DOMAIN ivs : graph[j].interval.start < ivs[x].start
      <4> SUFFICES ASSUME NEW x \in neg.between_end, x \in DOMAIN ivs
                   PROVE  graph[j].interval.start < ivs[x].start
        OBVIOUS
      <4>1. CASE x \in AnchorsOf(p, rest)
        BY <1>4, <1>8, <4>1 DEF InWindow
      <4>2. CASE x = p.stages[s].anchor
        BY <1>1, <1>3, <2>3, <4>2
      <4> QED BY <1>6, <1>7, <4>1, <4>2
    <3>2. InWindow(neg, ivs, graph[j].interval)
      BY <1>8, <2>1, <3>1 DEF InWindow
    <3> QED BY <1>2, <2>1, <3>2
  <2>4. CASE graph[j].interval.start = now
    <3>1. PICK es \in Batches : \E a, b \in DOMAIN es :
                 es[a] = graph[n] /\ es[b] = graph[j] /\ n - j = a - b
      BY <1>3, <2>4 DEF EventsInOrder
    <3>2. PICK a \in DOMAIN es, b \in DOMAIN es : es[a] = graph[n] /\ es[b] = graph[j] /\ n - j = a - b
      BY <3>1
    <3>3. graph[j].label \in HeadLabels
      BY DEF EventsInOrder
    <3>4. a <= b
      BY <3>2, <3>3 DEF EventVocabulary
    <3>5. a \in Int /\ b \in Int /\ n \in Int /\ j \in Int
      <4>1. es \in Seq(Edge)
        BY BatchesAssumption DEF BatchesAssumption
      <4>2. DOMAIN es \subseteq Int /\ DOMAIN graph \subseteq Int
        BY <4>1, LenProperties DEF TypeOK
      <4> QED BY <1>3, <4>2
    <3>6. j < n
      BY <1>3
    <3> QED BY <3>2, <3>4, <3>5, <3>6
  <2> QED BY <1>3, <2>2, <2>3, <2>4
<1> HIDE DEF was
<1>9. Undisturbed(i, was, B)
  BY <1>8 DEF Undisturbed
<1>10. \A t \in rest : was[p.stages[t].anchor] = ivs[p.stages[t].anchor]
  BY <1>4 DEF AnchorsOf
<1>11. was = [x \in AnchorsOf(p, rest) |-> was[x]]
  BY DEF was
<1>12. ~(c0 > StageCount(p))
  <2>1. StageCount(p) \in Nat
    BY <1>1, StageFacts, LibraryDomain DEF TypeOK, Pats
  <2> QED BY <2>1
<1>13. Picture(i, rest, c0, idx, was, B)
  BY <1>1, <1>5, <1>9, <1>10, <1>11, <1>12 DEF Picture
<1> QED BY <1>13 DEF was, Only

\* A match that shows a picture told to its end stays
LEMMA ShownStays ==
  ASSUME StepwiseLibrary, TypeOK, IdsUnique, NEW n \in DOMAIN graph,
         NEW i, NEW D, NEW c, NEW idx, NEW ivs, NEW B,
         Picture(i, D, c, idx, ivs, B)', UNCHANGED <<graph, now, registered>>,
         notified' = notified \cup {n},
         NEW q \in pms \cup NewMatches(MatchesMade(graph[n])), Shows(q, i, D, c, ivs, B)
  PROVE  q \in StoreAfter(graph[n], MatchesMade(graph[n]))
<1> DEFINE p == Library[i]
           e == graph[n]
<1>1. /\ i \in Pats /\ D \subseteq 1..StageCount(p)
      /\ VarsOf(p, D) \subseteq DOMAIN B /\ DOMAIN B \subseteq PatternVars(p)
      /\ ivs = [x \in AnchorsOf(p, D) |-> ivs[x]]
      /\ Undisturbed(i, ivs, B)'
  BY DEF Picture, Pats
<1>2. \A neg \in p.negations :
        neg.between_start \in DOMAIN ivs /\ InWindow(neg, ivs, e.interval) => ~NegationTriggered(graph, now, neg, B, e)
  BY <1>1 DEF Undisturbed
<1>3. i \in DOMAIN Library /\ DOMAIN ivs = AnchorsOf(p, D)
  BY <1>1, LibraryDomain DEF TypeOK, Pats
<1>4. q \notin Killed(e)
  <2> HIDE DEF e
  <2> QED BY <1>1, <1>2, <1>3, NotKilled
<1> QED BY <1>4, StaysStored

\* The picture ends with the edge n, the event of its stage s
Latest(n, s, i, D, c, idx, ivs, B) ==
  LET p == Library[i]
  IN  /\ i \in Pats /\ i \in DOMAIN Library /\ D \subseteq 1..StageCount(p) /\ Standing(p, D, c)
      /\ VarsOf(p, D) \subseteq DOMAIN B /\ DOMAIN B \subseteq PatternVars(p)
      /\ ivs = [x \in AnchorsOf(p, D) |-> ivs[x]]
      /\ \A t \in D : /\ Fits(graph, p.stages[t], graph[idx[t]], B)
                      /\ ivs[p.stages[t].anchor] = graph[idx[t]].interval
      /\ \A t, u \in D : t < u /\ ~SameGroup(p, t, u) =>
           graph[idx[t]].interval.start < graph[idx[u]].interval.start
      /\ \A neg \in p.negations : neg.between_start \in DOMAIN ivs =>
           (InWindow(neg, ivs, graph[n].interval) => ~NegationTriggered(graph, now, neg, B, graph[n]))
      /\ c > StageCount(p) => CheckTemporal(p, ivs)
      /\ s \in D /\ idx[s] = n /\ graph[n].label \in StageLabels
      /\ \A t \in D \ {s} : idx[t] \in notified
      /\ \A t \in D : t > s => SameGroup(p, s, t)

\* A picture that is none before the engine is told of n ends with n
LEMMA LatestEdge ==
  ASSUME EventVocabulary, StepwiseLibrary, TypeOK, EventsInOrder,
         NEW n \in Pending, UNCHANGED <<graph, now, registered>>, notified' = notified \cup {n},
         NEW i, NEW D, NEW c, NEW idx, NEW ivs, NEW B, Picture(i, D, c, idx, ivs, B)'
  PROVE  \/ Picture(i, D, c, idx, ivs, B)
         \/ \E s \in D : Latest(n, s, i, D, c, idx, ivs, B)
<1> DEFINE p == Library[i]
<1>1. /\ i \in Pats /\ D \subseteq 1..StageCount(p) /\ D # {} /\ Standing(p, D, c)
      /\ VarsOf(p, D) \subseteq DOMAIN B /\ DOMAIN B \subseteq PatternVars(p)
      /\ ivs = [x \in AnchorsOf(p, D) |-> ivs[x]]
      /\ \A t \in D : /\ idx[t] \in notified \cup {n}
                      /\ Fits(graph, p.stages[t], graph[idx[t]], B)
                      /\ ivs[p.stages[t].anchor] = graph[idx[t]].interval
      /\ \A t, u \in D : t < u /\ ~SameGroup(p, t, u) =>
           graph[idx[t]].interval.start < graph[idx[u]].interval.start
      /\ c > StageCount(p) => CheckTemporal(p, ivs)
      /\ Undisturbed(i, ivs, B)'
  BY DEF Picture, Pats
<1>2. \A neg \in p.negations : neg.between_start \in DOMAIN ivs =>
        \A j \in notified \cup {n} :
          InWindow(neg, ivs, graph[j].interval) => ~NegationTriggered(graph, now, neg, B, graph[j])
  BY <1>1 DEF Undisturbed
<1>3. CASE \A t \in D : idx[t] # n
  <2>1. Undisturbed(i, ivs, B)
    BY <1>2 DEF Undisturbed
  <2> QED BY <1>1, <1>3, <2>1 DEF Picture
<1>4. ASSUME NEW s \in D, idx[s] = n
      PROVE  Latest(n, s, i, D, c, idx, ivs, B)
  <2>1. i \in DOMAIN Library
    BY <1>1, LibraryDomain DEF TypeOK, Pats
  <2>2. n \in DOMAIN graph /\ graph[n].interval.start = now /\ notified \subseteq DOMAIN graph
    BY DEF Pending, EventsInOrder, TypeOK
  <2>3. CouldBe(p.stages[s].clauses[1], graph[n])
    BY <1>1, <1>4 DEF Fits
  <2>4. graph[n].label \in StageLabels
    BY <1>1, <2>1, <2>3 DEF CouldBe, StageLabels
  <2>5. \A t \in D : graph[idx[t]].interval.start \in Int /\ graph[idx[t]].interval.start <= now
    <3> SUFFICES ASSUME NEW t \in D
                 PROVE  graph[idx[t]].interval.start \in Int /\ graph[idx[t]].interval.start <= now
      OBVIOUS
    <3>1. idx[t] \in DOMAIN graph
      BY <1>1, <2>2
    <3> QED BY <3>1, EdgesHold
  <2>6. graph[n] \in Edge /\ now \in Int
    BY <2>2, EdgesHold
  <2>7. D \subseteq Int
    BY <1>1
  <2>8. ASSUME NEW t \in D \ {s}
        PROVE  idx[t] \in notified
    <3> SUFFICES ASSUME idx[t] = n
                 PROVE  FALSE
      BY <1>1
    <3>1. CouldBe(p.stages[t].clauses[1], graph[n])
      BY <1>1 DEF Fits
    <3>2. ~SameGroup(p, s, t)
      BY <1>1, <2>1, <2>3, <2>6, <3>1 DEF StepwiseLibrary, StepwisePattern
    <3>3. ~SameGroup(p, t, s)
      BY <3>2 DEF SameGroup
    <3>4. s < t \/ t < s
      BY <2>7
    <3> QED BY <1>1, <1>4, <2>2, <2>6, <3>2, <3>3, <3>4
  <2>9. ASSUME NEW t \in D, t > s
        PROVE  SameGroup(p, s, t)
    <3>1. graph[idx[t]].interval.start <= graph[idx[s]].interval.start
      BY <1>4, <2>2, <2>5
    <3> QED BY <1>1, <2>5, <2>7, <2>9, <3>1
  <2> QED BY <1>1, <1>2, <1>4, <2>1, <2>4, <2>8, <2>9 DEF Latest
<1> QED BY <1>3, <1>4

\* What is bound once one more stage is matched
LEMMA VarsGrow ==
  ASSUME NEW p, NEW D, NEW s \in D
  PROVE  /\ VarsOf(p, D) = VarsOf(p, D \ {s}) \cup StageVars(p.stages[s])
         /\ AnchorsOf(p, D) = AnchorsOf(p, D \ {s}) \cup {p.stages[s].anchor}
<1>1. D = (D \ {s}) \cup {s}
  OBVIOUS
<1>2. \A x : x \in VarsOf(p, D) <=> x \in VarsOf(p, D \ {s}) \cup StageVars(p.stages[s])
  BY <1>1 DEF VarsOf
<1> QED BY <1>2 DEF AnchorsOf

\* Matching the stage s to the edge n binds what B does of the stages D
Brings(n, s, i, D, B) ==
  TryMatchStage(graph, Library[i].stages[s], graph[n], Within(B, VarsOf(Library[i], D \ {s})))
    = {Within(B, VarsOf(Library[i], D))}

\* Stage s against the edge n, under what the picture bound before
LEMMA LatestMatches ==
  ASSUME StepwiseLibrary, EventVocabulary, TypeOK, EventsInOrder, NEW n \in DOMAIN graph,
         NEW s, NEW i, NEW D, NEW c, NEW idx, NEW ivs, NEW B, Latest(n, s, i, D, c, idx, ivs, B)
  PROVE  Brings(n, s, i, D, B)
<1> DEFINE p == Library[i]
           W == VarsOf(p, D \ {s})
           e == graph[n]
           stage == p.stages[s]
           T == {stage.clauses[k] : k \in DOMAIN stage.clauses}
<1>1. /\ i \in DOMAIN Library /\ s \in 1..StageCount(p) /\ s \in D
      /\ VarsOf(p, D) \subseteq DOMAIN B /\ Fits(graph, stage, e, B)
      /\ e.label \in StageLabels
  BY DEF Latest
<1>2. VarsOf(p, D) = W \cup StageVars(stage)
  BY <1>1, VarsGrow
<1>3. W \subseteq DOMAIN B /\ StageVars(stage) \subseteq DOMAIN B
  BY <1>1, <1>2
<1>4. stage.clauses \in Seq(T)
  BY <1>1, LibraryAssumption, Zenon DEF LibraryAssumption, BuiltPattern
<1>5. AboutOneEvent(stage)
  BY <1>1 DEF StepwiseLibrary, StepwisePattern
<1>6. e.label \in HeadLabels
  BY <1>1 DEF HeadLabels
<1>7. OneOfALabel(graph, e.source) /\ e \in Edge /\ graph \in Seq(Edge)
  BY <1>6, EdgesOfEvent, EdgesHold DEF TypeOK
<1> HIDE DEF W, e, stage, T
<1>8. TryMatchStage(graph, stage, e, Within(B, W)) = {Within(B, W \cup StageVars(stage))}
  BY <1>1, <1>3, <1>4, <1>5, <1>7, StageFollows
<1> QED BY <1>2, <1>8 DEF W, e, stage, Brings

\* A picture of one edge is what an attempt to start the pattern makes
LEMMA StartedShows ==
  ASSUME BlockLibrary, StepwiseLibrary, EventVocabulary, TypeOK, EventsInOrder, NEW n \in Pending,
         NEW s, NEW i, NEW D, NEW c, NEW idx, NEW ivs, NEW B, Latest(n, s, i, D, c, idx, ivs, B),
         D \ {s} = {}
  PROVE  \E k \in Attempts(graph[n]) :
           /\ Shows(Made(graph[n], k), i, D, c, ivs, B)
           /\ Made(graph[n], k).state = "Complete" => TemporalOK(Made(graph[n], k))
<1> DEFINE p == Library[i]
           e == graph[n]
           k == <<0, i, s, 0>>
           m == Initiated(i, s, e)
<1>1. /\ i \in Pats /\ i \in DOMAIN Library /\ D \subseteq 1..StageCount(p) /\ Standing(p, D, c)
      /\ s \in D /\ s \in 1..StageCount(p) /\ idx[s] = n
      /\ \A t \in D : t > s => SameGroup(p, s, t)
      /\ ivs = [x \in AnchorsOf(p, D) |-> ivs[x]]
      /\ ivs[p.stages[s].anchor] = e.interval
      /\ c > StageCount(p) => CheckTemporal(p, ivs)
  BY DEF Latest
<1>2. n \in DOMAIN graph /\ e.interval.start = now /\ now \in Int
  BY DEF Pending, EventsInOrder
<1>3. /\ Standing(p, D \ {s}, SegmentStart(p, s))
      /\ s \in Segment(p, SegmentStart(p, s)) \ Marks(p, D \ {s})
      /\ NextStage(p, s, Marks(p, D \ {s})) = c
      /\ NewMask(p, s, Marks(p, D \ {s})) = Marks(p, D)
  BY <1>1, WithoutLatest
<1>4. Marks(p, D \ {s}) = {}
  BY DEF Marks
<1>5. SegmentStart(p, s) = 1
  <2>1. SegmentStart(p, s) \in 1..StageCount(p)
    BY <1>1, OwnSegment
  <2>2. Standing(p, {}, SegmentStart(p, s))
    BY <1>3
  <2> QED BY <1>1, <2>1, <2>2, NothingStands
<1>6. s \in Segment(p, 1) /\ NextStage(p, s, {}) = c /\ NewMask(p, s, {}) = Marks(p, D)
  BY <1>3, <1>4, <1>5
<1>7. Within(B, VarsOf(p, D \ {s})) = NoBindings
  <2>1. VarsOf(p, D \ {s}) = {}
    BY DEF VarsOf
  <2> QED BY <2>1 DEF Within, NoBindings
<1>8. TryMatchStage(graph, p.stages[s], e, NoBindings) = {Within(B, VarsOf(p, D))}
  <2>1. Brings(n, s, i, D, B)
    BY <1>2, LatestMatches
  <2> QED BY ONLY <1>7, <2>1 DEF Brings
<1>9. Matches(i, s, e, NoBindings) /\ Extended(i, s, e, NoBindings) = Within(B, VarsOf(p, D))
  BY <1>8 DEF Matches, Extended
<1>10. [x \in {p.stages[s].anchor} |-> e.interval] = ivs
  <2>1. AnchorsOf(p, D) = {p.stages[s].anchor}
    BY <1>1 DEF AnchorsOf
  <2> QED BY <1>1, <2>1
<1>11. /\ m.pattern_idx = i /\ m.bindings = Within(B, VarsOf(p, D)) /\ m.intervals = ivs
       /\ m.next_stage = c /\ m.matched_stages = Marks(p, D)
       /\ m.state = IF PastEnd(i, c) THEN "Complete" ELSE "Active"
  <2> HIDE DEF e
  <2>1. /\ m.pattern_idx = i /\ m.bindings = Extended(i, s, e, NoBindings)
        /\ m.intervals = [x \in {p.stages[s].anchor} |-> e.interval]
        /\ m.next_stage = NextStage(p, s, {}) /\ m.matched_stages = NewMask(p, s, {})
        /\ m.state = IF PastEnd(i, NextStage(p, s, {})) THEN "Complete" ELSE "Active"
    BY Zenon DEF Initiated
  <2> HIDE DEF m, p
  <2> QED BY <1>6, <1>9, <1>10, <2>1
<1>12. ASSUME NEW neg \in p.negations, NEW b
       PROVE  ~NegationFound(graph, now, neg, b, ivs)
  <2> SUFFICES ASSUME NegationFound(graph, now, neg, b, ivs)
               PROVE  FALSE
    OBVIOUS
  <2>1. neg.between_start \in DOMAIN ivs
    BY DEF NegationFound
  <2>2. ivs[neg.between_start].start = now
    BY <1>2, <1>10, <2>1
  <2>3. PICK x \in ScanAnyTime(graph, neg.clauses[1].label) : InWindow(neg, ivs, x.interval)
    BY DEF NegationFound
  <2>4. PICK j \in DOMAIN graph : x = graph[j]
    BY <2>3 DEF ScanAnyTime
  <2>5. now < x.interval.start
    BY <2>2, <2>3 DEF InWindow
  <2>6. x.interval.start \in Int /\ x.interval.start <= now
    BY <2>4, EdgesHold
  <2> QED BY <1>2, <2>5, <2>6
<1>13. NegationAllows(m)
  <2> HIDE DEF m, p
  <2> QED BY <1>11, <1>12 DEF NegationAllows, CheckNegationsBatch, p
<1>14. enabled[i] /\ p.stages # << >>
  <2>1. enabled[i]
    BY <1>1 DEF EventsInOrder
  <2>2. p.stages # << >>
    BY <1>1, EmptySeq DEF StageCount
  <2> QED BY <2>1, <2>2
<1>15. k \in Attempts(e)
  <2> HIDE DEF e
  <2>1. k \in Initiations(e)
    BY <1>1, <1>6, <1>9, <1>13, <1>14 DEF Initiations
  <2> QED BY <2>1 DEF Attempts
<1>16. Made(e, k) = m
  BY DEF Made
<1>17. TemporalOK(m) \/ m.state # "Complete"
  <2> HIDE DEF m
  <2> QED BY <1>1, <1>11 DEF TemporalOK, PastEnd, p
<1> HIDE DEF m, e, p
<1>18. Shows(m, i, D, c, ivs, B)
  BY <1>11 DEF Shows, p
<1> QED BY <1>15, <1>16, <1>17, <1>18 DEF e

\* The match that stood at the picture's last stage but one is still in progress
LEMMA StillThere ==
  ASSUME BlockLibrary, StepwiseLibrary, EventVocabulary, TypeOK, EventsInOrder, NEW n \in Pending,
         NEW s, NEW i, NEW D, NEW c, NEW idx, NEW ivs, NEW B, Latest(n, s, i, D, c, idx, ivs, B),
         NEW c0 \in 1..StageCount(Library[i]),
         NEW pm \in pms, Shows(pm, i, D \ {s}, c0, Only(i, D \ {s}, ivs), B)
  PROVE  pm \in Advancing(graph[n])
<1> DEFINE p == Library[i]
           e == graph[n]
           rest == D \ {s}
           was == Only(i, rest, ivs)
<1>1. /\ i \in Pats /\ i \in DOMAIN Library /\ D \subseteq 1..StageCount(p) /\ s \in D
      /\ VarsOf(p, D) \subseteq DOMAIN B /\ DOMAIN B \subseteq PatternVars(p)
      /\ DOMAIN ivs = AnchorsOf(p, D)
      /\ \A neg \in p.negations : neg.between_start \in DOMAIN ivs =>
           (InWindow(neg, ivs, e.interval) => ~NegationTriggered(graph, now, neg, B, e))
  BY DEF Latest
<1>2. CouldBe(p.stages[s].clauses[1], e)
  BY DEF Latest, Fits
<1>3. AnchorsOf(p, D) = AnchorsOf(p, rest) \cup {p.stages[s].anchor} /\ VarsOf(p, rest) \subseteq VarsOf(p, D)
  <2> HIDE DEF p
  <2>1. \A t \in D : t \in rest \/ t = s
    OBVIOUS
  <2>2. s \in D /\ rest \subseteq D
    BY <1>1
  <2> HIDE DEF rest
  <2>3. AnchorsOf(p, D) = AnchorsOf(p, rest) \cup {p.stages[s].anchor}
    BY <2>1, <2>2 DEF AnchorsOf
  <2>4. VarsOf(p, rest) \subseteq VarsOf(p, D)
    BY <2>2 DEF VarsOf
  <2> QED BY <2>3, <2>4
<1>4. DOMAIN was = AnchorsOf(p, rest) /\ \A x \in AnchorsOf(p, rest) : was[x] = ivs[x]
  BY DEF Only
<1>5. e \in Edge
  <2>1. n \in DOMAIN graph
    BY DEF Pending
  <2> QED BY <2>1, EdgesHold
<1>6. pm \in Active /\ enabled[pm.pattern_idx]
  <2>1. pm.pattern_idx = i /\ pm.next_stage = c0
    BY DEF Shows
  <2>2. ~PastEnd(i, c0)
    <3>1. StageCount(p) \in Nat
      BY <1>1, StageFacts
    <3> QED BY <3>1 DEF PastEnd
  <2>3. pm.state = "Active"
    BY <2>1, <2>2 DEF TypeOK, IsMatch
  <2> QED BY <1>1, <2>1, <2>3 DEF Active, EventsInOrder
<1>7. ASSUME NEW neg \in p.negations, neg.between_start \in DOMAIN was,
             neg.between_end \cap DOMAIN was = {}, InWindow(neg, was, e.interval)
      PROVE  ~NegationTriggered(graph, now, neg, B, e)
  <2>1. neg.between_start \in DOMAIN ivs /\ ivs[neg.between_start] = was[neg.between_start]
    BY <1>1, <1>3, <1>4, <1>7
  <2>2. CASE p.stages[s].anchor \notin neg.between_end
    <3>1. InWindow(neg, ivs, e.interval)
      <4>1. neg.between_end \cap DOMAIN ivs = {}
        BY <1>1, <1>3, <1>4, <1>7, <2>2
      <4> QED BY <1>7, <2>1, <4>1 DEF InWindow
    <3> QED BY <1>1, <2>1, <3>1
  <2>3. CASE p.stages[s].anchor \in neg.between_end
    <3>1. AboutAnotherEvent(p, neg)
      BY <1>1 DEF StepwiseLibrary, StepwisePattern
    <3>2. \A k \in DOMAIN neg.clauses : ~CouldBe(neg.clauses[k], e)
      BY <1>1, <1>2, <1>5, <2>3, <3>1 DEF AboutAnotherEvent
    <3>3. \A k \in DOMAIN neg.clauses :
            neg.clauses[k].label = e.label /\ TargetAccepts(neg.clauses[k].target, e.target, B)
              => CouldBe(neg.clauses[k], e)
      BY DEF CouldBe, TargetAccepts, ConstraintAccepts
    <3> HIDE DEF e, p
    <3> QED BY <3>2, <3>3 DEF NegationTriggered
  <2> QED BY <2>2, <2>3
<1>8. pm \notin Killed(e)
  <2>1. rest \subseteq 1..StageCount(p) /\ VarsOf(p, rest) \subseteq DOMAIN B
    BY <1>1, <1>3
  <2>2. Shows(pm, i, rest, c0, was, B)
    OBVIOUS
  <2> HIDE DEF e, rest, was
  <2> QED BY <1>1, <1>4, <1>7, <2>1, <2>2, NotKilled
<1> QED BY <1>6, <1>8 DEF Advancing

\* The edge comes after all the match has, outside the group of its stage
LEMMA LatestInOrder ==
  ASSUME BlockLibrary, NEW n,
         NEW s, NEW i, NEW D, NEW c, NEW idx, NEW ivs, NEW B, Latest(n, s, i, D, c, idx, ivs, B),
         NEW pm, pm.pattern_idx = i, pm.intervals = Only(i, D \ {s}, ivs)
  PROVE  InOrder(pm, s, graph[n])
<1> DEFINE p == Library[i]
           was == Only(i, D \ {s}, ivs)
<1>1. /\ i \in DOMAIN Library /\ D \subseteq 1..StageCount(p) /\ s \in D /\ idx[s] = n
      /\ \A t \in D : ivs[p.stages[t].anchor] = graph[idx[t]].interval
      /\ \A t, u \in D : t < u /\ ~SameGroup(p, t, u) =>
           graph[idx[t]].interval.start < graph[idx[u]].interval.start
      /\ \A t \in D : t > s => SameGroup(p, s, t)
  BY DEF Latest
<1>2. SUFFICES ASSUME NEW x \in DOMAIN was
               PROVE  \/ was[x].start < graph[n].interval.start
                      \/ \E t \in AnchorStage(p, x) : SameGroup(p, t, s)
  BY DEF InOrder
<1>3. PICK t \in D \ {s} : x = p.stages[t].anchor
  BY <1>2 DEF AnchorsOf, Only
<1>4. was[x] = graph[idx[t]].interval
  BY <1>1, <1>2, <1>3 DEF Only
<1>5. CASE SameGroup(p, t, s)
  <2>1. t \in 1..StageCount(p) /\ \A u \in 1..StageCount(p) : p.stages[u].anchor = x => u = t
    BY <1>1, <1>3 DEF BlockLibrary, BlockPattern
  <2>2. t \in AnchorStage(p, x)
    <3>1. \A u \in 1..(t - 1) : p.stages[u].anchor # x
      <4> SUFFICES ASSUME NEW u \in 1..(t - 1), p.stages[u].anchor = x
                   PROVE  FALSE
        OBVIOUS
      <4>1. StageCount(p) \in Nat
        BY <1>1, StageFacts
      <4>2. u \in 1..StageCount(p) /\ u # t
        BY <2>1, <4>1
      <4> QED BY <2>1, <4>2
    <3> QED BY <1>3, <2>1, <3>1 DEF AnchorStage
  <2> QED BY <1>5, <2>2
<1>6. CASE ~SameGroup(p, t, s)
  <2>1. ~SameGroup(p, s, t)
    BY <1>6 DEF SameGroup
  <2>2. t < s
    BY <1>1, <1>3, <2>1
  <2> QED BY <1>1, <1>3, <1>4, <1>6, <2>2
<1> QED BY <1>5, <1>6

\* A longer picture is what an attempt to advance the match that shows the
\* picture without its latest edge makes
LEMMA AdvancedShows ==
  ASSUME BlockLibrary, StepwiseLibrary, EventVocabulary, TypeOK, IdsUnique, EventsInOrder,
         NEW n \in Pending,
         NEW s, NEW i, NEW D, NEW c, NEW idx, NEW ivs, NEW B, Latest(n, s, i, D, c, idx, ivs, B),
         NEW pm \in pms,
         Shows(pm, i, D \ {s}, SegmentStart(Library[i], s), Only(i, D \ {s}, ivs), B)
  PROVE  \E k \in Attempts(graph[n]) :
           /\ Shows(Made(graph[n], k), i, D, c, ivs, B)
           /\ Made(graph[n], k).state = "Complete" => TemporalOK(Made(graph[n], k))
<1> DEFINE p == Library[i]
           e == graph[n]
           rest == D \ {s}
           c0 == SegmentStart(p, s)
           was == Only(i, rest, ivs)
           k == <<1, pm.id, s, 0>>
           m == AdvancedMatch(pm, s, e)
<1>1. /\ i \in Pats /\ i \in DOMAIN Library /\ D \subseteq 1..StageCount(p) /\ Standing(p, D, c)
      /\ s \in D /\ s \in 1..StageCount(p) /\ idx[s] = n
      /\ \A t \in D : t > s => SameGroup(p, s, t)
      /\ ivs = [x \in AnchorsOf(p, D) |-> ivs[x]]
      /\ ivs[p.stages[s].anchor] = e.interval
      /\ c > StageCount(p) => CheckTemporal(p, ivs)
  BY DEF Latest
<1>2. n \in DOMAIN graph
  BY DEF Pending
<1>3. /\ s \in Segment(p, c0) \ Marks(p, rest)
      /\ NextStage(p, s, Marks(p, rest)) = c
      /\ NewMask(p, s, Marks(p, rest)) = Marks(p, D)
  BY <1>1, WithoutLatest
<1>4. c0 \in 1..StageCount(p)
  BY <1>1, OwnSegment
<1>5. pm \in Advancing(e)
  BY <1>4, StillThere
<1>6. /\ pm.pattern_idx = i /\ pm.next_stage = c0 /\ pm.matched_stages = Marks(p, rest)
      /\ pm.bindings = Within(B, VarsOf(p, rest)) /\ pm.intervals = was
      /\ DOMAIN pm = MatchFields /\ pm.repetition_count \in Nat
  BY DEF Shows, TypeOK, IsMatch
<1>7. TryMatchStage(graph, p.stages[s], e, pm.bindings) = {Within(B, VarsOf(p, D))}
  <2>1. Brings(n, s, i, D, B)
    BY <1>2, LatestMatches
  <2> QED BY ONLY <1>6, <2>1 DEF Brings
<1>8. Matches(i, s, e, pm.bindings) /\ Extended(i, s, e, pm.bindings) = Within(B, VarsOf(p, D))
  BY <1>7 DEF Matches, Extended
<1>9. InOrder(pm, s, e)
  BY <1>6, LatestInOrder
<1>10. s \in TryStages(pm, e)
  <2> HIDE DEF e, c0, rest
  <2> QED BY <1>3, <1>6, <1>8, <1>9 DEF TryStages
<1>11. WithInterval(pm.intervals, p.stages[s].anchor, e.interval) = ivs
  <2>1. AnchorsOf(p, D) = AnchorsOf(p, rest) \cup {p.stages[s].anchor}
    BY <1>1 DEF AnchorsOf
  <2>2. DOMAIN was = AnchorsOf(p, rest) /\ \A x \in AnchorsOf(p, rest) : was[x] = ivs[x]
    BY DEF Only
  <2>3. WithInterval(pm.intervals, p.stages[s].anchor, e.interval)
          = [x \in AnchorsOf(p, D) |-> ivs[x]]
    <3> HIDE DEF e, rest
    <3> QED BY <1>1, <1>6, <2>1, <2>2 DEF WithInterval
  <2> QED BY <1>1, <2>3
<1>12. /\ m.pattern_idx = i /\ m.bindings = Within(B, VarsOf(p, D)) /\ m.intervals = ivs
       /\ m.next_stage = c /\ m.matched_stages = Marks(p, D)
       /\ m.state = IF PastEnd(i, c) THEN "Complete" ELSE "Active"
  <2> HIDE DEF e
  <2>1. /\ m.pattern_idx = pm.pattern_idx
        /\ m.bindings = Extended(pm.pattern_idx, s, e, pm.bindings)
        /\ m.intervals = WithInterval(pm.intervals, Library[pm.pattern_idx].stages[s].anchor, e.interval)
        /\ m.next_stage = NextStage(Library[pm.pattern_idx], s, pm.matched_stages)
        /\ m.matched_stages = NewMask(Library[pm.pattern_idx], s, pm.matched_stages)
        /\ m.state = IF PastEnd(pm.pattern_idx, NextStage(Library[pm.pattern_idx], s, pm.matched_stages))
                     THEN "Complete" ELSE "Active"
    BY <1>6 DEF AdvancedMatch, MatchFields
  <2> HIDE DEF m
  <2> QED BY ONLY <1>3, <1>6, <1>8, <1>11, <2>1
<1>13. TemporalOK(m) \/ ~PastEnd(i, c)
  <2> HIDE DEF m
  <2> QED BY <1>1, <1>12 DEF TemporalOK, PastEnd, p
<1>14. 0 \in Branches(pm, s, e)
  <2> HIDE DEF m
  <2>1. CASE ~Looping(pm, s)
    BY <2>1 DEF Branches
  <2>2. CASE Looping(pm, s)
    <3>1. p.repeat_range # {} /\ PastEnd(i, c)
      BY <1>3, <1>6, <2>2 DEF Looping
    <3>2. PICK rr \in p.repeat_range : TRUE
      BY <3>1
    <3>3. rr.min_reps \in 0..2
      BY <1>1 DEF StepwiseLibrary, StepwisePattern
    <3>4. NextRepetition(pm) >= rr.min_reps
      BY <1>6, <3>3 DEF NextRepetition
    <3>5. TemporalOK(AdvancedMatch(pm, s, e))
      BY <1>13, <3>1 DEF m
    <3> HIDE DEF e
    <3> QED BY <1>6, <2>2, <3>2, <3>4, <3>5 DEF Branches
  <2> QED BY <2>1, <2>2
<1>15. k \in Attempts(e)
  <2> HIDE DEF e
  <2>1. k \in Advances(e)
    BY <1>5, <1>10, <1>14 DEF Advances
  <2> QED BY <2>1 DEF Attempts
<1>16. Made(e, k) = m
  <2>1. Parent(k) = pm
    <3>1. \A q \in pms : q.id = pm.id => q = pm
      BY DEF IdsUnique
    <3>2. k[2] = pm.id
      OBVIOUS
    <3> HIDE DEF k
    <3>3. pm \in pms /\ pm.id = k[2] /\ \A q \in pms : q.id = k[2] => q = pm
      BY <3>1, <3>2
    <3> QED BY ONLY <3>3 DEF Parent
  <2>2. k[1] = 1 /\ k[3] = s /\ k[4] = 0
    OBVIOUS
  <2> HIDE DEF k, m, e
  <2> QED BY <2>1, <2>2 DEF Made, m
<1> HIDE DEF m, e, p, k
<1>17. Shows(m, i, D, c, ivs, B)
  BY <1>12 DEF Shows, p
<1>18. m.state = "Complete" => TemporalOK(m)
  BY <1>12, <1>13
<1> QED BY <1>15, <1>16, <1>17, <1>18 DEF e

\* Whatever the picture ends with is stored
LEMMA LatestStored ==
  ASSUME BlockLibrary, StepwiseLibrary, EventVocabulary, TypeOK, IdsUnique, EventsInOrder,
         NEW given, AllPictured(given),
         NEW n \in Pending, \A j \in Pending : n <= j,
         UNCHANGED <<graph, now, registered>>, notified' = notified \cup {n},
         NEW i, NEW D, NEW c, NEW idx, NEW ivs, NEW B, Picture(i, D, c, idx, ivs, B)',
         NEW s, Latest(n, s, i, D, c, idx, ivs, B)
  PROVE  \E q \in StoreAfter(graph[n], MatchesMade(graph[n])) : Shows(q, i, D, c, ivs, B)
<1> DEFINE p == Library[i]
           c0 == SegmentStart(p, s)
<1>1. /\ i \in DOMAIN Library /\ D \in SUBSET (1..StageCount(p)) /\ Standing(p, D, c)
      /\ s \in D /\ s \in 1..StageCount(p) /\ idx[s] = n /\ graph[n].label \in StageLabels
      /\ \A t \in D : t > s => SameGroup(p, s, t)
      /\ \A t \in D \ {s} : idx[t] \in notified
  BY DEF Latest
<1>2. n \in DOMAIN graph
  BY DEF Pending
<1>3. \E k \in Attempts(graph[n]) :
        /\ Shows(Made(graph[n], k), i, D, c, ivs, B)
        /\ Made(graph[n], k).state = "Complete" => TemporalOK(Made(graph[n], k))
  <2>1. CASE D \ {s} = {}
    BY <2>1, StartedShows
  <2>2. CASE D \ {s} # {}
    <3>1. Standing(p, D \ {s}, c0) /\ c0 \in 1..StageCount(p)
      BY <1>1, WithoutLatest, OwnSegment
    <3>2. Picture(i, D \ {s}, c0, idx, Only(i, D \ {s}, ivs), B)
      BY <1>1, <2>2, <3>1, PictureBefore
    <3>3. ~(c0 > StageCount(p))
      <4>1. StageCount(p) \in Nat
        BY <1>1, StageFacts
      <4> QED BY <3>1, <4>1
    <3>4. PICK pm \in pms : Shows(pm, i, D \ {s}, c0, Only(i, D \ {s}, ivs), B)
      BY <3>2, <3>3 DEF AllPictured, HandedOver
    <3> QED BY <3>4, AdvancedShows
  <2> QED BY <2>1, <2>2
<1>4. PICK k \in Attempts(graph[n]) :
        /\ Shows(Made(graph[n], k), i, D, c, ivs, B)
        /\ Made(graph[n], k).state = "Complete" => TemporalOK(Made(graph[n], k))
  BY <1>3
<1>5. PICK q \in pms \cup NewMatches(MatchesMade(graph[n])) :
        Fingerprint(q) = Fingerprint(Made(graph[n], k))
  BY <1>4, AttemptStored
<1>6. Shows(q, i, D, c, ivs, B)
  BY <1>4, <1>5 DEF Fingerprint, Shows
<1>7. q \in StoreAfter(graph[n], MatchesMade(graph[n]))
  BY <1>2, <1>6, ShownStays
<1> QED BY <1>6, <1>7

\* Being told of the next edge leaves every picture accounted for
LEMMA NotifyPictures ==
  ASSUME BlockLibrary, StepwiseLibrary, EventVocabulary, Inv, EventsInOrder,
         NEW given, AllPictured(given),
         NEW n \in DOMAIN graph, NotifyNext(n)
  PROVE  AllPictured(given)'
<1>1. /\ n \in Pending /\ (\A j \in Pending : n <= j)
      /\ pms' = StoreAfter(graph[n], MatchesMade(graph[n])) /\ TypeOK /\ IdsUnique
      /\ UNCHANGED <<graph, now, registered>> /\ notified' = notified \cup {n}
  BY DEF NotifyNext, Notify, OnEdgeAdded, Inv
<1>2. ASSUME NEW i, NEW D, NEW c, NEW idx, NEW ivs, NEW B, Picture(i, D, c, idx, ivs, B)'
      PROVE  (\E pm \in pms' : Shows(pm, i, D, c, ivs, B)) \/ HandedOver(given, i, D, c, ivs, B)'
  <2>1. CASE Picture(i, D, c, idx, ivs, B)
    <3>1. CASE HandedOver(given, i, D, c, ivs, B)
      BY <3>1 DEF HandedOver
    <3>2. CASE ~HandedOver(given, i, D, c, ivs, B)
      <4>1. PICK pm \in pms : Shows(pm, i, D, c, ivs, B)
        BY <2>1, <3>2 DEF AllPictured
      <4>2. pm \in StoreAfter(graph[n], MatchesMade(graph[n]))
        BY <1>1, <1>2, <4>1, ShownStays
      <4> QED BY <1>1, <4>1, <4>2
    <3> QED BY <3>1, <3>2
  <2>2. ASSUME NEW s \in D, Latest(n, s, i, D, c, idx, ivs, B)
        PROVE  \E pm \in pms' : Shows(pm, i, D, c, ivs, B)
    BY <1>1, <1>2, <2>2, LatestStored
  <2> QED BY <1>1, <1>2, <2>1, <2>2, LatestEdge
<1> QED BY <1>2 DEF AllPictured, Shows

\* A batch is added at the end, and is one later than all before it
LEMMA InsertFacts ==
  ASSUME TypeOK, now \in Int, NEW es \in Batches, InsertNext(es)
  PROVE  /\ graph \in Seq(Edge) /\ Len(graph) \in Nat /\ Len(es) \in Nat
         /\ DOMAIN es = 1..Len(es) /\ DOMAIN graph = 1..Len(graph)
         /\ DOMAIN graph' = 1..(Len(graph) + Len(es))
         /\ \A i \in DOMAIN graph : graph'[i] = graph[i]
         /\ \A i \in DOMAIN graph' : i \notin DOMAIN graph =>
              /\ i - Len(graph) \in DOMAIN es /\ graph'[i] = es[i - Len(graph)]
              /\ graph'[i].interval.start = now + 1 /\ now' = now + 1
         /\ now' \in {now, now + 1}
<1> DEFINE n == Len(graph)
<1>1. graph \in Seq(Edge) /\ es \in Seq(Edge) /\ n \in Nat /\ Len(es) \in Nat
  BY BatchesAssumption, LenProperties DEF TypeOK, BatchesAssumption
<1>2. /\ graph' = graph \o es
      /\ \A i \in DOMAIN es : es[i].interval.start = now + 1
      /\ now' = CHOOSE t \in {now} \cup {es[i].interval.start : i \in DOMAIN es} :
                  t >= now /\ \A i \in DOMAIN es : es[i].interval.start <= t
  BY DEF InsertNext, Insert
<1>3. /\ DOMAIN es = 1..Len(es) /\ DOMAIN graph = 1..n
      /\ DOMAIN graph' = 1..(n + Len(es))
      /\ \A i \in DOMAIN graph : graph'[i] = graph[i]
      /\ \A i \in DOMAIN graph' : i \notin DOMAIN graph => i - n \in DOMAIN es /\ graph'[i] = es[i - n]
  <2> HIDE DEF Edge
  <2> QED BY <1>1, <1>2, ConcatProperties, LenProperties
<1>4. (DOMAIN es = {} => now' = now) /\ (DOMAIN es # {} => now' = now + 1)
  <2> DEFINE T == {now} \cup {es[i].interval.start : i \in DOMAIN es}
             Late(t) == t >= now /\ \A i \in DOMAIN es : es[i].interval.start <= t
  <2>1. CASE DOMAIN es = {}
    <3>1. T = {now}
      BY <2>1
    <3>2. now \in T /\ Late(now) /\ now' = CHOOSE t \in T : Late(t)
      BY <1>2, <2>1, <3>1
    <3> HIDE DEF T, Late
    <3> QED BY <2>1, <3>1, <3>2
  <2>2. CASE DOMAIN es # {}
    <3>1. PICK i \in DOMAIN es : TRUE
      BY <2>2
    <3>2. es[i].interval.start = now + 1 /\ now + 1 \in T /\ Late(now + 1)
      BY <1>2, <3>1
    <3>3. now' = CHOOSE t \in T : Late(t)
      BY <1>2
    <3>4. \A t \in T : Late(t) => t = now + 1
      BY <1>2, <3>2
    <3> HIDE DEF T, Late
    <3> QED BY <2>2, <3>2, <3>3, <3>4
  <2> QED BY <2>1, <2>2
<1> QED BY <1>1, <1>2, <1>3, <1>4

\* Events stay in order
LEMMA InsertInOrder ==
  ASSUME EventVocabulary, TypeOK, EventsInOrder, NEW es \in Batches, InsertNext(es)
  PROVE  EventsInOrder'
<1> DEFINE n == Len(graph)
<1>1. /\ now \in Int /\ registered = Len(Library) /\ Pending = {} /\ notified \subseteq DOMAIN graph
      /\ UNCHANGED <<notified, registered, enabled>>
  BY DEF InsertNext, Insert, EventsInOrder, TypeOK
<1>2. /\ n \in Nat /\ Len(es) \in Nat /\ DOMAIN es = 1..Len(es) /\ DOMAIN graph = 1..n
      /\ DOMAIN graph' = 1..(n + Len(es))
      /\ \A i \in DOMAIN graph : graph'[i] = graph[i]
      /\ \A i \in DOMAIN graph' : i \notin DOMAIN graph =>
           /\ i - n \in DOMAIN es /\ graph'[i] = es[i - n]
           /\ graph'[i].interval.start = now + 1 /\ now' = now + 1
      /\ now' \in {now, now + 1}
  BY <1>1, InsertFacts
<1>3. \A i \in DOMAIN graph : graph[i].interval.start <= now
  BY DEF EventsInOrder
<1>4. \A i \in DOMAIN graph' : graph'[i].interval.start <= now'
  <2> SUFFICES ASSUME NEW i \in DOMAIN graph'
               PROVE  graph'[i].interval.start <= now'
    OBVIOUS
  <2>1. CASE i \in DOMAIN graph
    BY <1>1, <1>2, <1>3, <2>1, EdgesHold
  <2>2. CASE i \notin DOMAIN graph
    BY <1>1, <1>2, <2>2
  <2> QED BY <2>1, <2>2
<1>5. \A i \in notified : i \in DOMAIN graph /\ graph'[i].label \in HeadLabels
  BY <1>1, <1>2 DEF EventsInOrder
<1>6. ASSUME NEW i \in Pending'
      PROVE  graph'[i].interval.start = now' /\ \A j \in notified : j < i
  <2>1. i \in DOMAIN graph' /\ i \notin notified /\ graph'[i].label \in HeadLabels
    BY <1>1, <1>6 DEF Pending
  <2>2. i \notin DOMAIN graph
    BY <1>1, <1>2, <2>1 DEF Pending
  <2> QED BY <1>1, <1>2, <2>1, <2>2
<1>7. ASSUME NEW i \in DOMAIN graph', NEW j \in DOMAIN graph',
             graph'[i].interval.start = graph'[j].interval.start
      PROVE  \E fs \in Batches : \E a, b \in DOMAIN fs : fs[a] = graph'[i] /\ fs[b] = graph'[j] /\ i - j = a - b
  <2>1. CASE i \in DOMAIN graph /\ j \in DOMAIN graph
    BY <1>2, <1>7, <2>1 DEF EventsInOrder
  <2>2. CASE i \notin DOMAIN graph /\ j \notin DOMAIN graph
    <3>1. es[i - n] = graph'[i] /\ es[j - n] = graph'[j] /\ i - j = (i - n) - (j - n)
          /\ i - n \in DOMAIN es /\ j - n \in DOMAIN es
      BY <1>2, <2>2
    <3> QED BY <3>1
  <2>3. CASE i \in DOMAIN graph /\ j \notin DOMAIN graph
    BY <1>1, <1>2, <1>3, <1>7, <2>3
  <2>4. CASE i \notin DOMAIN graph /\ j \in DOMAIN graph
    BY <1>1, <1>2, <1>3, <1>7, <2>4
  <2> QED BY <2>1, <2>2, <2>3, <2>4
<1>8. now' \in Int
  BY <1>1, <1>2
<1>9. \A i \in Pats' : enabled'[i]
  BY <1>1 DEF EventsInOrder, Pats
<1> QED BY <1>1, <1>4, <1>5, <1>6, <1>7, <1>8, <1>9 DEF EventsInOrder

\* What a batch adds to the graph takes nothing from it that holds
LEMMA ScanGrows ==
  ASSUME EventVocabulary, TypeOK, EventsInOrder, NEW es \in Batches, InsertNext(es), NEW l
  PROVE  Scan(graph, l, now) \subseteq Scan(graph, l, now)' 
<1> SUFFICES ASSUME NEW x \in Scan(graph, l, now)
             PROVE  x \in Scan(graph, l, now)'
  OBVIOUS
<1>1. PICK i \in DOMAIN graph : x = graph[i]
  BY DEF Scan
<1>2. /\ \A j \in DOMAIN graph : graph'[j] = graph[j]
      /\ i \in DOMAIN graph' /\ now' \in {now, now + 1} /\ now \in Int
  <2>1. now \in Int
    BY DEF EventsInOrder
  <2> QED BY <2>1, InsertFacts
<1>3. /\ \A at : Covers(graph[i].interval, at) <=> graph[i].interval.start <= at
      /\ graph[i].interval.start \in Int /\ graph[i].interval.start <= now
  BY EdgesHold
<1>4. x.label = l
  BY DEF Scan
<1>5. Covers(x.interval, now')
  BY <1>1, <1>2, <1>3
<1> QED BY <1>1, <1>2, <1>4, <1>5 DEF Scan

\* ... so a negation once completed by an edge stays so
LEMMA TriggeredGrows ==
  ASSUME EventVocabulary, TypeOK, EventsInOrder, NEW es \in Batches, InsertNext(es),
         NEW neg, NEW B, NEW e, NegationTriggered(graph, now, neg, B, e)
  PROVE  NegationTriggered(graph', now', neg, B, e)
<1>1. \A l : \A x \in Scan(graph, l, now) : x \in Scan(graph', l, now')
  BY ScanGrows
<1>2. \A c, other : OtherHolds(graph, now, B, c, e, other) => OtherHolds(graph', now', B, c, e, other)
  BY <1>1 DEF OtherHolds
<1> QED BY <1>2 DEF NegationTriggered

\* An edge that is a stage's event with the batch was so without it
LEMMA FitsWithout ==
  ASSUME EventVocabulary, TypeOK, EventsInOrder, NEW es \in Batches, InsertNext(es),
         NEW stage, AboutOneEvent(stage), NEW T, stage.clauses \in Seq(T),
         NEW n \in DOMAIN graph, graph[n].label \in HeadLabels,
         NEW B, Fits(graph', stage, graph[n], B)
  PROVE  Fits(graph, stage, graph[n], B)
<1> DEFINE e == graph[n]
           at == e.interval.start
<1>1. /\ \A j \in DOMAIN graph : graph'[j] = graph[j] /\ j \in DOMAIN graph'
      /\ \A j \in DOMAIN graph' : j \notin DOMAIN graph =>
           graph'[j] \in Edge /\ graph'[j].interval.start = now + 1
      /\ now \in Int
  <2>1. now \in Int
    BY DEF EventsInOrder
  <2>2. \A j \in DOMAIN es : es[j] \in Edge
    <3>1. es \in Seq(Edge)
      BY BatchesAssumption DEF BatchesAssumption
    <3> QED BY <3>1, ElementOfSeq, LenProperties
  <2> QED BY <2>1, <2>2, InsertFacts
<1>2. e \in Edge /\ at \in Int /\ at <= now
  BY EdgesHold
<1>3. CouldBe(stage.clauses[1], e) /\ B[stage.anchor] = e.source
  BY DEF Fits
<1>4. ASSUME NEW k \in 2..Len(stage.clauses)
      PROVE  FitsClause(graph, stage.clauses[k], at, B)
  <2> DEFINE c == stage.clauses[k]
             hits == {j \in EdgesFrom(graph, B[c.source], c.label, at) : TargetAccepts(c.target, graph[j].target, B)}
             more == {j \in EdgesFrom(graph', B[c.source], c.label, at) : TargetAccepts(c.target, graph'[j].target, B)}
  <2>1. B[c.source] \in Nodes /\ (c.negated => more = {}) /\ (~c.negated => more # {})
    BY DEF Fits, FitsClause
  <2>2. hits \subseteq more
    BY <1>1 DEF EdgesFrom
  <2>3. k \in 1..Len(stage.clauses)
    BY LenProperties
  <2>4. ~c.negated => B[c.source] = e.source
    BY <1>3, <2>3 DEF AboutOneEvent
  <2>5. ASSUME ~c.negated, NEW j \in more
        PROVE  j \in hits
    <3>1. j \in DOMAIN graph' /\ graph'[j].source = e.source
      BY <2>4, <2>5 DEF EdgesFrom
    <3>2. CASE j \in DOMAIN graph
      BY <1>1, <3>2 DEF EdgesFrom
    <3>3. CASE j \notin DOMAIN graph
      <4>1. graph'[j] \in Edge /\ graph'[j].interval.start = now + 1
        BY <1>1, <3>1, <3>3
      <4>2. graph'[j].interval.start = at
        BY <1>2, <3>1, <4>1 DEF EventVocabulary
      <4> QED BY <1>1, <1>2, <4>1, <4>2
    <3> QED BY <3>2, <3>3
  <2>6. B[c.source] \in Nodes /\ (c.negated => hits = {}) /\ (~c.negated => hits # {})
    <3> HIDE DEF hits, more, c
    <3> QED BY <2>1, <2>2, <2>5
  <2> QED BY <2>6 DEF FitsClause
<1> QED BY <1>3, <1>4 DEF Fits

\* A new batch makes no picture of what was told before
LEMMA InsertPictures ==
  ASSUME StepwiseLibrary, EventVocabulary, TypeOK, EventsInOrder,
         NEW given, AllPictured(given),
         NEW es \in Batches, InsertNext(es)
  PROVE  AllPictured(given)'
<1>1. UNCHANGED <<notified, registered, pms>> /\ notified \subseteq DOMAIN graph /\ now \in Int
  BY DEF InsertNext, Insert, matches, TypeOK, EventsInOrder
<1>2. \A j \in DOMAIN graph : graph'[j] = graph[j]
  BY <1>1, InsertFacts
<1>3. ASSUME NEW i, NEW D, NEW c, NEW idx, NEW ivs, NEW B, Picture(i, D, c, idx, ivs, B)'
      PROVE  Picture(i, D, c, idx, ivs, B)
  <2> DEFINE p == Library[i]
  <2>1. /\ i \in Pats /\ D \subseteq 1..StageCount(p) /\ D # {} /\ Standing(p, D, c)
        /\ VarsOf(p, D) \subseteq DOMAIN B /\ DOMAIN B \subseteq PatternVars(p)
        /\ ivs = [x \in AnchorsOf(p, D) |-> ivs[x]]
        /\ \A t \in D : /\ idx[t] \in notified
                        /\ Fits(graph', p.stages[t], graph'[idx[t]], B)
                        /\ ivs[p.stages[t].anchor] = graph'[idx[t]].interval
        /\ \A t, u \in D : t < u /\ ~SameGroup(p, t, u) =>
             graph'[idx[t]].interval.start < graph'[idx[u]].interval.start
        /\ c > StageCount(p) => CheckTemporal(p, ivs)
        /\ Undisturbed(i, ivs, B)'
    BY <1>1, <1>3 DEF Picture, Pats
  <2>2. i \in DOMAIN Library
    BY <2>1, LibraryDomain DEF TypeOK, Pats
  <2>3. \A t \in D : idx[t] \in DOMAIN graph /\ graph'[idx[t]] = graph[idx[t]]
    BY <1>1, <1>2, <2>1
  <2>4. ASSUME NEW t \in D
        PROVE  Fits(graph, p.stages[t], graph[idx[t]], B)
    <3> DEFINE stage == p.stages[t]
    <3>1. Fits(graph', stage, graph[idx[t]], B)
      BY <2>1, <2>3
    <3>2. graph[idx[t]].label \in HeadLabels
      BY <2>1 DEF EventsInOrder
    <3>3. t \in 1..StageCount(p)
      BY <2>1
    <3>4. AboutOneEvent(stage)
      BY <2>2, <3>3 DEF StepwiseLibrary, StepwisePattern
    <3>5. stage.clauses \in Seq({stage.clauses[k] : k \in DOMAIN stage.clauses})
      BY <2>2, <3>3, LibraryAssumption, Zenon DEF LibraryAssumption, BuiltPattern
    <3>6. PICK T : stage.clauses \in Seq(T)
      BY <3>5
    <3> HIDE DEF stage
    <3>7. Fits(graph, stage, graph[idx[t]], B)
      BY <2>3, <3>1, <3>2, <3>4, <3>6, FitsWithout
    <3> QED BY <3>7 DEF stage
  <2>5. Undisturbed(i, ivs, B)
    <3> SUFFICES ASSUME NEW neg \in p.negations, neg.between_start \in DOMAIN ivs, NEW j \in notified,
                        InWindow(neg, ivs, graph[j].interval), NegationTriggered(graph, now, neg, B, graph[j])
                 PROVE  FALSE
      BY DEF Undisturbed
    <3>1. j \in DOMAIN graph /\ graph'[j] = graph[j]
      BY <1>1, <1>2
    <3>2. NegationTriggered(graph', now', neg, B, graph[j])
      BY TriggeredGrows
    <3> QED BY <1>1, <2>1, <3>1, <3>2 DEF Undisturbed
  <2> QED BY <2>1, <2>3, <2>4, <2>5 DEF Picture
<1>4. ASSUME NEW i, NEW D, NEW c, NEW idx, NEW ivs, NEW B, Picture(i, D, c, idx, ivs, B)'
      PROVE  (\E pm \in pms' : Shows(pm, i, D, c, ivs, B)) \/ HandedOver(given, i, D, c, ivs, B)'
  <2>1. Picture(i, D, c, idx, ivs, B)
    BY <1>3, <1>4
  <2>2. (\E pm \in pms : Shows(pm, i, D, c, ivs, B)) \/ HandedOver(given, i, D, c, ivs, B)
    BY <2>1 DEF AllPictured
  <2> QED BY <1>1, <2>2 DEF HandedOver
<1> QED BY <1>4 DEF AllPictured, Shows

\* Draining hands over the complete matches, and keeps the others
LEMMA DrainPictures ==
  ASSUME StepwiseLibrary, TypeOK, AllPictured(delivered), DrainCompleted, delivered' = delivered \cup Drained
  PROVE  AllPictured(delivered)'
<1>1. pms' = Active /\ UNCHANGED <<graph, now, notified, registered>>
  BY DEF DrainCompleted, dataSource
<1>2. ASSUME NEW i, NEW D, NEW c, NEW idx, NEW ivs, NEW B, Picture(i, D, c, idx, ivs, B)'
      PROVE  (\E pm \in pms' : Shows(pm, i, D, c, ivs, B)) \/ HandedOver(delivered, i, D, c, ivs, B)'
  <2>1. Picture(i, D, c, idx, ivs, B)
    BY <1>1, <1>2 DEF Picture, Pats, Undisturbed
  <2>2. CASE HandedOver(delivered, i, D, c, ivs, B)
    BY <2>2 DEF HandedOver
  <2>3. ASSUME NEW pm \in pms, Shows(pm, i, D, c, ivs, B)
        PROVE  (\E q \in pms' : Shows(q, i, D, c, ivs, B)) \/ HandedOver(delivered, i, D, c, ivs, B)'
    <3>1. IsMatch(pm) /\ pm.pattern_idx = i /\ pm.next_stage = c
      BY <2>3 DEF TypeOK, Shows
    <3>2. CASE pm.state = "Active"
      BY <1>1, <2>3, <3>2 DEF Active
    <3>3. CASE pm.state # "Active"
      <4>1. pm \in Complete /\ c > StageCount(Library[i])
        BY <3>1, <3>3 DEF IsMatch, PastEnd, Complete
      <4>2. ~IsPrivate(Library[pm.pattern_idx].name)
        <5>1. Pats \subseteq DOMAIN Library
          BY LibraryDomain DEF Pats, TypeOK
        <5>2. \A j \in DOMAIN Library : ~Library[j].private
          BY Zenon DEF StepwiseLibrary, StepwisePattern
        <5>3. \A j \in Pats : ~Library[j].private
          BY <5>1, <5>2, Zenon
        <5> QED BY <5>3, Zenon DEF IsPrivate, Named
      <4> DEFINE d == <<pm.pattern_idx, pm.repetition_count, MatchOf(pm)>>
      <4>3. d \in Drained
        BY <4>1, <4>2 DEF Drained, MatchesOf
      <4>4. d[1] = i /\ d[3] = [bindings |-> Within(B, VarsOf(Library[i], D)), intervals |-> ivs]
        BY <2>3 DEF Shows, MatchOf
      <4> HIDE DEF d
      <4>5. HandedOver(delivered, i, D, c, ivs, B)'
        BY <4>1, <4>3, <4>4 DEF HandedOver
      <4> QED BY <4>5
    <3> QED BY <3>2, <3>3
  <2> QED BY <2>1, <2>2, <2>3 DEF AllPictured
<1> QED BY <1>2 DEF AllPictured, Shows

\* While patterns are registered there is nothing to picture
LEMMA RegisterPictures ==
  ASSUME TypeOK, EventsInOrder, Register, NEW given
  PROVE  EventsInOrder' /\ AllPictured(given)'
<1>1. /\ registered < Len(Library) /\ registered' = registered + 1 /\ registered \in Nat
      /\ UNCHANGED <<graph, now, notified>> /\ graph = << >> /\ notified = {}
      /\ enabled' = Append(enabled, TRUE) /\ enabled \in [1..registered -> BOOLEAN]
  BY EmptySeq DEF Register, dataSource, EventsInOrder, TypeOK, Pats
<1>2. \A i \in Pats' : enabled'[i]
  <2>1. Pats' = 1..(registered + 1)
    BY <1>1 DEF Pats
  <2>2. /\ \A i \in 1..registered : enabled'[i] = enabled[i]
        /\ enabled'[registered + 1] = TRUE
    <3>1. registered \in Nat /\ enabled \in [1..registered -> BOOLEAN] /\ TRUE \in BOOLEAN
      BY <1>1
    <3>2. \A i \in 1..registered : Append(enabled, TRUE)[i] = enabled[i]
      BY ONLY <3>1, AppendKeeps, Zenon
    <3>3. PICK x : x = TRUE
      OBVIOUS
    <3>4. Append(enabled, x)[registered + 1] = x
      BY ONLY <3>1, <3>3, AppendToFunction
    <3> QED BY <1>1, <3>2, <3>3, <3>4, Zenon
  <2>3. \A i \in 1..registered : enabled[i]
    BY DEF EventsInOrder, Pats
  <2>4. \A i \in 1..(registered + 1) : i \in 1..registered \/ i = registered + 1
    BY <1>1
  <2> QED BY <2>1, <2>2, <2>3, <2>4
<1>3. EventsInOrder'
  <2>1. DOMAIN graph' = {} /\ Pending' = {} /\ now \in Int
    BY <1>1, EmptySeq DEF Pending, EventsInOrder
  <2> QED BY <1>1, <1>2, <2>1 DEF EventsInOrder
<1>4. \A i, D, c, idx, ivs, B : ~Picture(i, D, c, idx, ivs, B)'
  BY <1>1 DEF Picture
<1> QED BY <1>3, <1>4 DEF AllPictured

\* Events are told in order
LEMMA NotifyInOrder ==
  ASSUME TypeOK, EventsInOrder, NEW n \in DOMAIN graph, NotifyNext(n)
  PROVE  EventsInOrder'
<1>1. /\ n \in Pending /\ (\A j \in Pending : n <= j)
      /\ UNCHANGED <<graph, now, registered, enabled>> /\ notified' = notified \cup {n}
  BY DEF NotifyNext, Notify
<1>2. Pending' = Pending \ {n}
  BY <1>1 DEF Pending
<1>3. Pending \subseteq Int /\ graph[n].label \in HeadLabels
  BY <1>1, LenProperties DEF TypeOK, Pending
<1>4. \A i \in Pending' : graph[i].interval.start = now /\ \A j \in notified' : j < i
  BY <1>1, <1>2, <1>3 DEF EventsInOrder
<1>5. \A i \in notified' : graph[i].label \in HeadLabels
  BY <1>1, <1>3 DEF EventsInOrder
<1> QED BY <1>1, <1>4, <1>5 DEF EventsInOrder, Pats

\* Whatever the caller does but drain, events stay in order and pictures
\* accounted for
LEMMA OrderedPictures ==
  ASSUME BlockLibrary, StepwiseLibrary, EventVocabulary, Inv, EventsInOrder,
         NEW given, AllPictured(given), [OrderedNext]_vars
  PROVE  EventsInOrder' /\ AllPictured(given)'
<1>1. TypeOK
  BY DEF Inv
<1>2. ASSUME NEW es \in Batches, InsertNext(es)
      PROVE  EventsInOrder' /\ AllPictured(given)'
  BY <1>1, <1>2, InsertInOrder, InsertPictures
<1>3. ASSUME NEW n \in DOMAIN graph, NotifyNext(n)
      PROVE  EventsInOrder' /\ AllPictured(given)'
  BY <1>1, <1>3, NotifyInOrder, NotifyPictures
<1>4. CASE Register
  BY <1>1, <1>4, RegisterPictures
<1>5. CASE UNCHANGED vars
  <2>1. UNCHANGED <<graph, now, notified, registered, enabled, pms>>
    BY <1>5 DEF vars, dataSource, matches
  <2>2. EventsInOrder'
    BY <2>1 DEF EventsInOrder, Pats, Pending
  <2>3. ASSUME NEW i, NEW D, NEW c, NEW idx, NEW ivs, NEW B, Picture(i, D, c, idx, ivs, B)'
        PROVE  (\E pm \in pms' : Shows(pm, i, D, c, ivs, B)) \/ HandedOver(given, i, D, c, ivs, B)'
    <3>1. Picture(i, D, c, idx, ivs, B)
      BY <2>1, <2>3 DEF Picture, Pats, Undisturbed
    <3>2. (\E pm \in pms : Shows(pm, i, D, c, ivs, B)) \/ HandedOver(given, i, D, c, ivs, B)
      BY <3>1 DEF AllPictured
    <3> QED BY <2>1, <3>2 DEF HandedOver
  <2> QED BY <2>2, <2>3 DEF AllPictured, Shows
<1> QED BY <1>2, <1>3, <1>4, <1>5 DEF OrderedNext

\* ... and if it drains, too
LEMMA PicturesKept ==
  ASSUME BlockLibrary, StepwiseLibrary, EventVocabulary, Inv, EventsInOrder, AllPictured(delivered),
         [ConsumerNext]_<<vars, delivered>>
  PROVE  EventsInOrder' /\ AllPictured(delivered)'
<1>1. CASE [OrderedNext]_vars /\ UNCHANGED delivered
  <2>1. PICK given : given = delivered
    OBVIOUS
  <2>2. EventsInOrder' /\ AllPictured(given)'
    BY <1>1, <2>1, OrderedPictures
  <2> QED BY <1>1, <2>1, <2>2 DEF AllPictured, HandedOver
<1>2. CASE DrainCompleted /\ delivered' = delivered \cup Drained
  <2>1. UNCHANGED <<graph, now, notified, registered, enabled>>
    BY <1>2 DEF DrainCompleted, dataSource
  <2>2. EventsInOrder'
    BY <2>1 DEF EventsInOrder, Pats, Pending
  <2> QED BY <1>2, <2>2, DrainPictures DEF Inv
<1> QED BY <1>1, <1>2 DEF ConsumerNext

\* At first there is nothing to picture
LEMMA InitPictures ==
  ASSUME Init, NEW given
  PROVE  EventsInOrder /\ AllPictured(given)
<1>1. now = 0 /\ graph = << >> /\ notified = {} /\ registered = 0
  BY DEF Init
<1>2. DOMAIN graph = {}
  BY <1>1, EmptySeq
<1>3. EventsInOrder
  BY <1>1, <1>2 DEF EventsInOrder, Pats, Pending
<1>4. \A i, D, c, idx, ivs, B : ~Picture(i, D, c, idx, ivs, B)
  BY <1>1 DEF Picture
<1> QED BY <1>3, <1>4 DEF AllPictured

-----------------------------------------------------------------------------
(* What batch evaluation finds is a picture *)

\* Whether an edge is found does not depend on what else is bound
LEMMA FitsClauseGrows ==
  ASSUME NEW g, NEW c, NEW at, NEW b, NEW m, Extends(m, b), c.source \in DOMAIN b,
         c.target.kind = "in" \/ (c.target.kind = "bind" /\ c.target.var \in DOMAIN b)
  PROVE  FitsClause(g, c, at, b) <=> FitsClause(g, c, at, m)
<1>1. m[c.source] = b[c.source]
  BY DEF Extends
<1>2. \A v : TargetAccepts(c.target, v, m) <=> TargetAccepts(c.target, v, b)
  BY DEF TargetAccepts, Resolvable, ConstraintAccepts, Extends
<1> QED BY <1>1, <1>2 DEF FitsClause

\* What AboutOneEvent says of a clause
LEMMA ClauseAboutEvent ==
  ASSUME NEW stage, AboutOneEvent(stage), NEW k \in 1..Len(stage.clauses)
  PROVE  LET c == stage.clauses[k]
         IN  /\ c.target.kind = "in" \/ (c.target.kind = "bind" /\ k # 1 /\ ~c.negated /\ c.target.var \in BoundBy(stage, k))
             /\ c.negated \in BOOLEAN
             /\ c.negated => k # 1 /\ c.source \in BoundBy(stage, k - 1)
             /\ ~c.negated => c.source = stage.anchor
<1>1. stage.clauses[k].target.kind = "bind" /\ ~stage.clauses[k].negated
        => stage.clauses[k].target.var \in BoundBy(stage, k)
  BY DEF BoundBy, Binds
<1> QED BY <1>1 DEF AboutOneEvent

\* ... nor whether an event is that of a stage
LEMMA FitsGrows ==
  ASSUME NEW g, NEW stage, AboutOneEvent(stage), Len(stage.clauses) \in Nat, NEW e,
         NEW b, NEW m, Extends(m, b), StageVars(stage) \subseteq DOMAIN b
  PROVE  Fits(g, stage, e, b) <=> Fits(g, stage, e, m)
<1>1. stage.anchor \in DOMAIN b
  BY DEF StageVars, BoundBy
<1>2. ASSUME NEW k \in 2..Len(stage.clauses)
      PROVE  FitsClause(g, stage.clauses[k], e.interval.start, b)
               <=> FitsClause(g, stage.clauses[k], e.interval.start, m)
  <2> DEFINE c == stage.clauses[k]
  <2>1. k \in 1..Len(stage.clauses) /\ k \in Int /\ k - 1 \in Int /\ k <= Len(stage.clauses)
        /\ k - 1 <= Len(stage.clauses) /\ Len(stage.clauses) \in Int
    OBVIOUS
  <2>2. BoundBy(stage, k) \subseteq DOMAIN b /\ BoundBy(stage, k - 1) \subseteq DOMAIN b
    BY <2>1, BoundByGrows DEF StageVars
  <2>3. /\ c.target.kind = "in" \/ (c.target.kind = "bind" /\ c.target.var \in BoundBy(stage, k))
        /\ c.source \in BoundBy(stage, k - 1) \/ c.source = stage.anchor
    BY <2>1, ClauseAboutEvent
  <2> HIDE DEF c
  <2>4. FitsClause(g, c, e.interval.start, b) <=> FitsClause(g, c, e.interval.start, m)
    BY <1>1, <2>2, <2>3, FitsClauseGrows
  <2> QED BY <2>4 DEF c
<1> QED BY <1>1, <1>2 DEF Fits, Extends

\* The maps after the first i clauses, from those after the first
Satisfied(g, stage, now0, b, h, i) ==
  IF i = 1 THEN {b} ELSE UNION {SatisfyClause(g, stage.clauses[i], m, now0) : m \in h[i - 1]}

\* What RestSatisfied returns: the maps after the last clause
LEMMA RestSteps ==
  ASSUME NEW g, NEW stage, NEW at, NEW b, Len(stage.clauses) \in Nat
  PROVE  \E h : /\ h = [i \in 1..Len(stage.clauses) |-> Satisfied(g, stage, at, b, h, i)]
                /\ RestSatisfied(g, stage, b, at) = h[Len(stage.clauses)]
<1> DEFINE n == Len(stage.clauses)
           F(h, i) == Satisfied(g, stage, at, b, h, i)
           S == {k \in Nat : \E h : h = [i \in 1..k |-> F(h, i)]}
           after == CHOOSE h : h = [i \in 1..n |-> F(h, i)]
<1> HIDE DEF after
<1>1. 0 \in S
  <2> DEFINE h == [i \in 1..0 |-> {b}]
  <2>1. h = [i \in 1..0 |-> F(h, i)]
    OBVIOUS
  <2> HIDE DEF h, F
  <2> QED BY <2>1
<1>2. ASSUME NEW k \in Nat, k \in S
      PROVE  k + 1 \in S
  <2>1. PICK h : h = [i \in 1..k |-> F(h, i)]
    BY <1>2
  <2> DEFINE h2 == [i \in 1..(k + 1) |-> IF i \in 1..k THEN h[i] ELSE F(h, k + 1)]
  <2>2. ASSUME NEW i \in 1..(k + 1)
        PROVE  h2[i] = F(h2, i)
    <3>1. i # 1 => i - 1 \in 1..k /\ h2[i - 1] = h[i - 1]
      OBVIOUS
    <3>2. h2[i] = F(h, i)
      <4> HIDE DEF F, S, n
      <4>1. i \in 1..k \/ i = k + 1
        OBVIOUS
      <4> QED BY <2>1, <4>1
    <3> HIDE DEF h2
    <3>3. F(h, i) = F(h2, i)
      BY <3>1 DEF Satisfied
    <3> QED BY <3>2, <3>3
  <2>3. h2 = [i \in 1..(k + 1) |-> F(h2, i)]
    <3> HIDE DEF F
    <3>1. h2 = [i \in 1..(k + 1) |-> h2[i]]
      OBVIOUS
    <3> HIDE DEF h2
    <3> QED BY <2>2, <3>1
  <2> HIDE DEF h2, F
  <2>4. k + 1 \in Nat
    OBVIOUS
  <2> QED BY <2>3, <2>4
<1>3. Nat \subseteq S
  <2> HIDE DEF S
  <2> QED BY <1>1, <1>2, Induction
<1>4. after = [i \in 1..n |-> F(after, i)]
  <2>1. n \in S
    BY <1>3
  <2> HIDE DEF F, n
  <2>2. \E h : h = [i \in 1..n |-> F(h, i)]
    BY <2>1
  <2> QED BY <2>2, Zenon DEF after
<1>5. RestSatisfied(g, stage, b, at) = after[n]
  BY Zenon DEF RestSatisfied, Satisfied, after
<1> QED BY <1>4, <1>5

\* The ways through the first s stages, from those through the stages before
Continued(g, p, at, h, s) ==
  IF s = 0 THEN {[bindings |-> NoBindings, intervals |-> NoBindings]}
  ELSE UNION {{[bindings  |-> new[1],
                intervals |-> Overlay(Single(p.stages[s].anchor, new[2]), m.intervals)]
               : new \in FindStageMatches(g, p.stages[s], m.bindings, at)}
              : m \in h[s - 1]}

\* What StageCascade returns: the ways through all stages
LEMMA CascadeSteps ==
  ASSUME NEW g, NEW p, NEW at, StageCount(p) \in Nat
  PROVE  \E h : /\ h = [s \in 0..StageCount(p) |-> Continued(g, p, at, h, s)]
                /\ StageCascade(g, p, at) = h[StageCount(p)]
<1> DEFINE n == StageCount(p)
           F(h, i) == Continued(g, p, at, h, i)
           S == {k \in Nat : \E h : h = [i \in 0..k |-> F(h, i)]}
           upTo == CHOOSE h : h = [i \in 0..n |-> F(h, i)]
<1> HIDE DEF upTo
<1>1. 0 \in S
  <2> DEFINE h == [i \in 0..0 |-> {[bindings |-> NoBindings, intervals |-> NoBindings]}]
  <2>1. h = [i \in 0..0 |-> F(h, i)]
    BY DEF Continued
  <2> HIDE DEF h, F
  <2> QED BY <2>1
<1>2. ASSUME NEW k \in Nat, k \in S
      PROVE  k + 1 \in S
  <2>1. PICK h : h = [i \in 0..k |-> F(h, i)]
    BY <1>2
  <2> DEFINE h2 == [i \in 0..(k + 1) |-> IF i \in 0..k THEN h[i] ELSE F(h, k + 1)]
  <2>2. ASSUME NEW i \in 0..(k + 1)
        PROVE  h2[i] = F(h2, i)
    <3>1. i # 0 => i - 1 \in 0..k /\ h2[i - 1] = h[i - 1]
      OBVIOUS
    <3>2. h2[i] = F(h, i)
      <4> HIDE DEF F, S, n
      <4>1. i \in 0..k \/ i = k + 1
        OBVIOUS
      <4> QED BY <2>1, <4>1
    <3> HIDE DEF h2
    <3>3. F(h, i) = F(h2, i)
      <4>1. i = 0 => F(h, i) = F(h2, i)
        BY DEF Continued
      <4>2. i # 0 => F(h, i) = F(h2, i)
        BY <3>1, Zenon DEF Continued
      <4> QED BY <4>1, <4>2
    <3> QED BY <3>2, <3>3
  <2>3. h2 = [i \in 0..(k + 1) |-> F(h2, i)]
    <3> HIDE DEF F
    <3>1. h2 = [i \in 0..(k + 1) |-> h2[i]]
      OBVIOUS
    <3> HIDE DEF h2
    <3> QED BY <2>2, <3>1
  <2> HIDE DEF h2, F
  <2>4. k + 1 \in Nat
    OBVIOUS
  <2> QED BY <2>3, <2>4
<1>3. Nat \subseteq S
  <2> HIDE DEF S
  <2> QED BY <1>1, <1>2, Induction
<1>4. upTo = [i \in 0..n |-> F(upTo, i)]
  <2>1. n \in S
    BY <1>3
  <2> HIDE DEF F, n
  <2>2. \E h : h = [i \in 0..n |-> F(h, i)]
    BY <2>1
  <2> QED BY <2>2, Zenon DEF upTo
<1>5. StageCascade(g, p, at) = upTo[n]
  BY Zenon DEF StageCascade, Continued, upTo
<1> QED BY <1>4, <1>5

\* A function, and nothing but a function
IsMap(m) == m = Within(m, DOMAIN m)

\* A clause satisfied leaves a map
LEMMA SatisfyMap ==
  ASSUME NEW g, NEW c, NEW d, NEW at, IsMap(d), NEW m \in SatisfyClause(g, c, d, at)
  PROVE  IsMap(m)
<1> DEFINE edges == EdgesFrom(g, d[c.source], c.label, at)
           new == BindNew(c.target, FirstOf(g, edges).target, d)
<1>1. m = d \/ m = new
  <2>1. m \in (IF ~BoundToNode(d, c.source) THEN {}
               ELSE IF (\E i \in edges : TargetAccepts(c.target, g[i].target, d)) = c.negated THEN {}
               ELSE {IF edges = {} THEN d ELSE new})
    BY Zenon DEF SatisfyClause
  <2> HIDE DEF edges, new
  <2> QED BY <2>1
<1>2. IsMap(new)
  <2> HIDE DEF edges
  <2>1. new = d \/ new = Overlay(Single(c.target.var, FirstOf(g, edges).target), d)
    BY DEF BindNew
  <2>2. \A x, y : IsMap(Overlay(x, y))
    BY DEF IsMap, Within, Overlay
  <2> QED BY <2>1, <2>2
<1> QED BY <1>1, <1>2

\* The map m has what the clause adds to d, as it was when the event n began
Fulfils(m, d, c, n) ==
  /\ Extends(m, d) /\ DOMAIN m = DOMAIN d \cup Binds(c)
  /\ FitsClause(graph, c, graph[n].interval.start, m)

\* A clause batch evaluation finds satisfied now was so when the event began
LEMMA SatisfyFits ==
  ASSUME EventVocabulary, TypeOK, EventsInOrder, NEW n \in DOMAIN graph, graph[n].label \in HeadLabels,
         NEW c, c.negated \in BOOLEAN,
         c.target.kind = "in" \/ (c.target.kind = "bind" /\ ~c.negated),
         NEW d, ~c.negated => d[c.source] = graph[n].source,
         NEW m \in SatisfyClause(graph, c, d, now)
  PROVE  Fulfils(m, d, c, n)
<1> DEFINE at == graph[n].interval.start
           edges == EdgesFrom(graph, d[c.source], c.label, now)
           then == EdgesFrom(graph, d[c.source], c.label, at)
           found == \E i \in edges : TargetAccepts(c.target, graph[i].target, d)
           new == BindNew(c.target, FirstOf(graph, edges).target, d)
<1>1. /\ BoundToNode(d, c.source) /\ (c.negated => ~found) /\ (~c.negated => found)
      /\ edges = {} => m = d
      /\ edges # {} => m = new
  <2> HIDE DEF found, edges, new
  <2>1. ~(~BoundToNode(d, c.source) \/ found = c.negated)
    BY Zenon DEF SatisfyClause, found, edges
  <2>2. m \in {IF edges = {} THEN d ELSE new}
    BY <2>1, Zenon DEF SatisfyClause, found, edges, new
  <2>3. c.negated = TRUE \/ c.negated = FALSE
    OBVIOUS
  <2>4. CASE c.negated = TRUE
    <3>1. BoundToNode(d, c.source) /\ ~found
      BY <2>1, <2>4, Zenon
    <3> QED BY <2>2, <2>4, <3>1
  <2>5. CASE c.negated = FALSE
    <3>1. BoundToNode(d, c.source) /\ found
      BY <2>1, <2>5, Zenon DEF found
    <3> QED BY <2>2, <2>5, <3>1
  <2> QED BY <2>3, <2>4, <2>5, Zenon
<1>2. at \in Int /\ at <= now /\ now \in Int /\ graph[n] \in Edge
  BY EdgesHold
<1>3. \A i \in DOMAIN graph :
        /\ \A t : Covers(graph[i].interval, t) <=> graph[i].interval.start <= t
        /\ graph[i].interval.start \in Int
  BY EdgesHold
<1>4. then \subseteq edges
  BY <1>2, <1>3 DEF EdgesFrom
<1>5. ~c.negated => \A i \in edges : i \in then
  <2> SUFFICES ASSUME ~c.negated, NEW i \in edges
               PROVE  i \in then
    OBVIOUS
  <2>1. i \in DOMAIN graph /\ graph[i].source = graph[n].source
    BY DEF EdgesFrom
  <2>2. graph[i].interval.start = at
    BY <2>1, EdgesOfEvent
  <2> QED BY <1>2, <1>3, <2>1, <2>2 DEF EdgesFrom
<1>6. CASE c.target.kind = "in"
  <2>1. m = d /\ Binds(c) = {}
    BY <1>1, <1>6 DEF BindNew, Binds
  <2>2. d[c.source] \in Nodes
    BY <1>1 DEF BoundToNode
  <2>3. FitsClause(graph, c, at, d)
    <3> DEFINE hits == {j \in then : TargetAccepts(c.target, graph[j].target, d)}
    <3>1. IF c.negated THEN hits = {} ELSE hits # {}
      BY <1>1, <1>4, <1>5
    <3> QED BY <2>2, <3>1 DEF FitsClause
  <2> QED BY <2>1, <2>3 DEF Extends, Fulfils
<1>7. CASE c.target.kind = "bind" /\ ~c.negated
  <2> DEFINE x == c.target.var
  <2>1. edges # {} /\ m = new /\ Binds(c) = {x}
    BY <1>1, <1>7 DEF Binds
  <2>2. PICK i \in edges : FirstOf(graph, edges) = graph[i]
    <3>1. edges \in SUBSET Nat
      BY LenProperties DEF EdgesFrom, TypeOK
    <3> HIDE DEF edges
    <3>2. \E i \in edges : \A j \in edges : i <= j
      BY <2>1, <3>1, LeastNatural
    <3> QED BY <3>2, Zenon DEF FirstOf
  <2>3. Extends(m, d) /\ x \in DOMAIN m /\ DOMAIN m = DOMAIN d \cup {x}
        /\ (x \notin DOMAIN d => m[x] = graph[i].target)
    <3> HIDE DEF edges, then
    <3>1. m = BindNew(c.target, graph[i].target, d)
      BY <2>1, <2>2
    <3>2. /\ Extends(m, d) /\ x \in DOMAIN m
          /\ x \notin DOMAIN d => m[x] = graph[i].target
          /\ \A y \in DOMAIN m : y \in DOMAIN d \/ y = x
      BY <1>7, <3>1, BindNewExtends
    <3>3. DOMAIN d \subseteq DOMAIN m
      BY <3>2 DEF Extends
    <3> QED BY <3>2, <3>3
  <2>4. m[c.source] = d[c.source] /\ m[c.source] \in Nodes
    BY <1>1, <2>3 DEF BoundToNode, Extends
  <2>5. \E j \in then : TargetAccepts(c.target, graph[j].target, m)
    <3>1. CASE x \in DOMAIN d
      <4>1. PICK j \in edges : TargetAccepts(c.target, graph[j].target, d)
        BY <1>1, <1>7
      <4>2. m[x] = d[x]
        BY <2>3, <3>1 DEF Extends
      <4>3. TargetAccepts(c.target, graph[j].target, m)
        BY <1>7, <3>1, <4>1, <4>2 DEF TargetAccepts, Resolvable, ConstraintAccepts
      <4> QED BY <1>5, <1>7, <4>1, <4>3
    <3>2. CASE x \notin DOMAIN d
      <4>1. TargetAccepts(c.target, graph[i].target, m)
        BY <1>7, <2>3, <3>2 DEF TargetAccepts, Resolvable, ConstraintAccepts
      <4> QED BY <1>5, <1>7, <2>2, <4>1
    <3> QED BY <3>1, <3>2
  <2>6. FitsClause(graph, c, at, m)
    BY <1>7, <2>4, <2>5 DEF FitsClause
  <2> QED BY <2>1, <2>3, <2>6 DEF Fulfils
<1> QED BY <1>6, <1>7

\* The rest of the stage, once its anchor is bound to the event
LEMMA RestFound ==
  ASSUME EventVocabulary, TypeOK, EventsInOrder, NEW n \in DOMAIN graph, graph[n].label \in HeadLabels,
         NEW stage, NEW T, stage.clauses \in Seq(T), AboutOneEvent(stage),
         NEW b, stage.anchor \in DOMAIN b, b[stage.anchor] = graph[n].source, IsMap(b),
         NEW m \in RestSatisfied(graph, stage, b, now)
  PROVE  /\ IsMap(m) /\ Extends(m, b) /\ DOMAIN m = DOMAIN b \cup StageVars(stage)
         /\ \A k \in 2..Len(stage.clauses) :
              FitsClause(graph, stage.clauses[k], graph[n].interval.start, m)
<1> DEFINE len == Len(stage.clauses)
           at == graph[n].interval.start
           Met(d, k) == /\ IsMap(d) /\ Extends(d, b) /\ DOMAIN d = DOMAIN b \cup BoundBy(stage, k)
                        /\ \A j \in 2..k : FitsClause(graph, stage.clauses[j], at, d)
<1>0. len \in Nat /\ len # 0
  BY EmptySeq, LenProperties DEF AboutOneEvent
<1>1. PICK h : /\ h = [i \in 1..len |-> Satisfied(graph, stage, now, b, h, i)]
               /\ RestSatisfied(graph, stage, b, now) = h[len]
  BY <1>0, RestSteps
<1>2. \A i \in 1..len : h[i] = Satisfied(graph, stage, now, b, h, i)
  BY <1>1
<1> HIDE DEF Met
<1> DEFINE S == {k \in Nat : k + 1 \in 1..len => \A d \in h[k + 1] : Met(d, k + 1)}
<1>3. 0 \in S
  <2> SUFFICES ASSUME 1 \in 1..len, NEW d \in h[1]
               PROVE  Met(d, 1)
    OBVIOUS
  <2>1. d = b
    BY <1>2 DEF Satisfied
  <2>2. Binds(stage.clauses[1]) = {}
    BY <1>0 DEF AboutOneEvent, Binds
  <2>3. BoundBy(stage, 1) = {stage.anchor}
    <3>1. BoundBy(stage, 1) = {stage.anchor} \cup Binds(stage.clauses[1])
      BY DEF BoundBy
    <3> QED BY <2>2, <3>1
  <2>4. DOMAIN d = DOMAIN b \cup BoundBy(stage, 1)
    BY <2>1, <2>3
  <2> QED BY <2>1, <2>4 DEF Extends, Met
<1>4. ASSUME NEW k \in Nat, k \in S
      PROVE  k + 1 \in S
  <2> SUFFICES ASSUME k + 1 + 1 \in 1..len, NEW d \in h[k + 1 + 1]
               PROVE  Met(d, k + 1 + 1)
    OBVIOUS
  <2> DEFINE i == k + 1 + 1
             c == stage.clauses[i]
  <2>1. i \in 1..len /\ i # 1 /\ i - 1 = k + 1 /\ k + 1 \in 1..len /\ k + 1 \in Nat
        /\ \A j \in 2..i : j \in 2..(k + 1) \/ j = i
    OBVIOUS
  <2> HIDE DEF i
  <2>2. h[i] = UNION {SatisfyClause(graph, c, f, now) : f \in h[k + 1]}
    <3>1. h[i] = UNION {SatisfyClause(graph, stage.clauses[i], f, now) : f \in h[i - 1]}
      BY <1>2, <2>1 DEF Satisfied
    <3> QED BY <2>1, <3>1
  <2>3. PICK f \in h[k + 1] : d \in SatisfyClause(graph, c, f, now)
    <3> HIDE DEF c
    <3>1. d \in h[i]
      BY DEF i
    <3> QED BY <2>2, <3>1
  <2>4. Met(f, k + 1)
    BY <1>4, <2>1
  <2>5. /\ c.target.kind = "in" \/ (c.target.kind = "bind" /\ ~c.negated)
        /\ c.negated \in BOOLEAN /\ (~c.negated => c.source = stage.anchor)
    BY <2>1, ClauseAboutEvent
  <2>6. f[stage.anchor] = graph[n].source
    BY <2>4 DEF Extends, Met
  <2>7. /\ Extends(d, f) /\ DOMAIN d = DOMAIN f \cup Binds(c)
        /\ FitsClause(graph, c, at, d)
    <3>1. ~c.negated => f[c.source] = graph[n].source
      BY <2>5, <2>6
    <3> HIDE DEF c, S
    <3>2. Fulfils(d, f, c, n)
      BY <2>3, <2>5, <3>1, SatisfyFits
    <3> QED BY <3>2 DEF Fulfils
  <2>8. BoundBy(stage, i) = BoundBy(stage, k + 1) \cup Binds(c)
    <3>1. BoundBy(stage, k + 1 + 1) = BoundBy(stage, k + 1) \cup Binds(stage.clauses[k + 1 + 1])
      BY <2>1, BoundByNext
    <3> QED BY <3>1 DEF i
  <2>12. IsMap(d)
    <3> HIDE DEF c, S
    <3>1. IsMap(f)
      BY <2>4 DEF Met
    <3> QED BY <2>3, <3>1, SatisfyMap
  <2>9. Extends(d, b) /\ DOMAIN d = DOMAIN b \cup BoundBy(stage, i)
    BY <2>4, <2>7, <2>8 DEF Extends, Met
  <2>10. ASSUME NEW j \in 2..i
         PROVE  FitsClause(graph, stage.clauses[j], at, d)
    <3>1. CASE j = i
      BY <2>7, <3>1
    <3>2. CASE j \in 2..(k + 1)
      <4> DEFINE x == stage.clauses[j]
      <4>1. FitsClause(graph, x, at, f)
        BY <2>4, <3>2 DEF Met
      <4>2. /\ j \in 1..len /\ j \in Int /\ j - 1 \in Int /\ k + 1 \in Int
            /\ j <= k + 1 /\ j - 1 <= k + 1
        BY <1>0, <2>1, <3>2
      <4>3. BoundBy(stage, j) \subseteq BoundBy(stage, k + 1) /\ BoundBy(stage, j - 1) \subseteq BoundBy(stage, k + 1)
        BY <4>2, BoundByGrows
      <4>4. /\ x.target.kind = "in" \/ (x.target.kind = "bind" /\ x.target.var \in BoundBy(stage, j))
            /\ x.source \in BoundBy(stage, j - 1) \/ x.source = stage.anchor
        BY <4>2, ClauseAboutEvent
      <4>5. /\ x.target.kind = "in" \/ (x.target.kind = "bind" /\ x.target.var \in DOMAIN f)
            /\ x.source \in DOMAIN f
        BY <2>4, <4>3, <4>4 DEF Met
      <4> HIDE DEF x, c, S
      <4>6. FitsClause(graph, x, at, d)
        BY <2>7, <4>1, <4>5, FitsClauseGrows
      <4> QED BY <4>6 DEF x
    <3> QED BY <2>1, <3>1, <3>2
  <2>11. Met(d, i)
    BY <2>9, <2>10, <2>12 DEF Met
  <2> QED BY <2>11 DEF i
<1>5. Nat \subseteq S
  <2> HIDE DEF S
  <2> QED BY <1>3, <1>4, Induction
<1>6. len - 1 \in Nat /\ len - 1 + 1 = len /\ len \in 1..len
  BY <1>0
<1>7. \A d \in h[len] : Met(d, len)
  <2>1. len - 1 \in S
    BY <1>5, <1>6
  <2> QED BY <1>6, <2>1
<1>8. Met(m, len)
  BY <1>1, <1>7
<1> QED BY <1>8 DEF StageVars, Met

\* A stage whose event is told, and which is about that event alone
SearchableStage(stage) ==
  /\ AboutOneEvent(stage) /\ stage.clauses[1].label \in HeadLabels
  /\ stage.clauses \in Seq({stage.clauses[k] : k \in DOMAIN stage.clauses})

\* The stages of a pattern have anchors of their own, and come in blocks
Blocks(p) ==
  /\ StageCount(p) \in Nat
  /\ \A s, t \in 1..StageCount(p) : p.stages[s].anchor = p.stages[t].anchor => s = t
  /\ \A s \in 1..StageCount(p) : \E lo \in 1..s, hi \in s..StageCount(p) :
       \A t \in lo..hi : Segment(p, t) = lo..hi

\* Patterns batch evaluation searches an event at a time
Searchable(p) == Blocks(p) /\ \A s \in 1..StageCount(p) : SearchableStage(p.stages[s])

\* Patterns of consecutive blocks are such
LEMMA BuiltBlocks ==
  ASSUME NEW p, StageCount(p) \in Nat, BuiltPattern(p), BlockPattern(p)
  PROVE  Blocks(p)
<1> DEFINE N == StageCount(p)
<1>1. \A s \in 1..N : SegmentStart(p, s) \in 1..s /\ SegmentEnd(p, s) \in (s + 1)..(N + 1)
                     /\ Segment(p, s) \subseteq 1..N
  BY DEF BuiltPattern
<1>2. ASSUME NEW s \in 1..N
      PROVE  \E lo \in 1..s, hi \in s..N : \A t \in lo..hi : Segment(p, t) = lo..hi
  <2> DEFINE lo == SegmentStart(p, s)
             hi == SegmentEnd(p, s) - 1
  <2>1. lo \in 1..s /\ hi \in s..N /\ Segment(p, s) \subseteq 1..N
    BY <1>1
  <2>2. \A t \in 1..N : t \in Segment(p, s) <=> lo <= t /\ t < SegmentEnd(p, s)
    BY DEF BlockPattern
  <2>3. \A t : t \in Segment(p, s) <=> t \in lo..hi
    BY <1>1, <2>1, <2>2
  <2>4. \A t \in 1..N : t \in Segment(p, s) => Segment(p, t) = Segment(p, s)
    BY Zenon DEF BlockPattern
  <2> HIDE DEF lo, hi
  <2>5. Segment(p, s) = lo..hi
    BY <2>3
  <2>6. \A t \in lo..hi : t \in 1..N
    BY <2>1
  <2>7. \A t \in lo..hi : Segment(p, t) = lo..hi
    BY <2>4, <2>5, <2>6
  <2> QED BY <2>1, <2>7
<1> QED BY <1>2 DEF Blocks, BlockPattern

\* The patterns of the library are
LEMMA LibrarySearchable ==
  ASSUME BlockLibrary, StepwiseLibrary, NEW i \in DOMAIN Library
  PROVE  Searchable(Library[i])
<1> DEFINE p == Library[i]
<1>1. StageCount(p) \in Nat
  BY StageFacts
<1>2. Blocks(p)
  BY <1>1, LibraryAssumption, BuiltBlocks DEF LibraryAssumption, BlockLibrary
<1>3. ASSUME NEW s \in 1..StageCount(p)
      PROVE  SearchableStage(p.stages[s])
  <2> DEFINE stage == p.stages[s]
             T == {stage.clauses[k] : k \in DOMAIN stage.clauses}
  <2>1. AboutOneEvent(stage)
    BY DEF StepwiseLibrary, StepwisePattern
  <2>2. stage.clauses \in Seq(T)
    BY ClauseFacts
  <2>3. stage.clauses[1].label \in HeadLabels
    BY DEF HeadLabels, StageLabels
  <2> QED BY <2>1, <2>2, <2>3 DEF SearchableStage
<1> QED BY <1>2, <1>3 DEF Searchable

\* What batch evaluation finds for a stage is an event of the stage
LEMMA StageFound ==
  ASSUME EventVocabulary, TypeOK, EventsInOrder, NEW stage, SearchableStage(stage), NEW b,
         NEW new \in FindStageMatches(graph, stage, b, now)
  PROVE  /\ IsMap(new[1]) /\ Extends(new[1], b) /\ DOMAIN new[1] = DOMAIN b \cup StageVars(stage)
         /\ \E n \in DOMAIN graph : /\ graph[n].label \in HeadLabels /\ new[2] = graph[n].interval
                                    /\ Fits(graph, stage, graph[n], new[1])
<1> DEFINE c == stage.clauses[1]
           a == stage.anchor
<1>1. AboutOneEvent(stage)
  BY DEF SearchableStage
<1>2. PICK T : stage.clauses \in Seq(T)
  BY DEF SearchableStage
<1>3. stage.clauses # << >> /\ 1 \in 1..Len(stage.clauses)
  BY <1>1, <1>2, EmptySeq, LenProperties DEF AboutOneEvent
<1>4. c.target.kind = "in" /\ c.source = a
  BY <1>1, <1>3 DEF AboutOneEvent
<1>5. c.label \in HeadLabels
  BY DEF SearchableStage
<1>6. PICK first \in FirstCandidates(graph, stage, b, now) :
        \E m \in RestSatisfied(graph, stage, Overlay(first[1], b), now) : new = <<m, first[2]>>
  <2>1. new \in FindStageMatches(graph, stage, b, now)
    OBVIOUS
  <2> QED BY <1>3, <2>1, Zenon DEF FindStageMatches
<1>7. PICK m \in RestSatisfied(graph, stage, Overlay(first[1], b), now) : new = <<m, first[2]>>
  BY <1>6
<1> HIDE DEF c, a
<1>8. PICK e \in Scan(graph, c.label, now) :
        /\ first[2] = e.interval /\ e.target \in c.target.vals
        /\ Extends(Overlay(first[1], b), b) /\ DOMAIN Overlay(first[1], b) = DOMAIN b \cup {a}
        /\ Overlay(first[1], b)[a] = e.source
  <2>1. CASE a \in DOMAIN b
    <3>1. first \in {<<BindNew(c.target, e.target, NoBindings), e.interval>> :
              e \in {x \in Scan(graph, c.label, now) :
                       /\ BoundToNode(b, c.source) /\ x.source = b[c.source]
                       /\ TargetAccepts(c.target, x.target, b)}}
      BY <1>4, <1>6, <2>1 DEF FirstCandidates, Resolvable, c
    <3>2. PICK e \in Scan(graph, c.label, now) :
            /\ first = <<BindNew(c.target, e.target, NoBindings), e.interval>>
            /\ e.source = b[a] /\ TargetAccepts(c.target, e.target, b)
      BY <1>4, <3>1
    <3>3. first[1] = NoBindings /\ first[2] = e.interval
      BY <1>4, <3>2 DEF BindNew
    <3>4. e.target \in c.target.vals
      BY <1>4, <3>2 DEF TargetAccepts, ConstraintAccepts
    <3>5. DOMAIN Overlay(first[1], b) = DOMAIN b /\ \A x \in DOMAIN b : Overlay(first[1], b)[x] = b[x]
      BY <3>3 DEF Overlay, NoBindings
    <3> QED BY <2>1, <3>2, <3>3, <3>4, <3>5 DEF Extends
  <2>2. CASE a \notin DOMAIN b
    <3>1. first \in {<<BindNew(c.target, e.target, [x \in {c.source, a} |-> e.source]), e.interval>> :
              e \in {x \in Scan(graph, c.label, now) :
                       /\ ConstraintAccepts(c.target, x.target, b)
                       /\ c.target.kind = "bind" /\ c.target.var \in {c.source, a}
                            => x.target = x.source}}
      BY <1>4, <1>6, <2>2 DEF FirstCandidates, Resolvable, c, a
    <3>2. PICK e \in Scan(graph, c.label, now) :
            /\ first = <<BindNew(c.target, e.target, [x \in {c.source, a} |-> e.source]), e.interval>>
            /\ ConstraintAccepts(c.target, e.target, b)
      BY <3>1
    <3>3. first[1] = [x \in {a} |-> e.source] /\ first[2] = e.interval
      BY <1>4, <3>2 DEF BindNew
    <3>4. e.target \in c.target.vals
      BY <1>4, <3>2 DEF ConstraintAccepts
    <3>5. /\ DOMAIN Overlay(first[1], b) = {a} \cup DOMAIN b
          /\ \A x \in {a} \cup DOMAIN b : Overlay(first[1], b)[x] = IF x = a THEN e.source ELSE b[x]
      BY <3>3 DEF Overlay
    <3> QED BY <2>2, <3>3, <3>4, <3>5 DEF Extends
  <2> QED BY <2>1, <2>2
<1>9. PICK n \in DOMAIN graph : e = graph[n]
  BY DEF Scan
<1>10. e.label = c.label
  BY DEF Scan
<1> DEFINE b1 == Overlay(first[1], b)
<1>11. Extends(b1, b) /\ DOMAIN b1 = DOMAIN b \cup {a} /\ b1[a] = graph[n].source /\ a \in DOMAIN b1
  BY <1>8, <1>9
<1>12. m \in RestSatisfied(graph, stage, b1, now)
  OBVIOUS
<1>18. IsMap(b1)
  BY DEF IsMap, Within, Overlay
<1> HIDE DEF b1
<1>13. /\ IsMap(m) /\ Extends(m, b1) /\ DOMAIN m = DOMAIN b1 \cup StageVars(stage)
       /\ \A k \in 2..Len(stage.clauses) :
            FitsClause(graph, stage.clauses[k], graph[n].interval.start, m)
  <2>1. graph[n].label \in HeadLabels
    BY <1>5, <1>9, <1>10
  <2>2. stage.anchor \in DOMAIN b1 /\ b1[stage.anchor] = graph[n].source
    BY <1>11 DEF a
  <2> QED BY <1>1, <1>2, <1>12, <1>18, <2>1, <2>2, RestFound
<1>14. a \in StageVars(stage)
  BY DEF StageVars, BoundBy, a
<1>15. IsMap(m) /\ Extends(m, b) /\ DOMAIN m = DOMAIN b \cup StageVars(stage)
  BY <1>11, <1>13, <1>14 DEF Extends
<1>16. Fits(graph, stage, graph[n], m)
  <2>1. CouldBe(stage.clauses[1], graph[n])
    BY <1>4, <1>8, <1>9, <1>10 DEF CouldBe, c
  <2>2. m[stage.anchor] = graph[n].source
    BY <1>11, <1>13 DEF Extends, a
  <2> QED BY <1>13, <2>1, <2>2 DEF Fits
<1>17. new[1] = m /\ new[2] = graph[n].interval /\ graph[n].label \in HeadLabels
  BY <1>5, <1>7, <1>8, <1>9, <1>10
<1> QED BY <1>15, <1>16, <1>17

\* A way m through the first s stages of pattern p takes an event at each
Taken(p, s, m) ==
  /\ IsMap(m.bindings) /\ DOMAIN m.bindings = VarsOf(p, 1..s)
  /\ m.intervals = [x \in AnchorsOf(p, 1..s) |-> m.intervals[x]]
  /\ \E idx : \A t \in 1..s :
       /\ idx[t] \in DOMAIN graph /\ graph[idx[t]].label \in HeadLabels
       /\ Fits(graph, p.stages[t], graph[idx[t]], m.bindings)
       /\ m.intervals[p.stages[t].anchor] = graph[idx[t]].interval

\* One more stage takes one more event
LEMMA TakenOn ==
  ASSUME EventVocabulary, TypeOK, EventsInOrder, NEW p, Searchable(p),
         NEW s \in Nat, s + 1 \in 1..StageCount(p), NEW m, Taken(p, s, m),
         NEW new \in FindStageMatches(graph, p.stages[s + 1], m.bindings, now)
  PROVE  Taken(p, s + 1,
               [bindings  |-> new[1],
                intervals |-> Overlay(Single(p.stages[s + 1].anchor, new[2]), m.intervals)])
<1> DEFINE stage == p.stages[s + 1]
           a == stage.anchor
           ivs == Overlay(Single(a, new[2]), m.intervals)
           m2 == [bindings |-> new[1], intervals |-> ivs]
<1>1. /\ IsMap(new[1]) /\ Extends(new[1], m.bindings) /\ DOMAIN new[1] = DOMAIN m.bindings \cup StageVars(stage)
      /\ \E n \in DOMAIN graph : /\ graph[n].label \in HeadLabels /\ new[2] = graph[n].interval
                                 /\ Fits(graph, stage, graph[n], new[1])
  BY StageFound DEF Searchable
<1>2. PICK n \in DOMAIN graph : /\ graph[n].label \in HeadLabels /\ new[2] = graph[n].interval
                                /\ Fits(graph, stage, graph[n], new[1])
  BY <1>1
<1>3. PICK idx : \A t \in 1..s :
           /\ idx[t] \in DOMAIN graph /\ graph[idx[t]].label \in HeadLabels
           /\ Fits(graph, p.stages[t], graph[idx[t]], m.bindings)
           /\ m.intervals[p.stages[t].anchor] = graph[idx[t]].interval
  BY DEF Taken
<1>4. /\ DOMAIN m.bindings = VarsOf(p, 1..s) /\ DOMAIN m.intervals = AnchorsOf(p, 1..s)
  BY DEF Taken
<1>5. 1..(s + 1) = 1..s \cup {s + 1}
  OBVIOUS
<1>6. DOMAIN new[1] = VarsOf(p, 1..(s + 1))
  <2>1. VarsOf(p, 1..(s + 1)) = VarsOf(p, 1..s) \cup StageVars(stage)
    BY <1>5 DEF VarsOf
  <2> QED BY <1>1, <1>4, <2>1
<1>7. /\ DOMAIN ivs = AnchorsOf(p, 1..(s + 1)) /\ ivs[a] = new[2]
      /\ \A x \in AnchorsOf(p, 1..s) : x # a => ivs[x] = m.intervals[x]
      /\ ivs = [x \in AnchorsOf(p, 1..(s + 1)) |-> ivs[x]]
  <2>1. AnchorsOf(p, 1..(s + 1)) = {a} \cup AnchorsOf(p, 1..s)
    BY <1>5 DEF AnchorsOf
  <2> HIDE DEF a
  <2> QED BY <1>4, <2>1 DEF Overlay, Single
<1> DEFINE idx2 == [t \in 1..(s + 1) |-> IF t = s + 1 THEN n ELSE idx[t]]
<1>8. ASSUME NEW t \in 1..(s + 1)
      PROVE  /\ idx2[t] \in DOMAIN graph /\ graph[idx2[t]].label \in HeadLabels
             /\ Fits(graph, p.stages[t], graph[idx2[t]], new[1])
             /\ ivs[p.stages[t].anchor] = graph[idx2[t]].interval
  <2> HIDE DEF ivs
  <2>1. CASE t = s + 1
    BY <1>2, <1>7, <2>1
  <2>2. CASE t # s + 1
    <3>1. t \in 1..s /\ t \in 1..StageCount(p) /\ idx2[t] = idx[t]
      <4>1. StageCount(p) \in Nat
        BY DEF Searchable, Blocks
      <4> QED BY <2>2, <4>1
    <3>2. p.stages[t].anchor # a /\ p.stages[t].anchor \in AnchorsOf(p, 1..s)
      BY <2>2, <3>1 DEF Searchable, Blocks, AnchorsOf
    <3>3. /\ idx[t] \in DOMAIN graph /\ graph[idx[t]].label \in HeadLabels
          /\ Fits(graph, p.stages[t], graph[idx[t]], m.bindings)
          /\ m.intervals[p.stages[t].anchor] = graph[idx[t]].interval
      BY <1>3, <3>1
    <3>4. AboutOneEvent(p.stages[t]) /\ Len(p.stages[t].clauses) \in Nat
      <4>1. AboutOneEvent(p.stages[t])
        BY <3>1 DEF Searchable, SearchableStage
      <4>2. PICK T : p.stages[t].clauses \in Seq(T)
        BY <3>1 DEF Searchable, SearchableStage
      <4> QED BY <4>1, <4>2, LenProperties
    <3>5. StageVars(p.stages[t]) \subseteq DOMAIN m.bindings
      BY <1>4, <3>1 DEF VarsOf
    <3>6. Fits(graph, p.stages[t], graph[idx[t]], new[1])
      <4> DEFINE st == p.stages[t]
      <4> HIDE DEF st, idx2
      <4>1. Fits(graph, st, graph[idx[t]], m.bindings) /\ AboutOneEvent(st) /\ Len(st.clauses) \in Nat
            /\ StageVars(st) \subseteq DOMAIN m.bindings
        BY <3>3, <3>4, <3>5 DEF st
      <4>2. Fits(graph, st, graph[idx[t]], new[1])
        BY <1>1, <4>1, FitsGrows
      <4> QED BY <4>2 DEF st
    <3>7. ivs[p.stages[t].anchor] = graph[idx[t]].interval
      BY <1>7, <3>2, <3>3
    <3> HIDE DEF idx2
    <3> QED BY <3>1, <3>3, <3>6, <3>7
  <2> QED BY <2>1, <2>2
<1>9. m2.bindings = new[1] /\ m2.intervals = ivs
  OBVIOUS
<1> HIDE DEF m2, ivs, idx2, stage
<1>10. Taken(p, s + 1, m2)
  BY <1>1, <1>6, <1>7, <1>8, <1>9 DEF Taken
<1> QED BY <1>10 DEF m2, ivs, stage

\* Every way batch evaluation goes takes an event at each stage
LEMMA CascadeTaken ==
  ASSUME EventVocabulary, TypeOK, EventsInOrder, NEW p, Searchable(p),
         NEW m \in StageCascade(graph, p, now)
  PROVE  Taken(p, StageCount(p), m)
<1> DEFINE n == StageCount(p)
<1>0. n \in Nat
  BY DEF Searchable, Blocks
<1>1. PICK h : /\ h = [s \in 0..n |-> Continued(graph, p, now, h, s)]
               /\ StageCascade(graph, p, now) = h[n]
  BY <1>0, CascadeSteps
<1>2. \A s \in 0..n : h[s] = Continued(graph, p, now, h, s)
  BY <1>1
<1> DEFINE S == {s \in Nat : s \in 0..n => \A d \in h[s] : Taken(p, s, d)}
<1>3. 0 \in S
  <2> SUFFICES ASSUME NEW d \in h[0]
               PROVE  Taken(p, 0, d)
    OBVIOUS
  <2>1. d = [bindings |-> NoBindings, intervals |-> NoBindings]
    <3>1. 0 \in 0..n
      BY <1>0
    <3>2. d \in Continued(graph, p, now, h, 0)
      BY <1>2, <3>1
    <3>3. Continued(graph, p, now, h, 0) = {[bindings |-> NoBindings, intervals |-> NoBindings]}
      BY Zenon DEF Continued
    <3> QED BY ONLY <3>2, <3>3
  <2>2. d.bindings = NoBindings /\ d.intervals = NoBindings
    BY <2>1
  <2>3. 1..0 = {}
    OBVIOUS
  <2>4. VarsOf(p, 1..0) = {} /\ AnchorsOf(p, 1..0) = {}
    BY <2>3 DEF VarsOf, AnchorsOf
  <2>5. d.intervals = [x \in AnchorsOf(p, 1..0) |-> d.intervals[x]] /\ DOMAIN d.bindings = VarsOf(p, 1..0)
    BY <2>2, <2>4 DEF NoBindings
  <2>6. IsMap(d.bindings)
    BY <2>2 DEF IsMap, Within, NoBindings
  <2> QED BY <2>3, <2>5, <2>6 DEF Taken
<1>4. ASSUME NEW s \in Nat, s \in S
      PROVE  s + 1 \in S
  <2> SUFFICES ASSUME s + 1 \in 0..n, NEW d \in h[s + 1]
               PROVE  Taken(p, s + 1, d)
    OBVIOUS
  <2>1. s + 1 \in 1..n /\ s \in 0..n
    BY <1>0
  <2>2. PICK f \in h[s] : \E new \in FindStageMatches(graph, p.stages[s + 1], f.bindings, now) :
          d = [bindings  |-> new[1],
               intervals |-> Overlay(Single(p.stages[s + 1].anchor, new[2]), f.intervals)]
    <3> DEFINE t == s + 1
    <3>1. t \in 0..n /\ t # 0 /\ t - 1 = s
      OBVIOUS
    <3> HIDE DEF t
    <3>2. d \in Continued(graph, p, now, h, t)
      BY <1>2, <3>1 DEF t
    <3>3. \E f \in h[t - 1] : \E new \in FindStageMatches(graph, p.stages[t], f.bindings, now) :
            d = [bindings  |-> new[1],
                 intervals |-> Overlay(Single(p.stages[t].anchor, new[2]), f.intervals)]
      BY <3>1, <3>2, Zenon DEF Continued
    <3> QED BY <3>1, <3>3 DEF t
  <2>3. Taken(p, s, f)
    BY <1>4, <2>1
  <2>4. PICK new \in FindStageMatches(graph, p.stages[s + 1], f.bindings, now) :
          d = [bindings  |-> new[1],
               intervals |-> Overlay(Single(p.stages[s + 1].anchor, new[2]), f.intervals)]
    BY <2>2
  <2> HIDE DEF S
  <2> QED BY <2>1, <2>3, <2>4, TakenOn
<1>5. Nat \subseteq S
  <2> HIDE DEF S
  <2> QED BY <1>3, <1>4, Induction
<1>6. n \in S /\ n \in 0..n /\ m \in h[n]
  BY <1>0, <1>1, <1>5
<1> QED BY <1>6

\* The segment of a stage is the block it lies in
LEMMA BlockOf ==
  ASSUME NEW p, Blocks(p), NEW s \in 1..StageCount(p)
  PROVE  \E lo \in 1..s, hi \in s..StageCount(p) :
           /\ Segment(p, s) = lo..hi /\ \A t \in lo..hi : Segment(p, t) = lo..hi
<1>1. PICK lo \in 1..s, hi \in s..StageCount(p) : \A t \in lo..hi : Segment(p, t) = lo..hi
  BY DEF Blocks
<1>2. s \in lo..hi
  BY DEF Blocks
<1> QED BY <1>1, <1>2

\* Where each segment starts before the next, earlier segments start earlier
LEMMA StartsOrdered ==
  ASSUME NEW p, Blocks(p), NEW ivs,
         \A x \in AnchorsOf(p, 1..StageCount(p)) : x \in DOMAIN ivs /\ ivs[x].start \in Int,
         StagesOrdered(p, ivs),
         NEW s \in 1..StageCount(p), NEW t \in 1..StageCount(p),
         s < t, ~SameGroup(p, s, t)
  PROVE  ivs[p.stages[s].anchor].start < ivs[p.stages[t].anchor].start
<1> DEFINE N == StageCount(p)
           T(k) == ivs[p.stages[k].anchor].start
           S == {k \in Nat : \A u \in 1..N : u <= k /\ s < u /\ u \notin Segment(p, s) => T(s) < T(u)}
<1>0. N \in Nat
  BY DEF Blocks
<1>1. \A k \in 1..N : p.stages[k].anchor \in DOMAIN ivs /\ T(k) \in Int
  BY DEF AnchorsOf
<1>2. \A l, r \in 1..N : NextSegment(p, l, r) => T(l) < T(r)
  BY <1>1 DEF StagesOrdered
<1>3. 0 \in S
  BY <1>0
<1>4. ASSUME NEW k \in Nat, k \in S
      PROVE  k + 1 \in S
  <2> SUFFICES ASSUME NEW u \in 1..N, u <= k + 1, s < u, u \notin Segment(p, s)
               PROVE  T(s) < T(u)
    OBVIOUS
  <2>1. PICK c \in 1..u, d \in u..N : Segment(p, u) = c..d /\ \A v \in c..d : Segment(p, v) = c..d
    BY BlockOf
  <2>2. PICK a \in 1..s, b \in s..N : Segment(p, s) = a..b /\ \A v \in a..b : Segment(p, v) = a..b
    BY BlockOf
  <2> DEFINE r == c - 1
  <2>3. b < c
    <3> SUFFICES ASSUME c <= b
                 PROVE  FALSE
      BY <1>0
    <3>1. b \in c..d \/ u \in a..b
      BY <1>0
    <3>2. u \notin a..b
      BY <2>2
    <3>3. Segment(p, b) = c..d /\ Segment(p, b) = a..b
      BY <1>0, <2>1, <2>2, <3>1, <3>2
    <3>4. u \in c..d
      BY <1>0
    <3> QED BY <3>2, <3>3, <3>4
  <2>4. r \in 1..N /\ r + 1 = c /\ s <= r /\ r <= k /\ b <= r
    BY <1>0, <2>3
  <2> HIDE DEF r, N, S
  <2>5. PICK e \in 1..r, f \in r..N : Segment(p, r) = e..f /\ \A v \in e..f : Segment(p, v) = e..f
    BY <2>4, BlockOf DEF N
  <2>6. f = r
    <3> SUFFICES ASSUME r < f
                 PROVE  FALSE
      BY <1>0, <2>4
    <3>1. c \in e..f /\ c \in c..d
      BY <1>0, <2>4
    <3>2. e..f = c..d
      BY <2>1, <2>5, <3>1
    <3>3. r \in e..f /\ r \notin c..d
      BY <1>0, <2>4
    <3> QED BY <3>2, <3>3
  <2>7. NextSegment(p, r, u)
    <3>1. r \in Segment(p, r) /\ c \in Segment(p, u) /\ c = r + 1
      BY <1>0, <2>1, <2>4, <2>5, <2>6
    <3>2. (\A v \in Segment(p, r) : v <= r) /\ (\A v \in Segment(p, u) : c <= v)
      BY <2>1, <2>5, <2>6
    <3> QED BY <3>1, <3>2 DEF NextSegment
  <2>8. T(r) < T(u)
    BY <1>2, <2>4, <2>7
  <2>9. CASE r \in Segment(p, s)
    <3>1. Segment(p, r) = Segment(p, s)
      BY <2>2, <2>9
    <3>2. NextSegment(p, s, u)
      BY <2>7, <3>1 DEF NextSegment
    <3> QED BY <1>2, <3>2 DEF N
  <2>10. CASE r \notin Segment(p, s)
    <3>1. s # r
      <4>1. s \in a..b
        BY <1>0
      <4> QED BY <2>2, <2>10, <4>1
    <3>2. s < r
      BY <1>0, <2>4, <3>1
    <3>3. T(s) < T(r)
      BY <1>4, <2>4, <2>10, <3>2 DEF S
    <3>4. T(s) \in Int /\ T(r) \in Int /\ T(u) \in Int
      BY <1>1, <2>4 DEF N
    <3> HIDE DEF T
    <3> QED BY <2>8, <3>3, <3>4
  <2> QED BY <2>9, <2>10
<1>5. Nat \subseteq S
  <2> HIDE DEF S
  <2> QED BY <1>3, <1>4, Induction
<1>6. t \notin Segment(p, s)
  BY GroupIsSegment
<1>7. t \in S /\ t \in Nat /\ t <= t
  BY <1>0, <1>5
<1> QED BY <1>6, <1>7

\* A negation batch evaluation does not find was not completed by an event told
LEMMA BatchUndisturbed ==
  ASSUME EventVocabulary, StepwiseLibrary, TypeOK, EventsInOrder, NEW i \in DOMAIN Library, NEW B, NEW ivs,
         CheckNegationsBatch(graph, now, Library[i], B, ivs)
  PROVE  Undisturbed(i, ivs, B)
<1> SUFFICES ASSUME NEW neg \in Library[i].negations, neg.between_start \in DOMAIN ivs,
                    NEW n \in notified, InWindow(neg, ivs, graph[n].interval),
                    NegationTriggered(graph, now, neg, B, graph[n])
             PROVE  NegationFound(graph, now, neg, B, ivs)
  BY Zenon DEF Undisturbed, CheckNegationsBatch
<1> DEFINE e == graph[n]
           first == neg.clauses[1]
<1>1. n \in DOMAIN graph /\ e.label \in HeadLabels
  BY DEF TypeOK, EventsInOrder
<1>2. AboutAnotherEvent(Library[i], neg)
  BY DEF StepwiseLibrary, StepwisePattern
<1>3. /\ neg.clauses # << >> /\ Len(neg.clauses) \in Nat /\ DOMAIN neg.clauses = 1..Len(neg.clauses)
      /\ 1 \in DOMAIN neg.clauses
      /\ \A k \in DOMAIN neg.clauses :
           neg.clauses[k].source = first.source /\ neg.clauses[k].target.kind \in {"in", "bind"}
  <2> DEFINE T == {neg.clauses[k] : k \in DOMAIN neg.clauses}
  <2>1. neg.clauses # << >> /\ neg.clauses \in Seq(T)
    BY <1>2, Zenon DEF AboutAnotherEvent
  <2>2. \A k \in DOMAIN neg.clauses :
           neg.clauses[k].source = first.source /\ neg.clauses[k].target.kind \in {"in", "bind"}
    BY <1>2, Zenon DEF AboutAnotherEvent
  <2> HIDE DEF T
  <2> QED BY <2>1, <2>2, EmptySeq, LenProperties
<1>4. PICK k \in DOMAIN neg.clauses :
        /\ neg.clauses[k].label = e.label
        /\ TargetAccepts(neg.clauses[k].target, e.target, B)
        /\ \A j \in DOMAIN neg.clauses \ {k} :
             OtherHolds(graph, now, B, neg.clauses[k], e, neg.clauses[j])
  BY DEF NegationTriggered
<1>5. e \in Scan(graph, e.label, now)
  BY <1>1, EdgesHold DEF Scan
<1>6. \A j \in DOMAIN neg.clauses :
        \E y \in Scan(graph, neg.clauses[j].label, now) :
          y.source = e.source /\ TargetAccepts(neg.clauses[j].target, y.target, B)
  <2> TAKE j \in DOMAIN neg.clauses
  <2>1. CASE j = k
    BY <1>4, <1>5, <2>1
  <2>2. CASE j # k
    <3>1. OtherHolds(graph, now, B, neg.clauses[k], e, neg.clauses[j])
      BY <1>4, <2>2
    <3>2. neg.clauses[j].source = neg.clauses[k].source
      BY <1>3
    <3> QED BY <3>1, <3>2 DEF OtherHolds
  <2> QED BY <2>1, <2>2
<1>7. PICK x \in Scan(graph, first.label, now) :
        x.source = e.source /\ TargetAccepts(first.target, x.target, B)
  BY <1>3, <1>6
<1>8. PICK m \in DOMAIN graph : x = graph[m]
  BY DEF Scan
<1>9. x.interval.start = e.interval.start
  BY <1>1, <1>7, <1>8, EdgesOfEvent
<1>10. InWindow(neg, ivs, x.interval)
  BY <1>9 DEF InWindow
<1>11. x \in ScanAnyTime(graph, first.label) /\ ConstraintAccepts(first.target, x.target, B)
       /\ Resolvable(first.target, B)
  BY <1>7 DEF Scan, ScanAnyTime, TargetAccepts
<1>12. \A j \in 2..Len(neg.clauses) :
         /\ neg.clauses[j].source = first.source
         /\ \E y \in Scan(graph, neg.clauses[j].label, now) :
              y.source = x.source /\ TargetAccepts(neg.clauses[j].target, y.target, B)
  BY <1>3, <1>6, <1>7
<1> QED BY <1>3, <1>10, <1>11, <1>12, Zenon DEF NegationFound

\* A match batch evaluation finds is a complete picture, once everything is told
LEMMA BatchPictured ==
  ASSUME BlockLibrary, EventVocabulary, StepwiseLibrary, TypeOK, EventsInOrder, Pending = {},
         NEW i \in Pats, NEW m \in EvaluatePattern(graph, Library[i], now)
  PROVE  LET N == StageCount(Library[i])
         IN  /\ N \in Nat /\ IsMap(m.bindings) /\ DOMAIN m.bindings = VarsOf(Library[i], 1..N)
             /\ \E idx : Picture(i, 1..N, N + 1, idx, m.intervals, m.bindings)
<1> DEFINE p == Library[i]
           N == StageCount(p)
<1>0. i \in DOMAIN Library /\ N \in Nat
  <2>1. i \in DOMAIN Library
    BY LibraryDomain DEF Pats, TypeOK
  <2> QED BY <2>1, StageFacts
<1>1. /\ p.stages # << >> /\ m \in StageCascade(graph, p, now)
      /\ CheckTemporal(p, m.intervals)
      /\ CheckNegationsBatch(graph, now, p, m.bindings, m.intervals)
  BY DEF EvaluatePattern
<1>2. N >= 1
  BY <1>0, <1>1, StageFacts
<1>3. Searchable(p) /\ Taken(p, N, m)
  <2>1. Searchable(p)
    BY <1>0, LibrarySearchable
  <2> QED BY <1>1, <2>1, CascadeTaken
<1>4. /\ IsMap(m.bindings) /\ DOMAIN m.bindings = VarsOf(p, 1..N)
      /\ m.intervals = [x \in AnchorsOf(p, 1..N) |-> m.intervals[x]]
  BY <1>3, Zenon DEF Taken
<1>5. PICK idx : \A t \in 1..N :
        /\ idx[t] \in DOMAIN graph /\ graph[idx[t]].label \in HeadLabels
        /\ Fits(graph, p.stages[t], graph[idx[t]], m.bindings)
        /\ m.intervals[p.stages[t].anchor] = graph[idx[t]].interval
  BY <1>3, Zenon DEF Taken
<1>6. \A t \in 1..N : idx[t] \in notified
  BY <1>5 DEF Pending
<1>7. Standing(p, 1..N, N + 1)
  BY <1>0 DEF Standing
<1>8. \A x \in AnchorsOf(p, 1..N) : x \in DOMAIN m.intervals /\ m.intervals[x].start \in Int
  <2> TAKE x \in AnchorsOf(p, 1..N)
  <2>1. PICK t \in 1..N : x = p.stages[t].anchor
    BY DEF AnchorsOf
  <2>2. m.intervals[x] = graph[idx[t]].interval /\ idx[t] \in DOMAIN graph
    BY <1>5, <2>1
  <2>3. graph[idx[t]].interval.start \in Int
    BY <2>2, EdgesHold
  <2>4. x \in DOMAIN m.intervals
    BY <1>4
  <2> QED BY <2>2, <2>3, <2>4
<1>9. \A s, t \in 1..N : s < t /\ ~SameGroup(p, s, t) =>
        graph[idx[s]].interval.start < graph[idx[t]].interval.start
  <2> SUFFICES ASSUME NEW s \in 1..N, NEW t \in 1..N, s < t, ~SameGroup(p, s, t)
               PROVE  graph[idx[s]].interval.start < graph[idx[t]].interval.start
    OBVIOUS
  <2>1. StagesOrdered(p, m.intervals)
    BY <1>1 DEF CheckTemporal
  <2> DEFINE ivs == m.intervals
  <2>2. ivs[p.stages[s].anchor] = graph[idx[s]].interval /\ ivs[p.stages[t].anchor] = graph[idx[t]].interval
    BY <1>5
  <2> HIDE DEF ivs
  <2>3. ivs[p.stages[s].anchor].start < ivs[p.stages[t].anchor].start
    <3>1. \A x \in AnchorsOf(p, 1..N) : x \in DOMAIN ivs /\ ivs[x].start \in Int
      BY <1>8 DEF ivs
    <3>2. StagesOrdered(p, ivs)
      BY <2>1 DEF ivs
    <3> QED BY <1>3, <3>1, <3>2, StartsOrdered DEF Searchable
  <2> QED BY <2>2, <2>3
<1>10. Undisturbed(i, m.intervals, m.bindings)
  <2> DEFINE B == m.bindings
             ivs == m.intervals
  <2> HIDE DEF B, ivs
  <2>1. CheckNegationsBatch(graph, now, p, B, ivs)
    BY <1>1 DEF B, ivs
  <2>2. Undisturbed(i, ivs, B)
    BY <1>0, <2>1, BatchUndisturbed
  <2> QED BY <2>2 DEF B, ivs
<1>11. 1..N # {}
  BY <1>0, <1>2
<1>12. Picture(i, 1..N, N + 1, idx, m.intervals, m.bindings)
  <2> DEFINE D == 1..N
             B == m.bindings
             ivs == m.intervals
             e == N + 1
  <2>1. D \subseteq 1..StageCount(p) /\ D # {} /\ Standing(p, D, e)
    BY <1>7, <1>11
  <2>2. VarsOf(p, D) \subseteq DOMAIN B /\ DOMAIN B \subseteq PatternVars(p)
    BY <1>4 DEF PatternVars
  <2>3. ivs = [x \in AnchorsOf(p, D) |-> ivs[x]] /\ CheckTemporal(p, ivs) /\ Undisturbed(i, ivs, B)
    BY <1>1, <1>4, <1>10
  <2>4. \A s \in D : /\ idx[s] \in notified /\ Fits(graph, p.stages[s], graph[idx[s]], B)
                     /\ ivs[p.stages[s].anchor] = graph[idx[s]].interval
    BY <1>5, <1>6
  <2>5. \A s, t \in D : s < t /\ ~SameGroup(p, s, t) =>
          graph[idx[s]].interval.start < graph[idx[t]].interval.start
    BY <1>9
  <2> HIDE DEF D, B, ivs, e, N
  <2>6. Picture(i, D, e, idx, ivs, B)
    BY <2>1, <2>2, <2>3, <2>4, <2>5, Zenon DEF Picture
  <2> QED BY <2>6 DEF D, B, ivs, e
<1> QED BY <1>0, <1>4, <1>12

\* So where every picture is accounted for nothing batch evaluation finds is lost
LEMMA PicturedFound ==
  ASSUME BlockLibrary, EventVocabulary, StepwiseLibrary, TypeOK, EventsInOrder,
         NEW given, AllPictured(given), Pending = {},
         NEW i \in Pats, NEW m \in EvaluatePattern(graph, Library[i], now)
  PROVE  \/ MatchOf(m) \in CompletedMatches(i)
         \/ \E d \in given : d[1] = i /\ d[3] = MatchOf(m)
<1> DEFINE N == StageCount(Library[i])
           W == VarsOf(Library[i], 1..N)
           D == 1..N
           B == m.bindings
           ivs == m.intervals
           c == N + 1
<1>1. N \in Nat /\ c > N
  BY BatchPictured
<1>2. IsMap(B) /\ DOMAIN B = W
  BY BatchPictured
<1>3. PICK idx : Picture(i, D, c, idx, ivs, B)
  BY BatchPictured
<1>4. Within(B, W) = B
  <2> HIDE DEF B, W
  <2> QED BY <1>2 DEF IsMap
<1>5. VarsOf(Library[i], D) = W
  OBVIOUS
<1>6. MatchOf(m) = [bindings |-> B, intervals |-> ivs]
  BY DEF MatchOf
<1> HIDE DEF D, B, ivs, c, W
<1>7. (\E pm \in pms : Shows(pm, i, D, c, ivs, B)) \/ HandedOver(given, i, D, c, ivs, B)
  BY <1>3 DEF AllPictured
<1>8. CASE HandedOver(given, i, D, c, ivs, B)
  <2>1. PICK d \in given : d[1] = i /\ d[3] = [bindings |-> Within(B, VarsOf(Library[i], D)), intervals |-> ivs]
    BY <1>8, Zenon DEF HandedOver
  <2>2. d[3] = [bindings |-> B, intervals |-> ivs]
    BY <1>4, <1>5, <2>1, Zenon
  <2> QED BY <1>6, <2>1, <2>2, Zenon
<1>9. ASSUME NEW pm \in pms, Shows(pm, i, D, c, ivs, B)
      PROVE  MatchOf(m) \in CompletedMatches(i)
  <2>1. pm.pattern_idx = i /\ pm.next_stage = c /\ pm.intervals = ivs /\ pm.bindings = Within(B, VarsOf(Library[i], D))
    BY <1>9, Zenon DEF Shows
  <2>2. pm.bindings = B
    BY <1>4, <1>5, <2>1, Zenon
  <2>3. pm.state = "Complete"
    <3>1. IsMatch(pm)
      BY DEF TypeOK
    <3>2. PastEnd(i, c)
      BY <1>1 DEF PastEnd, N
    <3> QED BY <2>1, <3>1, <3>2 DEF IsMatch
  <2>4. MatchOf(pm) = MatchOf(m)
    BY <1>6, <2>1, <2>2 DEF MatchOf
  <2> QED BY <2>1, <2>3, <2>4 DEF CompletedMatches, Complete
<1> QED BY <1>7, <1>8, <1>9

\* A caller that tells of one event after the other and drains whenever it likes
\* is given every match the graph shows (on_edge_added and drain_completed
\* against evaluate_pattern_at): whatever is forked, found to be there already,
\* killed by a negation or forgotten with its fingerprint, nothing is lost.
THEOREM NothingLost ==
  ASSUME BlockLibrary, EventVocabulary, StepwiseLibrary
  PROVE  ConsumerSpec => []AllDelivered
<1>1. ConsumerInit => EventsInOrder /\ AllPictured(delivered) /\ Init
  <2> SUFFICES ASSUME ConsumerInit
               PROVE  EventsInOrder /\ AllPictured(delivered) /\ Init
    OBVIOUS
  <2>1. PICK given : given = delivered
    OBVIOUS
  <2> QED BY <2>1, InitPictures DEF ConsumerInit
<1>2. Init => Inv
  BY InitInv
<1>3. Inv /\ [ConsumerNext]_<<vars, delivered>> => Inv'
  BY ConsumerSteps, NextInv
<1>4. Inv /\ EventsInOrder /\ AllPictured(delivered) /\ [ConsumerNext]_<<vars, delivered>>
        => EventsInOrder' /\ AllPictured(delivered)'
  BY PicturesKept
<1>5. Inv /\ EventsInOrder /\ AllPictured(delivered) => AllDelivered
  <2> SUFFICES ASSUME Inv, EventsInOrder, AllPictured(delivered),
                      Pending = {}, NEW i \in Pats, NEW m \in EvaluatePattern(graph, Library[i], now)
               PROVE  \/ MatchOf(m) \in CompletedMatches(i)
                      \/ \E d \in delivered : d[1] = i /\ d[3] = MatchOf(m)
    BY DEF AllDelivered, BatchMatches
  <2>1. PICK given : given = delivered
    OBVIOUS
  <2> QED BY <2>1, PicturedFound DEF Inv
<1> QED BY <1>1, <1>2, <1>3, <1>4, <1>5, PTL DEF ConsumerSpec

-----------------------------------------------------------------------------
(* Nothing false: what try_match_stage makes of a stage *)

\* The map m has what the clause adds to d at the time
Adds(g, m, d, c, at) ==
  IsMap(m) /\ Extends(m, d) /\ DOMAIN m = DOMAIN d \cup Binds(c) /\ FitsClause(g, c, at, m)

\* A clause looked up holds of what is bound then
LEMMA LookupFits ==
  ASSUME NEW g \in Seq(Edge), NEW c, NEW at, NEW d, IsMap(d), c.negated \in BOOLEAN,
         c.target.kind = "in" \/ (c.target.kind = "bind" /\ ~c.negated),
         NEW m \in LookupClause(g, c, d, at)
  PROVE  Adds(g, m, d, c, at)
<1> DEFINE from == EdgesFrom(g, d[c.source], c.label, at)
           hits == {i \in from : TargetAccepts(c.target, g[i].target, d)}
<1>1. BoundToNode(d, c.source)
  BY DEF LookupClause
<1>2. c.negated => m = d /\ hits = {}
  BY DEF LookupClause
<1>3. ~c.negated => hits # {} /\ m = BindNew(c.target, FirstOf(g, hits).target, d)
  BY DEF LookupClause
<1>4. CASE c.target.kind = "in"
  <2>1. m = d /\ Binds(c) = {}
    BY <1>2, <1>3, <1>4 DEF BindNew, Binds
  <2>2. FitsClause(g, c, at, d)
    <3>1. d[c.source] \in Nodes
      BY <1>1 DEF BoundToNode
    <3>2. IF c.negated THEN hits = {} ELSE hits # {}
      BY <1>2, <1>3
    <3> QED BY <3>1, <3>2 DEF FitsClause
  <2> QED BY <2>1, <2>2 DEF Adds, Extends
<1>5. CASE c.target.kind = "bind" /\ ~c.negated
  <2> DEFINE x == c.target.var
  <2>1. hits # {} /\ Binds(c) = {x} /\ hits \subseteq from
    BY <1>3, <1>5 DEF Binds
  <2>2. PICK i \in hits : FirstOf(g, hits) = g[i]
    <3>1. hits \in SUBSET Nat
      BY LenProperties DEF EdgesFrom
    <3> HIDE DEF hits
    <3>2. \E i \in hits : \A j \in hits : i <= j
      BY <2>1, <3>1, LeastNatural
    <3> QED BY <3>2, Zenon DEF FirstOf
  <2>3. i \in from /\ TargetAccepts(c.target, g[i].target, d)
    OBVIOUS
  <2> HIDE DEF from, hits
  <2>4. m = BindNew(c.target, g[i].target, d)
    BY <1>3, <1>5, <2>2
  <2>5. /\ Extends(m, d) /\ x \in DOMAIN m
        /\ x \notin DOMAIN d => m[x] = g[i].target
        /\ \A y \in DOMAIN m : y \in DOMAIN d \/ y = x
    BY <1>5, <2>4, BindNewExtends
  <2>6. DOMAIN m = DOMAIN d \cup Binds(c)
    BY <2>1, <2>5 DEF Extends
  <2>7. IsMap(m)
    <3>1. m = d \/ m = Overlay(Single(x, g[i].target), d)
      BY <2>4 DEF BindNew
    <3>2. \A y, z : IsMap(Overlay(y, z))
      BY DEF IsMap, Within, Overlay
    <3> QED BY <3>1, <3>2
  <2>8. m[c.source] = d[c.source] /\ m[c.source] \in Nodes
    BY <1>1, <2>5 DEF BoundToNode, Extends
  <2>9. TargetAccepts(c.target, g[i].target, m)
    <3>1. m[x] = g[i].target
      <4>1. CASE x \in DOMAIN d
        BY <1>5, <2>3, <2>5, <4>1 DEF TargetAccepts, Extends
      <4>2. CASE x \notin DOMAIN d
        BY <2>5, <4>2
      <4> QED BY <4>1, <4>2
    <3> QED BY <1>5, <2>5, <3>1 DEF TargetAccepts, Resolvable, ConstraintAccepts
  <2>10. FitsClause(g, c, at, m)
    <3>1. i \in EdgesFrom(g, m[c.source], c.label, at)
      BY <2>3, <2>8 DEF from
    <3> QED BY <1>5, <2>8, <2>9, <3>1 DEF FitsClause
  <2> QED BY <2>5, <2>6, <2>7, <2>10 DEF Adds
<1> QED BY <1>4, <1>5

\* What a stage matched binds, and that the edge is its event
Matched(g, stage, e, b, m) ==
  IsMap(m) /\ DOMAIN m = DOMAIN b \cup StageVars(stage) /\ Fits(g, stage, e, m)

\* A stage tried with an edge: the edge is its event
LEMMA StageMatchFits ==
  ASSUME NEW g \in Seq(Edge), NEW stage, AboutOneEvent(stage), NEW e \in Edge, NEW b,
         NEW T, stage.clauses \in Seq(T), NEW m \in TryMatchStage(g, stage, e, b)
  PROVE  Matched(g, stage, e, b, m)
<1> DEFINE n == Len(stage.clauses)
           at == e.interval.start
           first == {Overlay(FirstBindings(stage, e, b), b)}
           a == stage.anchor
           Met(d, k) == /\ IsMap(d) /\ DOMAIN d = DOMAIN b \cup BoundBy(stage, k) /\ d[a] = e.source
                        /\ \A j \in 2..k : FitsClause(g, stage.clauses[j], at, d)
<1>0. n \in Nat /\ n # 0
  BY EmptySeq, LenProperties DEF AboutOneEvent
<1>1. PICK h : /\ h = [i \in 1..n |-> After(g, stage, at, first, h, i)]
               /\ TryMatchStage(g, stage, e, b)
                    = IF FirstClauseMatches(stage, e, b) THEN h[n] ELSE {}
  BY <1>0, TryMatchSteps
<1>2. FirstClauseMatches(stage, e, b) /\ m \in h[n]
  BY <1>1
<1>3. \A i \in 1..n : h[i] = After(g, stage, at, first, h, i)
  BY <1>1
<1>4. /\ stage.clauses[1].source = a /\ stage.clauses[1].target.kind = "in"
      /\ Binds(stage.clauses[1]) = {}
  BY <1>0 DEF AboutOneEvent, Binds
<1>5. CouldBe(stage.clauses[1], e)
  BY <1>2, <1>4 DEF FirstClauseMatches, CouldBe, TargetAccepts, ConstraintAccepts
<1> HIDE DEF Met
<1> DEFINE S == {k \in Nat : k + 1 \in 1..n => \A d \in h[k + 1] : Met(d, k + 1)}
<1>6. 0 \in S
  <2> SUFFICES ASSUME 1 \in 1..n, NEW d \in h[1]
               PROVE  Met(d, 1)
    OBVIOUS
  <2>1. d = Overlay(FirstBindings(stage, e, b), b)
    BY <1>3 DEF After
  <2>2. /\ DOMAIN FirstBindings(stage, e, b) = {a} /\ FirstBindings(stage, e, b)[a] = e.source
    BY <1>4 DEF FirstBindings, BindNew, Overlay, Single, NoBindings
  <2>3. BoundBy(stage, 1) = {a}
    <3>1. BoundBy(stage, 1) = {a} \cup Binds(stage.clauses[1])
      BY DEF BoundBy
    <3> QED BY <1>4, <3>1
  <2>4. IsMap(d) /\ DOMAIN d = DOMAIN b \cup {a} /\ d[a] = e.source
    BY <2>1, <2>2 DEF IsMap, Within, Overlay
  <2> QED BY <2>3, <2>4 DEF Met
<1>7. ASSUME NEW k \in Nat, k \in S
      PROVE  k + 1 \in S
  <2> SUFFICES ASSUME k + 1 + 1 \in 1..n, NEW d \in h[k + 1 + 1]
               PROVE  Met(d, k + 1 + 1)
    OBVIOUS
  <2> DEFINE i == k + 1 + 1
             c == stage.clauses[i]
  <2>1. i \in 1..n /\ i # 1 /\ i - 1 = k + 1 /\ k + 1 \in 1..n /\ k + 1 \in Nat
        /\ \A j \in 2..i : j \in 2..(k + 1) \/ j = i
    OBVIOUS
  <2> HIDE DEF i
  <2>2. h[i] = UNION {LookupClause(g, c, f, at) : f \in h[k + 1]}
    <3>1. h[i] = UNION {LookupClause(g, stage.clauses[i], f, at) : f \in h[i - 1]}
      BY <1>3, <2>1 DEF After
    <3> QED BY <2>1, <3>1
  <2>3. PICK f \in h[k + 1] : d \in LookupClause(g, c, f, at)
    <3> HIDE DEF c
    <3>1. d \in h[i]
      BY DEF i
    <3> QED BY <2>2, <3>1
  <2>4. Met(f, k + 1)
    BY <1>7, <2>1
  <2>5. /\ c.target.kind = "in" \/ (c.target.kind = "bind" /\ ~c.negated)
        /\ c.negated \in BOOLEAN
    BY <2>1, ClauseAboutEvent
  <2>6. Adds(g, d, f, c, at)
    <3>1. IsMap(f)
      BY <2>4 DEF Met
    <3> HIDE DEF c, S, at
    <3> QED BY <2>3, <2>5, <3>1, LookupFits
  <2>7. IsMap(d) /\ Extends(d, f) /\ DOMAIN d = DOMAIN f \cup Binds(c) /\ FitsClause(g, c, at, d)
    BY <2>6 DEF Adds
  <2>8. BoundBy(stage, i) = BoundBy(stage, k + 1) \cup Binds(c)
    <3>1. BoundBy(stage, k + 1 + 1) = BoundBy(stage, k + 1) \cup Binds(stage.clauses[k + 1 + 1])
      BY <2>1, BoundByNext
    <3> QED BY <3>1 DEF i
  <2>9. DOMAIN d = DOMAIN b \cup BoundBy(stage, i)
    BY <2>4, <2>7, <2>8 DEF Met
  <2>10. a \in DOMAIN f /\ d[a] = e.source
    <3>1. a \in BoundBy(stage, k + 1)
      BY DEF BoundBy
    <3> QED BY <2>4, <2>7, <3>1 DEF Met, Extends
  <2>11. ASSUME NEW j \in 2..i
         PROVE  FitsClause(g, stage.clauses[j], at, d)
    <3>1. CASE j = i
      BY <2>7, <3>1
    <3>2. CASE j \in 2..(k + 1)
      <4> DEFINE x == stage.clauses[j]
      <4>1. FitsClause(g, x, at, f)
        BY <2>4, <3>2 DEF Met
      <4>2. /\ j \in 1..n /\ j \in Int /\ j - 1 \in Int /\ k + 1 \in Int
            /\ j <= k + 1 /\ j - 1 <= k + 1
        BY <1>0, <2>1, <3>2
      <4>3. BoundBy(stage, j) \subseteq BoundBy(stage, k + 1) /\ BoundBy(stage, j - 1) \subseteq BoundBy(stage, k + 1)
        BY <4>2, BoundByGrows
      <4>4. /\ x.target.kind = "in" \/ (x.target.kind = "bind" /\ x.target.var \in BoundBy(stage, j))
            /\ x.source \in BoundBy(stage, j - 1) \/ x.source = a
        BY <4>2, ClauseAboutEvent
      <4>5. /\ x.target.kind = "in" \/ (x.target.kind = "bind" /\ x.target.var \in DOMAIN f)
            /\ x.source \in DOMAIN f
        BY <2>4, <2>10, <4>3, <4>4 DEF Met
      <4> HIDE DEF x, c, S, at
      <4>6. FitsClause(g, x, at, d)
        BY <2>7, <4>1, <4>5, FitsClauseGrows
      <4> QED BY <4>6 DEF x
    <3> QED BY <2>1, <3>1, <3>2
  <2>12. Met(d, i)
    BY <2>7, <2>9, <2>10, <2>11 DEF Met
  <2> QED BY <2>12 DEF i
<1>8. Nat \subseteq S
  <2> HIDE DEF S
  <2> QED BY <1>6, <1>7, Induction
<1>9. n - 1 \in Nat /\ n - 1 + 1 = n /\ n \in 1..n
  BY <1>0
<1>10. Met(m, n)
  <2>1. \A d \in h[n] : Met(d, n)
    <3>1. n - 1 \in S
      BY <1>8, <1>9
    <3> QED BY <1>9, <3>1
  <2> QED BY <1>2, <2>1
<1> QED BY <1>5, <1>10 DEF Met, Matched, Fits, StageVars

-----------------------------------------------------------------------------
(* A match the graph bears out *)

\* Nothing told falls in a window of the match and completes its negation
Calm(g, at, told, i, ivs, b) ==
  \A neg \in Library[i].negations : neg.between_start \in DOMAIN ivs =>
    \A j \in told :
      InWindow(neg, ivs, g[j].interval) => ~NegationTriggered(g, at, neg, b, g[j])

\* An edge told of is the event of the stage
Happened(g, told, stage, b, ivs) ==
  /\ StageVars(stage) \subseteq DOMAIN b /\ stage.anchor \in DOMAIN ivs
  /\ \E n \in told : Fits(g, stage, g[n], b) /\ ivs[stage.anchor] = g[n].interval

\* The stages passed happened as b and ivs have it, undisturbed
BorneOut(g, at, told, i, passed, b, ivs) ==
  LET p == Library[i]
  IN  /\ IsMap(b) /\ DOMAIN b \subseteq PatternVars(p)
      /\ IsMap(ivs) /\ DOMAIN ivs \subseteq AnchorsOf(p, 1..StageCount(p))
      /\ \A x \in DOMAIN ivs : ivs[x].start \in Int /\ ivs[x].start <= at
      /\ \A s \in passed : Happened(g, told, p.stages[s], b, ivs)
      /\ p.negations # {} =>
           \A s \in 1..StageCount(p) : p.stages[s].anchor \in DOMAIN ivs => s \in passed
      /\ Calm(g, at, told, i, ivs, b)

BorneMatch(pm, g, at, told) ==
  BorneOut(g, at, told, pm.pattern_idx,
           PassedBy(Library[pm.pattern_idx], pm.next_stage, pm.matched_stages),
           pm.bindings, pm.intervals)

\* Every match in progress is borne out
AllBorneOut == \A pm \in Active : BorneMatch(pm, graph, now, notified)

\* A stage matched stays passed
LEMMA PassedStays ==
  ASSUME BlockLibrary, NEW i \in DOMAIN Library,
         NEW next \in 1..StageCount(Library[i]), NEW mask \in SUBSET Nat,
         AtSegment(Library[i], next, mask),
         NEW s \in Segment(Library[i], next), s \notin mask
  PROVE  PassedBy(Library[i], next, mask) \cup {s}
           \subseteq PassedBy(Library[i], NextStage(Library[i], s, mask), NewMask(Library[i], s, mask))
<1> DEFINE p == Library[i]
           N == StageCount(p)
           seg == Segment(p, s)
           end == SegmentEnd(p, s)
           after == NextStage(p, s, mask)
           marks == NewMask(p, s, mask)
<1>1. N \in Nat /\ BlockPattern(p)
  BY StageFacts DEF BlockLibrary
<1>2. Segment(p, next) \subseteq 1..N
  BY StageFacts, Zenon
<1>3. s \in 1..N /\ next \in 1..N
  BY <1>2
<1>4. seg = Segment(p, next) /\ SegmentStart(p, next) = next
  BY <1>1, <1>3 DEF BlockPattern, AtSegment
<1>5. SegmentStart(p, s) = next
  BY <1>4, SameSegmentSameStart
<1>6. end \in (s + 1)..(N + 1) /\ seg \subseteq 1..N
  BY <1>3, StageFacts, Zenon
<1>7. \A t \in 1..N : t \in seg <=> next <= t /\ t < end
  BY <1>1, <1>3, <1>5, Zenon DEF BlockPattern
<1>8. next <= s /\ s \in seg
  BY <1>3, <1>4, <1>7
<1>9. \A m \in mask : m < next \/ m \in seg
  BY <1>3, <1>4 DEF AtSegment
<1>10. /\ seg \subseteq mask \cup {s} => after = end
       /\ ~(seg \subseteq mask \cup {s}) => after = next
  BY <1>5, Zenon DEF NextStage
<1>11. seg \subseteq mask \cup {s} \/ marks = mask \cup {s}
  BY DEF NewMask, Segment
<1> HIDE DEF p, N, seg, end, after, marks
<1> SUFFICES ASSUME NEW t \in 1..N, t < next \/ t \in mask \/ t = s
             PROVE  t < after \/ t \in marks
  BY <1>3 DEF PassedBy, p, N, after, marks
<1>12. CASE seg \subseteq mask \cup {s}
  <2>1. next < end /\ s < end
    BY <1>3, <1>6, <1>8
  <2>2. t < next \/ t \in seg
    BY <1>8, <1>9
  <2>3. t < end
    BY <1>3, <1>6, <1>7, <2>1, <2>2
  <2> QED BY <1>10, <1>12, <2>3
<1>13. CASE ~(seg \subseteq mask \cup {s})
  BY <1>10, <1>11, <1>13
<1> QED BY <1>12, <1>13

\* An event that does not kill a match leaves it as it was
LEMMA SparedBorne ==
  ASSUME EventsInOrder, NEW pm \in Active, BorneMatch(pm, graph, now, notified),
         NEW n \in DOMAIN graph, graph[n].interval.start = now, pm \notin Killed(graph[n])
  PROVE  BorneMatch(pm, graph, now, notified \cup {n})
<1> DEFINE i == pm.pattern_idx
           p == Library[i]
           told == notified \cup {n}
           passed == PassedBy(p, pm.next_stage, pm.matched_stages)
<1>1. BorneOut(graph, now, notified, i, passed, pm.bindings, pm.intervals)
  BY DEF BorneMatch
<1>2. ASSUME NEW neg \in p.negations, neg.between_start \in DOMAIN pm.intervals, NEW j \in told,
             InWindow(neg, pm.intervals, graph[j].interval)
      PROVE  ~NegationTriggered(graph, now, neg, pm.bindings, graph[j])
  <2>1. CASE j \in notified
    BY <1>1, <1>2, <2>1 DEF BorneOut, Calm
  <2>2. CASE j = n
    <3>1. \A x \in DOMAIN pm.intervals : pm.intervals[x].start \in Int /\ pm.intervals[x].start <= now
      BY <1>1 DEF BorneOut
    <3>2. now \in Int
      BY DEF EventsInOrder
    <3>3. /\ pm.intervals[neg.between_start].start < graph[n].interval.start
          /\ \A x \in neg.between_end \cap DOMAIN pm.intervals : now < pm.intervals[x].start
      BY <1>2, <2>2 DEF InWindow
    <3>4. neg.between_end \cap DOMAIN pm.intervals = {}
      BY <3>1, <3>2, <3>3
    <3>5. ~CheckNegationKill(graph, now, p, pm.bindings, pm.intervals, graph[n])
      BY DEF Killed
    <3> QED BY <1>2, <2>2, <3>3, <3>4, <3>5 DEF CheckNegationKill
  <2> QED BY <2>1, <2>2
<1>3. Calm(graph, now, told, i, pm.intervals, pm.bindings)
  BY <1>2, Zenon DEF Calm
<1>4. \A st : Happened(graph, notified, st, pm.bindings, pm.intervals)
               => Happened(graph, told, st, pm.bindings, pm.intervals)
  BY DEF Happened
<1> HIDE DEF told, passed
<1>5. BorneOut(graph, now, told, i, passed, pm.bindings, pm.intervals)
  BY <1>1, <1>3, <1>4 DEF BorneOut
<1> QED BY <1>5 DEF BorneMatch, told, passed

\* A map that another extends is a part of it
LEMMA PartOfMap ==
  ASSUME NEW m, NEW b, IsMap(b), Extends(m, b)
  PROVE  b = Within(m, DOMAIN b) /\ DOMAIN b \subseteq DOMAIN m
BY DEF IsMap, Extends, Within

\* One more stage, by an edge told last
LEMMA BorneMore ==
  ASSUME BlockLibrary, StepwiseLibrary, NEW i \in DOMAIN Library, NEW g, NEW at \in Int,
         NEW told, NEW n \in told, g[n].interval.start = at,
         \A j \in told : g[j].interval.start \in Int /\ g[j].interval.start <= at,
         NEW passed \in SUBSET (1..StageCount(Library[i])),
         NEW b, NEW ivs, BorneOut(g, at, told, i, passed, b, ivs),
         NEW s \in 1..StageCount(Library[i]), s \notin passed,
         NEW m, Extends(m, b), Matched(g, Library[i].stages[s], g[n], b, m)
  PROVE  BorneOut(g, at, told, i, passed \cup {s}, m,
                  WithInterval(ivs, Library[i].stages[s].anchor, g[n].interval))
<1> DEFINE p == Library[i]
           N == StageCount(p)
           a == p.stages[s].anchor
           after == WithInterval(ivs, a, g[n].interval)
           more == passed \cup {s}
<1>1. /\ DOMAIN after = DOMAIN ivs \cup {a} /\ after[a] = g[n].interval
      /\ \A y \in DOMAIN ivs : y # a => after[y] = ivs[y]
  BY DEF WithInterval
<1>2. IsMap(after)
  BY DEF WithInterval, IsMap, Within
<1>3. /\ IsMap(b) /\ DOMAIN b \subseteq PatternVars(p)
      /\ IsMap(ivs) /\ DOMAIN ivs \subseteq AnchorsOf(p, 1..N)
      /\ \A x \in DOMAIN ivs : ivs[x].start \in Int /\ ivs[x].start <= at
      /\ \A t \in passed : Happened(g, told, p.stages[t], b, ivs)
      /\ p.negations # {} => \A t \in 1..N : p.stages[t].anchor \in DOMAIN ivs => t \in passed
      /\ Calm(g, at, told, i, ivs, b)
  BY DEF BorneOut
<1>4. StepwisePattern(p) /\ BlockPattern(p)
  BY DEF StepwiseLibrary, BlockLibrary
<1>5. IsMap(m) /\ DOMAIN m = DOMAIN b \cup StageVars(p.stages[s]) /\ Fits(g, p.stages[s], g[n], m)
  BY DEF Matched
<1>6. StageVars(p.stages[s]) \subseteq PatternVars(p)
  BY DEF PatternVars, VarsOf
<1>7. \A t \in 1..N : p.stages[t].anchor = a => t = s
  BY <1>4 DEF BlockPattern
<1> HIDE DEF after
<1>8. ASSUME NEW t \in more
      PROVE  Happened(g, told, p.stages[t], m, after)
  <2>1. CASE t = s
    BY <1>1, <1>5, <2>1 DEF Happened
  <2>2. CASE t \in passed
    <3> DEFINE st == p.stages[t]
    <3>1. StageVars(st) \subseteq DOMAIN b /\ st.anchor \in DOMAIN ivs
      BY <1>3, <2>2 DEF Happened
    <3>2. PICK j \in told : Fits(g, st, g[j], b) /\ ivs[st.anchor] = g[j].interval
      BY <1>3, <2>2 DEF Happened
    <3>3. t \in 1..N /\ st.anchor # a
      BY <1>7, <2>2
    <3>4. AboutOneEvent(st) /\ Len(st.clauses) \in Nat
      <4>1. st.clauses \in Seq({st.clauses[k] : k \in DOMAIN st.clauses})
        BY <3>3, ClauseFacts
      <4>2. AboutOneEvent(st)
        BY <1>4, <3>3 DEF StepwisePattern
      <4> HIDE DEF st
      <4> QED BY <4>1, <4>2, LenProperties
    <3>5. after[st.anchor] = ivs[st.anchor] /\ st.anchor \in DOMAIN after
      BY <1>1, <3>1, <3>3
    <3>6. StageVars(st) \subseteq DOMAIN m
      BY <1>5, <3>1
    <3> HIDE DEF st
    <3>7. Fits(g, st, g[j], m)
      BY <3>1, <3>2, <3>4, FitsGrows
    <3>8. Happened(g, told, st, m, after)
      BY <3>2, <3>5, <3>6, <3>7 DEF Happened
    <3> QED BY <3>8 DEF st
  <2> QED BY <2>1, <2>2
<1>9. ASSUME NEW neg \in p.negations, neg.between_start \in DOMAIN after, NEW j \in told,
             InWindow(neg, after, g[j].interval)
      PROVE  ~NegationTriggered(g, at, neg, m, g[j])
  <2>1. a \notin DOMAIN ivs
    BY <1>3
  <2>2. /\ after[neg.between_start].start < g[j].interval.start
        /\ \A x \in neg.between_end \cap DOMAIN after : g[j].interval.start < after[x].start
    BY <1>9 DEF InWindow
  <2>3. neg.between_start # a
    BY <1>1, <2>2
  <2>4. neg.between_start \in DOMAIN ivs /\ after[neg.between_start] = ivs[neg.between_start]
    BY <1>1, <1>9, <2>3
  <2>5. InWindow(neg, ivs, g[j].interval)
    BY <1>1, <2>1, <2>2, <2>4 DEF InWindow
  <2>6. ~NegationTriggered(g, at, neg, b, g[j])
    BY <1>3, <2>4, <2>5 DEF Calm
  <2>7. PICK t \in 1..N : p.stages[t].anchor = neg.between_start
    BY <1>3, <2>4 DEF AnchorsOf
  <2>8. t \in passed
    BY <1>3, <2>4, <2>7
  <2>9. StageVars(p.stages[t]) \subseteq DOMAIN b
    BY <1>3, <2>8 DEF Happened
  <2>10. b = Within(m, DOMAIN b) /\ DOMAIN b \subseteq DOMAIN m
    BY <1>3, PartOfMap
  <2>11. AboutAnotherEvent(p, neg) /\ DOMAIN m \subseteq PatternVars(p)
    BY <1>3, <1>4, <1>5, <1>6 DEF StepwisePattern
  <2> HIDE DEF p
  <2>12. NegationTriggered(g, at, neg, Within(m, DOMAIN b), g[j]) <=> NegationTriggered(g, at, neg, m, g[j])
    BY <2>7, <2>9, <2>10, <2>11, TriggeredWithin DEF N
  <2> QED BY <2>6, <2>10, <2>12
<1>10. Calm(g, at, told, i, after, m)
  BY <1>9, Zenon DEF Calm
<1>11. DOMAIN m \subseteq PatternVars(p) /\ DOMAIN after \subseteq AnchorsOf(p, 1..N)
  BY <1>1, <1>3, <1>5, <1>6 DEF AnchorsOf
<1>12. \A x \in DOMAIN after : after[x].start \in Int /\ after[x].start <= at
  BY <1>1, <1>3
<1>13. p.negations # {} => \A t \in 1..N : p.stages[t].anchor \in DOMAIN after => t \in more
  BY <1>1, <1>3, <1>7
<1> HIDE DEF more
<1>14. BorneOut(g, at, told, i, more, m, after)
  BY <1>2, <1>5, <1>8, <1>10, <1>11, <1>12, <1>13, Zenon DEF BorneOut, p, N
<1> QED BY <1>14 DEF after, more

\* Every edge told of has started
LEMMA ToldStarted ==
  ASSUME EventVocabulary, TypeOK, EventsInOrder, NEW n \in DOMAIN graph
  PROVE  /\ notified \cup {n} \subseteq DOMAIN graph /\ now \in Int
         /\ \A j \in notified \cup {n} :
              graph[j].interval.start \in Int /\ graph[j].interval.start <= now
<1>1. notified \cup {n} \subseteq DOMAIN graph
  BY DEF TypeOK
<1> QED BY <1>1, EdgesHold

\* What Extended chooses is what the stage and its event bind
LEMMA ExtendedFits ==
  ASSUME StepwiseLibrary, TypeOK, NEW i \in DOMAIN Library, NEW s \in 1..StageCount(Library[i]),
         NEW n \in DOMAIN graph, NEW b, Matches(i, s, graph[n], b)
  PROVE  Matched(graph, Library[i].stages[s], graph[n], b, Extended(i, s, graph[n], b))
<1> DEFINE st == Library[i].stages[s]
           T == {st.clauses[k] : k \in DOMAIN st.clauses}
           m == Extended(i, s, graph[n], b)
<1>1. m \in TryMatchStage(graph, st, graph[n], b)
  BY DEF Matches, Extended
<1>2. graph \in Seq(Edge) /\ graph[n] \in Edge
  BY ElementOfSeq, LenProperties DEF TypeOK
<1>3. st.clauses \in Seq(T)
  BY ClauseFacts
<1>4. AboutOneEvent(st)
  BY DEF StepwiseLibrary, StepwisePattern
<1> HIDE DEF st, T, m
<1>5. Matched(graph, st, graph[n], b, m)
  BY <1>1, <1>2, <1>3, <1>4, StageMatchFits
<1> QED BY <1>5 DEF st, m

\* A new match is borne out by the edge that started it
LEMMA InitiatedBorne ==
  ASSUME BlockLibrary, AnchoredLibrary, StepwiseLibrary, EventVocabulary, TypeOK, EventsInOrder,
         NEW i \in Pats, Library[i].stages # << >>,
         NEW n \in DOMAIN graph, graph[n].interval.start = now, NEW s \in Segment(Library[i], 1),
         Matches(i, s, graph[n], NoBindings)
  PROVE  BorneMatch(Initiated(i, s, graph[n]), graph, now, notified \cup {n})
<1> DEFINE p == Library[i]
           e == graph[n]
           m == Initiated(i, s, e)
           x == Extended(i, s, e, NoBindings)
           told == notified \cup {n}
           more == PassedBy(p, NextStage(p, s, {}), NewMask(p, s, {}))
<1>1. i \in DOMAIN Library /\ s \in 1..StageCount(p) /\ StageCount(p) \in Nat
  BY StartedStage, StageFacts
<1>2. 1 \in 1..StageCount(p) /\ AtSegment(p, 1, {}) /\ PassedBy(p, 1, {}) = {}
  <2>1. 1 \in 1..StageCount(p)
    BY <1>1
  <2>2. SegmentStart(p, 1) \in 1..1
    BY <1>1, <2>1, StageFacts, Zenon
  <2> QED BY <1>1, <2>1, <2>2 DEF AtSegment, PassedBy
<1>3. {} \in SUBSET Nat /\ s \notin {}
  OBVIOUS
<1>4. more \subseteq {} \cup {s}
  BY <1>1, <1>2, <1>3, SequenceGrows, Zenon
<1>5. {} \cup {s} \subseteq more
  BY <1>1, <1>2, <1>3, PassedStays, Zenon
<1>6. Matched(graph, p.stages[s], e, NoBindings, x)
  BY <1>1, ExtendedFits
<1>7. Extends(x, NoBindings)
  BY DEF Extends, NoBindings
<1>8. BorneOut(graph, now, told, i, {}, NoBindings, NoBindings)
  BY DEF BorneOut, Calm, IsMap, Within, NoBindings
<1>9. /\ m.pattern_idx = i /\ m.next_stage = NextStage(p, s, {})
      /\ m.matched_stages = NewMask(p, s, {}) /\ m.bindings = x
      /\ m.intervals = [y \in {p.stages[s].anchor} |-> e.interval]
  BY DEF Initiated
<1>10. m.intervals = WithInterval(NoBindings, p.stages[s].anchor, e.interval)
  BY <1>9 DEF WithInterval, NoBindings
<1>11. n \in told /\ now \in Int
       /\ \A j \in told : graph[j].interval.start \in Int /\ graph[j].interval.start <= now
  BY ToldStarted
<1>12. {} \in SUBSET (1..StageCount(p))
  OBVIOUS
<1> HIDE DEF m, x, more, told
<1>13. BorneOut(graph, now, told, i, {} \cup {s}, x,
                WithInterval(NoBindings, p.stages[s].anchor, e.interval))
  BY <1>1, <1>3, <1>6, <1>7, <1>8, <1>11, <1>12, BorneMore
<1>14. more = {} \cup {s}
  BY <1>4, <1>5
<1> QED BY <1>9, <1>10, <1>13, <1>14 DEF BorneMatch, m, more, told

\* An advance is borne out by the edge that made it as well
LEMMA AdvancedBorne ==
  ASSUME BlockLibrary, AnchoredLibrary, StepwiseLibrary, EventVocabulary, TypeOK, EventsInOrder,
         NEW n \in DOMAIN graph, graph[n].interval.start = now,
         NEW pm \in Active, Sequenced(pm), VouchedMatch(pm, graph, notified),
         BorneMatch(pm, graph, now, notified \cup {n}),
         NEW s \in TryStages(pm, graph[n])
  PROVE  BorneMatch(AdvancedMatch(pm, s, graph[n]), graph, now, notified \cup {n})
<1> DEFINE i == pm.pattern_idx
           p == Library[pm.pattern_idx]
           e == graph[n]
           m == AdvancedMatch(pm, s, e)
           x == Extended(i, s, e, pm.bindings)
           told == notified \cup {n}
           passed == PassedBy(p, pm.next_stage, pm.matched_stages)
           more == PassedBy(p, m.next_stage, m.matched_stages)
<1>1. /\ i \in DOMAIN Library /\ pm.next_stage \in 1..StageCount(p) /\ IsMatch(pm)
      /\ DOMAIN pm = MatchFields /\ pm.matched_stages \in SUBSET Nat
  BY ActiveUnfinished DEF IsMatch
<1>2. s \in Segment(p, pm.next_stage) /\ s \notin pm.matched_stages /\ Matches(i, s, e, pm.bindings)
  BY DEF TryStages
<1>3. AtSegment(p, pm.next_stage, pm.matched_stages)
  BY DEF Sequenced
<1>4. /\ m.pattern_idx = i /\ m.next_stage = NextStage(p, s, pm.matched_stages)
      /\ m.matched_stages = NewMask(p, s, pm.matched_stages) /\ m.bindings = x
      /\ m.intervals = WithInterval(pm.intervals, p.stages[s].anchor, e.interval)
  BY <1>1 DEF AdvancedMatch, MatchFields
<1>5. s \in 1..StageCount(p) /\ s \notin passed /\ more \subseteq passed \cup {s}
  BY <1>1, <1>2, <1>3, <1>4, SequenceGrows
<1>6. passed \cup {s} \subseteq more
  BY <1>1, <1>2, <1>3, <1>4, PassedStays
<1>7. passed \in SUBSET (1..StageCount(p)) /\ more = passed \cup {s}
  BY <1>5, <1>6 DEF PassedBy
<1>8. e \in Edge
  BY ElementOfSeq, LenProperties DEF TypeOK
<1>9. BoundToNodes(pm.bindings, Anchors(p))
  BY DEF VouchedMatch, Vouched
<1>10. Extends(x, pm.bindings)
  BY <1>1, <1>2, <1>5, <1>8, <1>9, ExtendedSound
<1>11. Matched(graph, p.stages[s], e, pm.bindings, x)
  BY <1>1, <1>2, <1>5, ExtendedFits
<1>12. BorneOut(graph, now, told, i, passed, pm.bindings, pm.intervals)
  BY DEF BorneMatch
<1>13. n \in told /\ now \in Int
       /\ \A j \in told : graph[j].interval.start \in Int /\ graph[j].interval.start <= now
  BY ToldStarted
<1> HIDE DEF m, x, passed, more, told
<1>14. BorneOut(graph, now, told, i, passed \cup {s}, x,
                WithInterval(pm.intervals, p.stages[s].anchor, e.interval))
  BY <1>1, <1>5, <1>7, <1>10, <1>11, <1>12, <1>13, BorneMore
<1> QED BY <1>4, <1>7, <1>14 DEF BorneMatch, m, more, told

\* The variables of a stage are those its clauses are about
LEMMA StageVarsOfClauses ==
  ASSUME NEW stage, AboutOneEvent(stage), NEW T, stage.clauses \in Seq(T),
         NEW cleared, \A k \in 1..Len(stage.clauses) : ClauseVars(stage.clauses[k]) \cap cleared = {}
  PROVE  StageVars(stage) \cap cleared = {}
<1>1. 1 \in 1..Len(stage.clauses) /\ stage.clauses[1].source = stage.anchor
  <2>1. Len(stage.clauses) \in Nat /\ Len(stage.clauses) # 0
    BY EmptySeq, LenProperties DEF AboutOneEvent
  <2> QED BY <2>1 DEF AboutOneEvent
<1>2. stage.anchor \notin cleared
  BY <1>1 DEF ClauseVars
<1>3. \A k \in 1..Len(stage.clauses) : Binds(stage.clauses[k]) \subseteq ClauseVars(stage.clauses[k])
  BY DEF Binds, ClauseVars
<1> QED BY <1>2, <1>3 DEF StageVars, BoundBy

\* Fewer stages, and of the bindings those they are about: as borne out, when
\* there is no window to open again
LEMMA BorneLess ==
  ASSUME StepwiseLibrary, NEW i \in DOMAIN Library, Library[i].negations = {},
         NEW g, NEW at, NEW told, NEW passed \in SUBSET (1..StageCount(Library[i])),
         NEW b, NEW ivs, BorneOut(g, at, told, i, passed, b, ivs),
         NEW less \in SUBSET passed, NEW cleared,
         \A s \in less : \A k \in 1..Len(Library[i].stages[s].clauses) :
           ClauseVars(Library[i].stages[s].clauses[k]) \cap cleared = {}
  PROVE  BorneOut(g, at, told, i, less, Within(b, DOMAIN b \ cleared), ivs)
<1> DEFINE p == Library[i]
           m == Within(b, DOMAIN b \ cleared)
<1>1. DOMAIN m = DOMAIN b \ cleared /\ Extends(b, m) /\ IsMap(m)
  BY DEF Extends, IsMap, Within
<1>2. /\ DOMAIN b \subseteq PatternVars(p)
      /\ IsMap(ivs) /\ DOMAIN ivs \subseteq AnchorsOf(p, 1..StageCount(p))
      /\ \A x \in DOMAIN ivs : ivs[x].start \in Int /\ ivs[x].start <= at
      /\ \A t \in passed : Happened(g, told, p.stages[t], b, ivs)
  BY DEF BorneOut
<1> HIDE DEF m
<1>3. ASSUME NEW t \in less
      PROVE  Happened(g, told, p.stages[t], m, ivs)
  <2> DEFINE st == p.stages[t]
             T == {st.clauses[k] : k \in DOMAIN st.clauses}
  <2>1. StageVars(st) \subseteq DOMAIN b /\ st.anchor \in DOMAIN ivs
    BY <1>2 DEF Happened
  <2>2. PICK j \in told : Fits(g, st, g[j], b) /\ ivs[st.anchor] = g[j].interval
    BY <1>2 DEF Happened
  <2>3. t \in 1..StageCount(p)
    OBVIOUS
  <2>4. st.clauses \in Seq(T)
    BY <2>3, ClauseFacts
  <2>5. AboutOneEvent(st)
    BY <2>3 DEF StepwiseLibrary, StepwisePattern
  <2>6. \A k \in 1..Len(st.clauses) : ClauseVars(st.clauses[k]) \cap cleared = {}
    OBVIOUS
  <2> HIDE DEF st, T
  <2>7. StageVars(st) \cap cleared = {} /\ Len(st.clauses) \in Nat
    BY <2>4, <2>5, <2>6, StageVarsOfClauses, LenProperties
  <2>8. StageVars(st) \subseteq DOMAIN m
    BY <1>1, <2>1, <2>7
  <2>9. Fits(g, st, g[j], m)
    BY <1>1, <2>2, <2>5, <2>7, <2>8, FitsGrows
  <2>10. Happened(g, told, st, m, ivs)
    BY <2>1, <2>2, <2>8, <2>9 DEF Happened
  <2> QED BY <2>10 DEF st
<1>4. Calm(g, at, told, i, ivs, m)
  BY DEF Calm
<1>5. DOMAIN m \subseteq PatternVars(p)
  BY <1>1, <1>2
<1>6. BorneOut(g, at, told, i, less, m, ivs)
  BY <1>1, <1>2, <1>3, <1>4, <1>5, Zenon DEF BorneOut, p
<1> QED BY <1>6 DEF m

\* A match that loops is borne out in the stages before its repeat
LEMMA LoopedBorne ==
  ASSUME BlockLibrary, AnchoredLibrary, StepwiseLibrary, LastingLibrary, EventVocabulary,
         TypeOK, EventsInOrder,
         NEW n \in DOMAIN graph, graph[n].interval.start = now,
         NEW pm \in Active, Sequenced(pm), VouchedMatch(pm, graph, notified),
         BorneMatch(pm, graph, now, notified \cup {n}),
         NEW s \in TryStages(pm, graph[n]),
         NEW rr \in Library[pm.pattern_idx].repeat_range, Looping(pm, s)
  PROVE  BorneMatch(LoopedMatch(pm, s, graph[n], rr), graph, now, notified \cup {n})
<1> DEFINE i == pm.pattern_idx
           p == Library[pm.pattern_idx]
           e == graph[n]
           m == AdvancedMatch(pm, s, e)
           l == LoopedMatch(pm, s, e, rr)
           all == 1..StageCount(p)
           less == PassedBy(p, rr.stage_start, {})
           told == notified \cup {n}
<1>1. i \in DOMAIN Library /\ DOMAIN pm = MatchFields /\ StageCount(p) \in Nat
  BY ActiveUnfinished, StageFacts DEF IsMatch
<1>2. m.pattern_idx = i /\ m.next_stage = NextStage(p, s, pm.matched_stages)
  BY <1>1 DEF AdvancedMatch, MatchFields
<1>3. Sequenced(m) /\ BorneMatch(m, graph, now, told)
  BY AdvancedSequenced, AdvancedBorne
<1>4. PastEnd(i, m.next_stage) /\ m.next_stage \in Nat
  BY <1>1, <1>2, <1>3 DEF Looping, Sequenced, AtSegment
<1>5. BorneOut(graph, now, told, i, all, m.bindings, m.intervals)
  BY <1>1, <1>2, <1>3, <1>4, PastEndPassedAll DEF BorneMatch
<1>6. /\ l.pattern_idx = i /\ l.next_stage = rr.stage_start
      /\ l.matched_stages = {} /\ l.intervals = m.intervals
      /\ l.bindings = [x \in DOMAIN m.bindings \ LoopVars(p, rr) |-> m.bindings[x]]
  <2>1. DOMAIN m = MatchFields /\ m.bindings = Extended(i, s, e, pm.bindings)
    BY <1>1 DEF AdvancedMatch, MatchFields
  <2> HIDE DEF m
  <2> QED BY <1>2, <2>1, Zenon DEF LoopedMatch, MatchFields, m
<1>7. rr.stage_start \in all
  BY <1>1, StageFacts
<1>8. less \in SUBSET all /\ \A t \in less : t \in 1..(rr.stage_start - 1)
  BY <1>7 DEF PassedBy
<1>9. \A t \in less : \A k \in 1..Len(p.stages[t].clauses) :
        ClauseVars(p.stages[t].clauses[k]) \cap LoopVars(p, rr) = {}
  BY <1>1, <1>8 DEF AnchoredLibrary, AnchoredPattern
<1>10. p.negations = {}
  BY <1>1 DEF LastingLibrary, LastingPattern
<1>11. all \in SUBSET (1..StageCount(p))
  OBVIOUS
<1> HIDE DEF m, l, less, all, told
<1>12. BorneOut(graph, now, told, i, less, Within(m.bindings, DOMAIN m.bindings \ LoopVars(p, rr)),
                m.intervals)
  BY <1>1, <1>5, <1>8, <1>9, <1>10, <1>11, BorneLess
<1>13. l.bindings = Within(m.bindings, DOMAIN m.bindings \ LoopVars(p, rr))
  BY <1>6 DEF Within
<1> QED BY <1>6, <1>12, <1>13 DEF BorneMatch, less, l, told

\* Whatever an attempt makes is borne out
LEMMA MadeBorne ==
  ASSUME BlockLibrary, AnchoredLibrary, StepwiseLibrary, LastingLibrary, EventVocabulary,
         TypeOK, IdsUnique, AllSequenced, AllVouched, EventsInOrder, AllBorneOut,
         NEW n \in DOMAIN graph, graph[n].interval.start = now, NEW k \in Attempts(graph[n])
  PROVE  BorneMatch(Made(graph[n], k), graph, now, notified \cup {n})
<1> DEFINE e == graph[n]
           told == notified \cup {n}
<1>1. CASE k \in Initiations(e)
  <2>1. PICK i \in Pats : Library[i].stages # << >> /\
               \E s \in Segment(Library[i], 1) :
                 Matches(i, s, e, NoBindings) /\ k = <<0, i, s, 0>>
    BY <1>1, Zenon DEF Initiations
  <2>2. PICK s \in Segment(Library[i], 1) : Matches(i, s, e, NoBindings) /\ k = <<0, i, s, 0>>
    BY <2>1
  <2>3. Made(e, k) = Initiated(i, s, e)
    BY <2>2 DEF Made
  <2> QED BY <2>1, <2>2, <2>3, InitiatedBorne
<1>2. CASE k \in Advances(e)
  <2>1. PICK pm \in Advancing(e) : \E s \in TryStages(pm, e) : \E br \in Branches(pm, s, e) :
               k = <<1, pm.id, s, br>> /\ Parent(k) = pm
    BY <1>2, ParentOfAdvance
  <2>2. PICK s \in TryStages(pm, e) : \E br \in Branches(pm, s, e) : k = <<1, pm.id, s, br>>
    BY <2>1
  <2>3. PICK br \in Branches(pm, s, e) : k = <<1, pm.id, s, br>>
    BY <2>2
  <2>4. pm \in Active /\ pm \notin Killed(e) /\ Sequenced(pm) /\ VouchedMatch(pm, graph, notified)
    BY DEF Advancing, Active, AllSequenced, AllVouched
  <2>5. BorneMatch(pm, graph, now, told)
    <3>1. BorneMatch(pm, graph, now, notified)
      BY <2>4 DEF AllBorneOut
    <3> QED BY <2>4, <3>1, SparedBorne
  <2>6. br \in {0, 1} /\ (br = 1 => Library[pm.pattern_idx].repeat_range # {})
    BY BranchParts
  <2>7. k[1] = 1 /\ k[3] = s /\ k[4] = br /\ Parent(k) = pm
    BY <2>1, <2>3
  <2>8. CASE br = 0
    <3>1. Made(e, k) = AdvancedMatch(pm, s, e)
      BY <2>7, <2>8 DEF Made
    <3> QED BY <2>4, <2>5, <3>1, AdvancedBorne
  <2>9. CASE br = 1
    <3> DEFINE rr == CHOOSE r \in Library[pm.pattern_idx].repeat_range : TRUE
    <3>1. rr \in Library[pm.pattern_idx].repeat_range
      BY <2>6, <2>9
    <3>2. Looping(pm, s)
      BY <2>9 DEF Branches
    <3>3. Made(e, k) = LoopedMatch(Parent(k), k[3], e,
                                   CHOOSE r \in Library[Parent(k).pattern_idx].repeat_range : TRUE)
      BY <2>7, <2>9 DEF Made
    <3>4. Made(e, k) = LoopedMatch(pm, s, e, rr)
      BY <2>7, <3>3
    <3> HIDE DEF rr
    <3> QED BY <2>4, <2>5, <3>1, <3>2, <3>4, LoopedBorne
  <2> QED BY <2>6, <2>8, <2>9
<1> QED BY <1>1, <1>2 DEF Attempts

\* ... and so is all a call writes
LEMMA NewBorne ==
  ASSUME BlockLibrary, AnchoredLibrary, StepwiseLibrary, LastingLibrary, EventVocabulary,
         TypeOK, IdsUnique, AllSequenced, AllVouched, EventsInOrder, AllBorneOut,
         NEW n \in DOMAIN graph, graph[n].interval.start = now,
         NEW m \in NewMatches(MatchesMade(graph[n]))
  PROVE  BorneMatch(m, graph, now, notified \cup {n})
<1> DEFINE made == MatchesMade(graph[n])
           told == notified \cup {n}
<1>1. PICK k \in KeptOf(made) : m = [made[k] EXCEPT !.id = IdOf(made, k)]
  BY Zenon DEF NewMatches
<1>2. k \in Attempts(graph[n]) /\ made[k] = Made(graph[n], k)
  BY BornFacts
<1>3. BorneMatch(made[k], graph, now, told) /\ DOMAIN made[k] = MatchFields
  BY <1>2, MadeBorne, MadeIsMatch DEF GoodMatch, IsMatch
<1> HIDE DEF made
<1>4. /\ m.pattern_idx = made[k].pattern_idx /\ m.next_stage = made[k].next_stage
      /\ m.matched_stages = made[k].matched_stages /\ m.intervals = made[k].intervals
      /\ m.bindings = made[k].bindings
  BY <1>1, <1>3 DEF MatchFields
<1> HIDE DEF told
<1> QED BY <1>3, <1>4, Zenon DEF BorneMatch, told

\* An event told leaves every match in progress borne out
LEMMA NotifyBorne ==
  ASSUME BlockLibrary, AnchoredLibrary, StepwiseLibrary, LastingLibrary, EventVocabulary,
         Inv, AllSequenced, AllVouched, EventsInOrder, AllBorneOut,
         NEW n \in DOMAIN graph, NotifyNext(n)
  PROVE  AllBorneOut'
<1> DEFINE made == MatchesMade(graph[n])
           told == notified \cup {n}
<1>1. /\ pms' = StoreAfter(graph[n], made) /\ TypeOK /\ IdsUnique
      /\ graph' = graph /\ now' = now /\ notified' = told /\ n \in Pending
  BY DEF NotifyNext, Notify, OnEdgeAdded, Inv
<1>2. graph[n].interval.start = now
  BY <1>1 DEF EventsInOrder
<1>3. \A m \in NewMatches(made) : BorneMatch(m, graph, now, told)
  BY <1>1, <1>2, NewBorne
<1>4. ASSUME NEW pm \in pms', pm.state = "Active"
      PROVE  BorneMatch(pm, graph, now, told)
  <2>1. CASE pm \in NewMatches(made)
    BY <1>3, <2>1
  <2>2. CASE pm \notin NewMatches(made)
    <3>1. pm \in Active /\ pm \notin Killed(graph[n])
      BY <1>1, <1>4, <2>2 DEF StoreAfter, Active
    <3>2. BorneMatch(pm, graph, now, notified)
      BY <3>1 DEF AllBorneOut
    <3> QED BY <1>2, <3>1, <3>2, SparedBorne
  <2> QED BY <2>1, <2>2
<1> HIDE DEF told
<1>5. \A pm \in Active' : BorneMatch(pm, graph', now', notified')
  BY <1>1, <1>4 DEF Active
<1> QED BY <1>5, Zenon DEF AllBorneOut, BorneMatch

\* A batch is later than every edge before it, and changes none
LEMMA BatchLater ==
  ASSUME EventVocabulary, TypeOK, EventsInOrder, NEW es \in Batches, InsertNext(es)
  PROVE  /\ now \in Int /\ now' \in {now, now + 1} /\ notified \subseteq DOMAIN graph
         /\ \A j \in DOMAIN graph : graph'[j] = graph[j] /\ j \in DOMAIN graph'
         /\ \A j \in DOMAIN graph' : j \notin DOMAIN graph =>
              /\ graph'[j] \in Edge /\ graph'[j].interval.start = now + 1
              /\ \A at \in Int : at <= now => ~Covers(graph'[j].interval, at)
<1>1. now \in Int /\ notified \subseteq DOMAIN graph
  BY DEF EventsInOrder, TypeOK
<1>2. \A j \in DOMAIN es : es[j] \in Edge
  <2>1. es \in Seq(Edge)
    BY BatchesAssumption DEF BatchesAssumption
  <2> QED BY <2>1, ElementOfSeq, LenProperties
<1>3. /\ \A j \in DOMAIN graph : graph'[j] = graph[j] /\ j \in DOMAIN graph'
      /\ \A j \in DOMAIN graph' : j \notin DOMAIN graph =>
           graph'[j] \in Edge /\ graph'[j].interval.start = now + 1
      /\ now' \in {now, now + 1}
  BY <1>1, <1>2, InsertFacts
<1>4. ASSUME NEW j \in DOMAIN graph', j \notin DOMAIN graph, NEW at \in Int, at <= now
      PROVE  ~Covers(graph'[j].interval, at)
  <2>1. graph'[j].interval.start = now + 1
    BY <1>3, <1>4
  <2> QED BY <1>1, <1>4, <2>1 DEF Covers
<1> QED BY <1>1, <1>3, <1>4

\* What was an event of a stage stays one
LEMMA FitsLater ==
  ASSUME EventVocabulary, TypeOK, EventsInOrder, NEW es \in Batches, InsertNext(es),
         NEW stage, NEW n \in DOMAIN graph, NEW B, Fits(graph, stage, graph[n], B)
  PROVE  Fits(graph', stage, graph[n], B)
<1> DEFINE at == graph[n].interval.start
<1>1. at \in Int /\ at <= now
  BY EdgesHold
<1>2. ASSUME NEW x, NEW l
      PROVE  EdgesFrom(graph', x, l, at) = EdgesFrom(graph, x, l, at)
  <2>1. \A j \in DOMAIN graph' : j \notin DOMAIN graph => ~Covers(graph'[j].interval, at)
    BY <1>1, BatchLater
  <2>2. \A j \in DOMAIN graph : graph'[j] = graph[j] /\ j \in DOMAIN graph'
    BY BatchLater
  <2>3. \A j : j \in EdgesFrom(graph', x, l, at) <=> j \in EdgesFrom(graph, x, l, at)
    BY <2>1, <2>2 DEF EdgesFrom
  <2> QED BY <2>3 DEF EdgesFrom
<1>3. ASSUME NEW c, FitsClause(graph, c, at, B)
      PROVE  FitsClause(graph', c, at, B)
  <2> DEFINE from == EdgesFrom(graph, B[c.source], c.label, at)
  <2>1. EdgesFrom(graph', B[c.source], c.label, at) = from
    BY <1>2
  <2>2. \A j \in from : graph'[j].target = graph[j].target
    BY BatchLater DEF EdgesFrom
  <2> HIDE DEF from
  <2>3. {j \in from : TargetAccepts(c.target, graph'[j].target, B)}
          = {j \in from : TargetAccepts(c.target, graph[j].target, B)}
    BY <2>2
  <2> QED BY <1>3, <2>1, <2>3, Zenon DEF FitsClause, from
<1> QED BY <1>3 DEF Fits

\* A batch completes no negation with an edge told before it
LEMMA TriggeredBefore ==
  ASSUME EventVocabulary, TypeOK, EventsInOrder, NEW es \in Batches, InsertNext(es),
         NEW p, NEW neg, AboutAnotherEvent(p, neg), NEW B, NEW j \in notified,
         NegationTriggered(graph', now', neg, B, graph[j])
  PROVE  NegationTriggered(graph, now, neg, B, graph[j])
<1> DEFINE e == graph[j]
<1>1. j \in DOMAIN graph /\ e.label \in HeadLabels
  BY BatchLater DEF EventsInOrder
<1>2. e \in Edge /\ e.interval.start <= now /\ e.interval.start \in Int /\ now \in Int
  BY <1>1, EdgesHold
<1>3. ASSUME NEW l, NEW x \in Scan(graph', l, now'), x.source = e.source
      PROVE  x \in Scan(graph, l, now)
  <2>1. PICK m \in DOMAIN graph' : x = graph'[m] /\ x.label = l
    BY <1>3 DEF Scan
  <2>2. m \in DOMAIN graph
    <3> SUFFICES ASSUME m \notin DOMAIN graph
                 PROVE  FALSE
      OBVIOUS
    <3>1. x \in Edge /\ x.interval.start = now + 1
      BY <2>1, BatchLater
    <3>2. e.interval.start = x.interval.start
      BY <1>1, <1>2, <1>3, <3>1 DEF EventVocabulary
    <3> QED BY <1>2, <3>1, <3>2
  <2>3. x = graph[m]
    BY <2>1, <2>2, BatchLater
  <2>4. Covers(graph[m].interval, now)
    BY <2>2, EdgesHold
  <2> QED BY <2>1, <2>2, <2>3, <2>4 DEF Scan
<1>4. PICK i \in DOMAIN neg.clauses :
        LET c == neg.clauses[i]
        IN  /\ c.label = e.label
            /\ TargetAccepts(c.target, e.target, B)
            /\ BoundToNode(B, c.source) => B[c.source] = e.source
            /\ \A k \in DOMAIN neg.clauses \ {i} : OtherHolds(graph', now', B, c, e, neg.clauses[k])
  BY DEF NegationTriggered
<1>5. ASSUME NEW k \in DOMAIN neg.clauses \ {i}
      PROVE  OtherHolds(graph, now, B, neg.clauses[i], e, neg.clauses[k])
  <2> DEFINE c == neg.clauses[i]
             other == neg.clauses[k]
  <2>1. other.source = c.source
    BY DEF AboutAnotherEvent
  <2>2. OtherHolds(graph', now', B, c, e, other)
    BY <1>4
  <2> HIDE DEF c, other, e
  <2>3. PICK x \in Scan(graph', other.label, now') : x.source = e.source /\ TargetAccepts(other.target, x.target, B)
    BY <2>1, <2>2 DEF OtherHolds
  <2>4. x \in Scan(graph, other.label, now)
    BY <1>3, <2>3 DEF e
  <2>5. OtherHolds(graph, now, B, c, e, other)
    BY <2>1, <2>3, <2>4 DEF OtherHolds
  <2> QED BY <2>5 DEF c, other, e
<1> QED BY <1>4, <1>5 DEF NegationTriggered

\* A batch leaves what is borne out so
LEMMA InsertBorne ==
  ASSUME StepwiseLibrary, EventVocabulary, TypeOK, EventsInOrder,
         NEW es \in Batches, InsertNext(es), NEW pm \in Active, BorneMatch(pm, graph, now, notified)
  PROVE  BorneMatch(pm, graph', now', notified)
<1> DEFINE i == pm.pattern_idx
           p == Library[i]
           b == pm.bindings
           ivs == pm.intervals
           passed == PassedBy(p, pm.next_stage, pm.matched_stages)
<1>1. i \in DOMAIN Library
  BY ActiveUnfinished
<1>2. BorneOut(graph, now, notified, i, passed, b, ivs)
  BY DEF BorneMatch
<1>3. /\ IsMap(b) /\ DOMAIN b \subseteq PatternVars(p)
      /\ IsMap(ivs) /\ DOMAIN ivs \subseteq AnchorsOf(p, 1..StageCount(p))
      /\ \A x \in DOMAIN ivs : ivs[x].start \in Int /\ ivs[x].start <= now
      /\ \A s \in passed : Happened(graph, notified, p.stages[s], b, ivs)
      /\ p.negations # {} =>
           \A s \in 1..StageCount(p) : p.stages[s].anchor \in DOMAIN ivs => s \in passed
      /\ Calm(graph, now, notified, i, ivs, b)
  BY <1>2 DEF BorneOut
<1>4. now \in Int /\ now' \in {now, now + 1} /\ \A j \in notified : j \in DOMAIN graph /\ graph'[j] = graph[j]
  BY BatchLater
<1>5. \A x \in DOMAIN ivs : ivs[x].start \in Int /\ ivs[x].start <= now'
  BY <1>3, <1>4
<1>6. ASSUME NEW st, Happened(graph, notified, st, b, ivs)
      PROVE  Happened(graph', notified, st, b, ivs)
  <2>1. PICK j \in notified : Fits(graph, st, graph[j], b) /\ ivs[st.anchor] = graph[j].interval
    BY <1>6 DEF Happened
  <2> HIDE DEF b, ivs
  <2>2. Fits(graph', st, graph'[j], b)
    BY <1>4, <2>1, FitsLater
  <2>3. ivs[st.anchor] = graph'[j].interval
    BY <1>4, <2>1
  <2> QED BY <1>6, <2>2, <2>3 DEF Happened
<1>7. ASSUME NEW neg \in p.negations, neg.between_start \in DOMAIN ivs, NEW j \in notified,
             InWindow(neg, ivs, graph'[j].interval)
      PROVE  ~NegationTriggered(graph', now', neg, b, graph'[j])
  <2>1. InWindow(neg, ivs, graph[j].interval)
    BY <1>4, <1>7
  <2>2. ~NegationTriggered(graph, now, neg, b, graph[j])
    BY <1>3, <1>7, <2>1 DEF Calm
  <2>3. AboutAnotherEvent(p, neg)
    BY <1>1 DEF StepwiseLibrary, StepwisePattern
  <2> HIDE DEF b, ivs, p
  <2>4. ~NegationTriggered(graph', now', neg, b, graph[j])
    BY <2>2, <2>3, TriggeredBefore
  <2> QED BY <1>4, <2>4
<1>8. Calm(graph', now', notified, i, ivs, b)
  BY <1>7, Zenon DEF Calm
<1> HIDE DEF b, ivs, passed, i
<1>9. BorneOut(graph', now', notified, i, passed, b, ivs)
  BY <1>3, <1>5, <1>6, <1>8, Zenon DEF BorneOut
<1> QED BY <1>9, Zenon DEF BorneMatch, b, ivs, passed, i

\* Whatever the caller does, every match in progress stays borne out
LEMMA BorneKept ==
  ASSUME BlockLibrary, AnchoredLibrary, StepwiseLibrary, LastingLibrary, EventVocabulary,
         Inv, AllSequenced, AllVouched, EventsInOrder, AllBorneOut,
         [OrderedNext \/ DrainCompleted]_vars
  PROVE  AllBorneOut'
<1>1. TypeOK
  BY DEF Inv
<1>2. ASSUME NEW es \in Batches, InsertNext(es)
      PROVE  AllBorneOut'
  <2>1. UNCHANGED <<notified, pms>>
    BY <1>2 DEF InsertNext, Insert, matches
  <2>2. \A pm \in Active : BorneMatch(pm, graph', now', notified)
    <3>1. ASSUME NEW pm \in Active
          PROVE  BorneMatch(pm, graph, now, notified)
      BY DEF AllBorneOut
    <3> QED BY <1>1, <1>2, <3>1, InsertBorne
  <2>3. \A pm \in Active' : BorneMatch(pm, graph', now', notified')
    BY <2>1, <2>2 DEF Active
  <2> QED BY <2>3, Zenon DEF AllBorneOut, BorneMatch
<1>3. ASSUME NEW n \in DOMAIN graph, NotifyNext(n)
      PROVE  AllBorneOut'
  BY <1>3, NotifyBorne
<1>4. CASE UNCHANGED <<graph, now, notified>> /\ Active' \subseteq Active
  <2>1. \A pm \in Active' : BorneMatch(pm, graph', now', notified')
    BY <1>4 DEF AllBorneOut
  <2> QED BY <2>1, Zenon DEF AllBorneOut, BorneMatch
<1>5. DrainCompleted \/ Register \/ UNCHANGED vars =>
        UNCHANGED <<graph, now, notified>> /\ Active' \subseteq Active
  BY DEF DrainCompleted, Register, vars, dataSource, matches, Active
<1> QED BY <1>2, <1>3, <1>4, <1>5 DEF OrderedNext

\* At first nothing is in progress
LEMMA InitBorne ==
  ASSUME Init
  PROVE  AllBorneOut
BY DEF Init, AllBorneOut, Active

-----------------------------------------------------------------------------
(* What is borne out batch evaluation finds *)

\* What fitted when the event began fits now
LEMMA FitsNow ==
  ASSUME EventVocabulary, TypeOK, EventsInOrder, NEW stage, AboutOneEvent(stage),
         NEW T, stage.clauses \in Seq(T),
         NEW n \in DOMAIN graph, graph[n].label \in HeadLabels, NEW B, Fits(graph, stage, graph[n], B),
         \/ graph[n].interval.start = now
         \/ \A k \in 1..Len(stage.clauses) :
              stage.clauses[k].negated => stage.clauses[k].source = stage.anchor,
         NEW k \in 2..Len(stage.clauses)
  PROVE  FitsClause(graph, stage.clauses[k], now, B)
<1> DEFINE c == stage.clauses[k]
           e == graph[n]
           at == e.interval.start
<1>1. FitsClause(graph, c, at, B) /\ B[stage.anchor] = e.source
  BY DEF Fits
<1>2. k \in 1..Len(stage.clauses)
  BY LenProperties
<1>3. CASE at = now
  BY <1>1, <1>3
<1>4. CASE at # now
  <2>1. c.source = stage.anchor
    BY <1>2, <1>4, ClauseAboutEvent
  <2>2. \A j \in DOMAIN graph : graph[j].source = e.source =>
          (Covers(graph[j].interval, at) <=> Covers(graph[j].interval, now))
    <3> SUFFICES ASSUME NEW j \in DOMAIN graph, graph[j].source = e.source
                 PROVE  Covers(graph[j].interval, at) <=> Covers(graph[j].interval, now)
      OBVIOUS
    <3>1. graph[j].interval.start = at
      BY EdgesOfEvent
    <3>2. at \in Int /\ at <= now /\ \A t : Covers(graph[j].interval, t) <=> at <= t
      BY <3>1, EdgesHold
    <3> QED BY <3>2
  <2>3. \A l : \A j : j \in EdgesFrom(graph, e.source, l, at) <=> j \in EdgesFrom(graph, e.source, l, now)
    BY <2>2 DEF EdgesFrom
  <2> DEFINE then == EdgesFrom(graph, e.source, c.label, at)
             today == EdgesFrom(graph, e.source, c.label, now)
  <2>4. then = today
    BY <2>3 DEF EdgesFrom
  <2>5. B[c.source] = e.source
    BY <1>1, <2>1
  <2> HIDE DEF then, today
  <2>6. then = EdgesFrom(graph, B[c.source], c.label, at) /\ today = EdgesFrom(graph, B[c.source], c.label, now)
    BY <2>5 DEF then, today
  <2> HIDE DEF c, at
  <2>7. FitsClause(graph, c, now, B)
    BY <1>1, <2>4, <2>6, Zenon DEF FitsClause
  <2> QED BY <2>7 DEF c
<1> QED BY <1>3, <1>4

\* Under what is bound so far a clause that fits is satisfied, and binds what B does
LEMMA SatisfyFollows ==
  ASSUME NEW g \in Seq(Edge), NEW c, NEW at, NEW B, NEW W, W \subseteq DOMAIN B,
         c.source \in W, Binds(c) \subseteq DOMAIN B, c.negated \in BOOLEAN,
         c.target.kind = "in" \/ (c.target.kind = "bind" /\ ~c.negated),
         ~c.negated => OneOfALabel(g, B[c.source]),
         FitsClause(g, c, at, B)
  PROVE  SatisfyClause(g, c, Within(B, W), at) = {Within(B, W \cup Binds(c))}
<1> DEFINE b == Within(B, W)
           from == EdgesFrom(g, B[c.source], c.label, at)
           found == \E i \in from : TargetAccepts(c.target, g[i].target, b)
<1>1. DOMAIN b = W /\ \A x \in W : b[x] = B[x]
  BY DEF Within
<1>2. BoundToNode(b, c.source) /\ b[c.source] = B[c.source]
  BY <1>1 DEF BoundToNode, FitsClause
<1>3. EdgesFrom(g, b[c.source], c.label, at) = from
  BY <1>2
<1>4. \A v : TargetAccepts(c.target, v, B) => TargetAccepts(c.target, v, b)
  BY <1>1 DEF TargetAccepts, Resolvable, ConstraintAccepts
<1>5. c.target.kind = "in" => \A v : TargetAccepts(c.target, v, b) => TargetAccepts(c.target, v, B)
  BY DEF TargetAccepts, Resolvable, ConstraintAccepts
<1>6. found <=> ~c.negated
  <2> DEFINE hits == {j \in from : TargetAccepts(c.target, g[j].target, B)}
  <2>1. (c.negated => hits = {}) /\ (~c.negated => hits # {})
    BY DEF FitsClause
  <2>2. CASE c.negated
    <3>1. ~found
      BY <1>5, <2>1, <2>2
    <3> HIDE DEF found
    <3> QED BY <2>2, <3>1, Zenon
  <2>3. CASE ~c.negated
    <3>1. found
      BY <1>4, <2>1, <2>3
    <3> HIDE DEF found
    <3> QED BY <2>3, <3>1, Zenon
  <2> QED BY <2>2, <2>3
<1>7. SatisfyClause(g, c, b, at) = {IF from = {} THEN b ELSE BindNew(c.target, FirstOf(g, from).target, b)}
  <2> DEFINE new == IF from = {} THEN b ELSE BindNew(c.target, FirstOf(g, from).target, b)
  <2>1. SatisfyClause(g, c, b, at) = IF ~BoundToNode(b, c.source) \/ found = c.negated THEN {} ELSE {new}
    BY <1>3, Zenon DEF SatisfyClause
  <2>2. ~(found = c.negated)
    <3> HIDE DEF found
    <3>1. CASE c.negated = TRUE
      BY <1>6, <3>1, Zenon
    <3>2. CASE c.negated = FALSE
      BY <1>6, <3>2, Zenon
    <3> QED BY <3>1, <3>2, Zenon
  <2> HIDE DEF new, found
  <2> QED BY <1>2, <2>1, <2>2 DEF new
<1>8. CASE c.target.kind = "in"
  <2>1. Binds(c) = {} /\ \A v : BindNew(c.target, v, b) = b
    BY <1>8 DEF Binds, BindNew
  <2>2. W \cup Binds(c) = W
    BY <2>1
  <2> HIDE DEF from, b
  <2>3. SatisfyClause(g, c, b, at) = {b}
    BY <1>7, <2>1
  <2> QED BY <2>2, <2>3 DEF b
<1>9. CASE c.target.kind = "bind" /\ ~c.negated
  <2> DEFINE x == c.target.var
  <2>1. Binds(c) = {x} /\ x \in DOMAIN B
    BY <1>9 DEF Binds
  <2>2. PICK j \in from : TargetAccepts(c.target, g[j].target, B)
    BY <1>9 DEF FitsClause
  <2>3. j \in DOMAIN g /\ g[j].target = B[x] /\ from # {} /\ g[j].source = B[c.source] /\ g[j].label = c.label
    BY <1>9, <2>1, <2>2 DEF TargetAccepts, EdgesFrom
  <2>4. from \subseteq Nat /\ \A i \in from : i \in DOMAIN g /\ g[i].source = B[c.source] /\ g[i].label = c.label
    BY LenProperties DEF EdgesFrom
  <2>5. \A i \in from : g[i].target = B[x]
    BY <1>9, <2>3, <2>4 DEF OneOfALabel
  <2>6. PICK i \in from : FirstOf(g, from) = g[i]
    <3> HIDE DEF from
    <3>1. \E i \in from : \A k \in from : i <= k
      BY <2>3, <2>4, LeastNatural
    <3> QED BY <3>1, Zenon DEF FirstOf
  <2>7. SatisfyClause(g, c, b, at) = {BindNew(c.target, B[x], b)}
    <3> HIDE DEF from, b, x
    <3> QED BY <1>7, <2>3, <2>5, <2>6
  <2>8. BindNew(c.target, B[x], b) = Within(B, W \cup {x})
    <3>1. CASE x \in W
      <4>1. BindNew(c.target, B[x], b) = b /\ W \cup {x} = W
        BY <1>1, <3>1 DEF BindNew
      <4> QED BY <4>1
    <3>2. CASE x \notin W
      <4>1. BindNew(c.target, B[x], b) = Overlay(Single(x, B[x]), b)
        BY <1>1, <1>9, <3>2 DEF BindNew
      <4> QED BY <3>2, <4>1 DEF Overlay, Single, Within
    <3> QED BY <3>1, <3>2
  <2> QED BY <2>1, <2>7, <2>8
<1> QED BY <1>8, <1>9

\* So all of a stage's clauses that fit are satisfied
LEMMA RestFollows ==
  ASSUME NEW g \in Seq(Edge), NEW stage, NEW T, stage.clauses \in Seq(T), AboutOneEvent(stage),
         NEW at, NEW B, NEW W, W \subseteq DOMAIN B, stage.anchor \in W, StageVars(stage) \subseteq DOMAIN B,
         OneOfALabel(g, B[stage.anchor]),
         \A k \in 2..Len(stage.clauses) : FitsClause(g, stage.clauses[k], at, B)
  PROVE  RestSatisfied(g, stage, Within(B, W), at) = {Within(B, W \cup StageVars(stage))}
<1> DEFINE n == Len(stage.clauses)
           b == Within(B, W)
           a == stage.anchor
<1>0. n \in Nat /\ n # 0 /\ DOMAIN stage.clauses = 1..n
  BY EmptySeq, LenProperties DEF AboutOneEvent
<1>1. PICK h : /\ h = [i \in 1..n |-> Satisfied(g, stage, at, b, h, i)]
               /\ RestSatisfied(g, stage, b, at) = h[n]
  BY <1>0, RestSteps
<1>2. \A i \in 1..n : h[i] = Satisfied(g, stage, at, b, h, i)
  BY <1>1
<1>3. W \cup BoundBy(stage, 1) = W
  <2>1. Binds(stage.clauses[1]) = {}
    BY <1>0 DEF AboutOneEvent, Binds
  <2>2. BoundBy(stage, 1) = {a} \cup Binds(stage.clauses[1])
    BY DEF BoundBy
  <2> QED BY <2>1, <2>2
<1> DEFINE Follows(j) == h[j] = {Within(B, W \cup BoundBy(stage, j))}
           S == {k \in Nat : k + 1 \in 1..n => Follows(k + 1)}
<1> HIDE DEF b, n, Follows
<1>4. 0 \in S
  <2> SUFFICES ASSUME 1 \in 1..n
               PROVE  Follows(1)
    OBVIOUS
  <2>1. h[1] = {b}
    BY <1>2 DEF Satisfied
  <2> QED BY <1>3, <2>1 DEF Follows, b
<1>5. ASSUME NEW k \in Nat, k \in S
      PROVE  k + 1 \in S
  <2> SUFFICES ASSUME k + 1 + 1 \in 1..n
               PROVE  Follows(k + 1 + 1)
    OBVIOUS
  <2> DEFINE c == stage.clauses[k + 1 + 1]
             V == W \cup BoundBy(stage, k + 1)
  <2>1. k + 1 \in 1..n /\ k + 1 + 1 # 1 /\ k + 1 + 1 - 1 = k + 1 /\ k + 1 + 1 \in 2..n /\ n \in Int
        /\ k + 1 \in Int /\ k + 1 + 1 \in Int /\ k + 1 <= n /\ k + 1 + 1 <= n
    BY <1>0
  <2>2. h[k + 1] = {Within(B, V)}
    BY <1>5, <2>1 DEF Follows
  <2>3. h[k + 1 + 1] = UNION {SatisfyClause(g, c, m, at) : m \in h[k + 1]}
    <3> DEFINE i == k + 1 + 1
    <3>1. i \in 1..n /\ i # 1 /\ i - 1 = k + 1
      BY <2>1
    <3> HIDE DEF i
    <3>2. h[i] = UNION {SatisfyClause(g, stage.clauses[i], d, at) : d \in h[i - 1]}
      BY <1>2, <3>1 DEF Satisfied
    <3>3. h[i] = UNION {SatisfyClause(g, stage.clauses[i], d, at) : d \in h[k + 1]}
      BY <3>1, <3>2
    <3> QED BY <3>3 DEF i
  <2>4. h[k + 1 + 1] = SatisfyClause(g, c, Within(B, V), at)
    <3> HIDE DEF V, c
    <3> QED BY <2>2, <2>3
  <2>5. FitsClause(g, c, at, B)
    BY <2>1 DEF n
  <2>6. /\ c.target.kind = "in" \/ (c.target.kind = "bind" /\ ~c.negated)
        /\ IF c.negated THEN c.source \in BoundBy(stage, k + 1) ELSE c.source = a
        /\ c.negated \in BOOLEAN
    BY <2>1 DEF AboutOneEvent, n
  <2>7. BoundBy(stage, k + 1) \subseteq DOMAIN B /\ BoundBy(stage, k + 1 + 1) \subseteq DOMAIN B
    <3>1. BoundBy(stage, k + 1) \subseteq BoundBy(stage, n)
      BY <2>1, BoundByGrows
    <3>2. BoundBy(stage, k + 1 + 1) \subseteq BoundBy(stage, n)
      BY <2>1, BoundByGrows
    <3> QED BY <3>1, <3>2 DEF StageVars, n
  <2>8. /\ BoundBy(stage, k + 1 + 1) = BoundBy(stage, k + 1) \cup Binds(c) /\ a \in BoundBy(stage, k + 1)
    <3>1. k + 1 \in Nat
      OBVIOUS
    <3> QED BY <3>1, BoundByNext
  <2>9. c.source \in V /\ V \subseteq DOMAIN B /\ Binds(c) \subseteq DOMAIN B
    BY <2>6, <2>7, <2>8
  <2>10. ~c.negated => OneOfALabel(g, B[c.source])
    BY <2>6
  <2>11. SatisfyClause(g, c, Within(B, V), at) = {Within(B, V \cup Binds(c))}
    <3> HIDE DEF V, c
    <3> QED BY <2>5, <2>6, <2>9, <2>10, SatisfyFollows
  <2>12. V \cup Binds(c) = W \cup BoundBy(stage, k + 1 + 1)
    BY <2>8
  <2> HIDE DEF V, c
  <2> QED BY <2>4, <2>11, <2>12 DEF Follows
<1>6. Nat \subseteq S
  <2> HIDE DEF S
  <2> QED BY <1>4, <1>5, Induction
<1>7. n - 1 \in Nat /\ n - 1 + 1 = n /\ n \in 1..n
  BY <1>0
<1>8. h[n] = {Within(B, W \cup BoundBy(stage, n))}
  BY <1>6, <1>7 DEF Follows
<1> QED BY <1>1, <1>8 DEF b, StageVars, n

\* Given what is bound so far, batch evaluation finds the event of a stage and
\* binds what B does
LEMMA StageBatch ==
  ASSUME EventVocabulary, TypeOK, EventsInOrder, NEW stage, AboutOneEvent(stage),
         NEW T, stage.clauses \in Seq(T),
         NEW n \in DOMAIN graph, graph[n].label \in HeadLabels,
         NEW B, NEW W, W \subseteq DOMAIN B, StageVars(stage) \subseteq DOMAIN B,
         Fits(graph, stage, graph[n], B),
         \/ graph[n].interval.start = now
         \/ \A k \in 1..Len(stage.clauses) :
              stage.clauses[k].negated => stage.clauses[k].source = stage.anchor
  PROVE  <<Within(B, W \cup StageVars(stage)), graph[n].interval>>
           \in FindStageMatches(graph, stage, Within(B, W), now)
<1> DEFINE c == stage.clauses[1]
           a == stage.anchor
           e == graph[n]
           b == Within(B, W)
           V == W \cup {a}
<1>1. stage.clauses # << >> /\ 1 \in 1..Len(stage.clauses)
  BY EmptySeq, LenProperties DEF AboutOneEvent
<1>2. c.target.kind = "in" /\ c.source = a
  BY <1>1 DEF AboutOneEvent
<1>3. c.label = e.label /\ e.target \in c.target.vals /\ B[a] = e.source
  BY <1>2 DEF Fits, CouldBe
<1>4. e \in Scan(graph, c.label, now) /\ e.source \in Nodes
  <2>1. e \in Edge /\ Covers(e.interval, now)
    BY EdgesHold
  <2> QED BY <1>3, <2>1, BatchesAssumption DEF Scan, BatchesAssumption
<1>5. DOMAIN b = W /\ \A x \in W : b[x] = B[x]
  BY DEF Within
<1>6. a \in StageVars(stage) /\ V \subseteq DOMAIN B /\ a \in V /\ V \cup StageVars(stage) = W \cup StageVars(stage)
  BY DEF StageVars, BoundBy
<1>7. \A v \in c.target.vals : TargetAccepts(c.target, v, b) /\ ConstraintAccepts(c.target, v, b)
  BY <1>2 DEF TargetAccepts, Resolvable, ConstraintAccepts
<1>8. PICK first \in FirstCandidates(graph, stage, b, now) :
        first[2] = e.interval /\ Overlay(first[1], b) = Within(B, V)
  <2>1. CASE a \in W
    <3> DEFINE first == <<BindNew(c.target, e.target, NoBindings), e.interval>>
    <3>1. FirstCandidates(graph, stage, b, now)
            = {<<BindNew(c.target, x.target, NoBindings), x.interval>> :
                 x \in {y \in Scan(graph, c.label, now) :
                          /\ BoundToNode(b, c.source) /\ y.source = b[c.source]
                          /\ TargetAccepts(c.target, y.target, b)}}
      BY <1>2, <1>5, <2>1 DEF FirstCandidates, Resolvable
    <3>2. BoundToNode(b, c.source) /\ e.source = b[c.source] /\ TargetAccepts(c.target, e.target, b)
      BY <1>2, <1>3, <1>4, <1>5, <1>7, <2>1 DEF BoundToNode
    <3>3. first \in FirstCandidates(graph, stage, b, now)
      <4> HIDE DEF e, b, c
      <4> QED BY <1>4, <3>1, <3>2
    <3>4. first[1] = NoBindings
      BY <1>2 DEF BindNew
    <3>5. Overlay(NoBindings, b) = Within(B, V)
      <4>1. V = W
        BY <2>1
      <4> QED BY <4>1 DEF Overlay, NoBindings, Within
    <3>6. first[2] = e.interval
      OBVIOUS
    <3> HIDE DEF first, b, e, V
    <3> QED BY <3>3, <3>4, <3>5, <3>6
  <2>2. CASE a \notin W
    <3> DEFINE first == <<BindNew(c.target, e.target, [x \in {c.source, a} |-> e.source]), e.interval>>
    <3>1. FirstCandidates(graph, stage, b, now)
            = {<<BindNew(c.target, y.target, [x \in {c.source, a} |-> y.source]), y.interval>> :
                 y \in {z \in Scan(graph, c.label, now) :
                          /\ ConstraintAccepts(c.target, z.target, b)
                          /\ c.target.kind = "bind" /\ c.target.var \in {c.source, a}
                               => z.target = z.source}}
      BY <1>2, <1>5, <2>2 DEF FirstCandidates, Resolvable
    <3>2. ConstraintAccepts(c.target, e.target, b)
      BY <1>3, <1>7
    <3>3. first \in FirstCandidates(graph, stage, b, now)
      <4> HIDE DEF e, b
      <4> QED BY <1>2, <1>4, <3>1, <3>2
    <3>4. first[1] = Single(a, e.source)
      BY <1>2 DEF BindNew, Single
    <3>5. Overlay(Single(a, e.source), b) = Within(B, V)
      BY <1>3, <1>5, <2>2 DEF Overlay, Single, Within
    <3>6. first[2] = e.interval
      OBVIOUS
    <3> HIDE DEF first, b, e, V
    <3> QED BY <3>3, <3>4, <3>5, <3>6
  <2> QED BY <2>1, <2>2
<1>9. RestSatisfied(graph, stage, Within(B, V), now) = {Within(B, V \cup StageVars(stage))}
  <2>1. graph \in Seq(Edge)
    BY DEF TypeOK
  <2>2. OneOfALabel(graph, B[a])
    BY <1>3, EdgesOfEvent
  <2>3. \A k \in 2..Len(stage.clauses) : FitsClause(graph, stage.clauses[k], now, B)
    BY FitsNow
  <2> HIDE DEF V
  <2> QED BY <1>6, <2>1, <2>2, <2>3, RestFollows
<1>10. FindStageMatches(graph, stage, b, now)
         = UNION {{<<m, new[2]>> : m \in RestSatisfied(graph, stage, Overlay(new[1], b), now)}
                  : new \in FirstCandidates(graph, stage, b, now)}
  BY <1>1 DEF FindStageMatches
<1>11. Within(B, W \cup StageVars(stage)) \in RestSatisfied(graph, stage, Overlay(first[1], b), now)
  BY <1>6, <1>8, <1>9
<1> DEFINE pair == <<Within(B, W \cup StageVars(stage)), graph[n].interval>>
<1>12. pair \in {<<m, first[2]>> : m \in RestSatisfied(graph, stage, Overlay(first[1], b), now)}
  <2> HIDE DEF b
  <2> QED BY <1>8, <1>11
<1> HIDE DEF pair, b
<1>13. pair \in FindStageMatches(graph, stage, b, now)
  BY <1>10, <1>12
<1> QED BY <1>13 DEF pair, b

\* The way of B and ivs through the first s stages
WayOf(p, s, B, ivs) ==
  [bindings |-> Within(B, VarsOf(p, 1..s)), intervals |-> Within(ivs, AnchorsOf(p, 1..s))]

\* The stages of a pattern do not stop being matched
Settled(p) ==
  \A s \in 1..StageCount(p) : \A k \in 1..Len(p.stages[s].clauses) :
    p.stages[s].clauses[k].negated => p.stages[s].clauses[k].source = p.stages[s].anchor

\* Batch evaluation goes the way on which every stage happened
LEMMA CascadeFollows ==
  ASSUME EventVocabulary, TypeOK, EventsInOrder, NEW p, Searchable(p),
         NEW told, told \subseteq DOMAIN graph,
         \A j \in told : graph[j].label \in HeadLabels, NEW B, NEW ivs,
         \A s \in 1..StageCount(p) : Happened(graph, told, p.stages[s], B, ivs),
         Settled(p) \/ \A x \in DOMAIN ivs : ivs[x].start = now
  PROVE  WayOf(p, StageCount(p), B, ivs) \in StageCascade(graph, p, now)
<1> DEFINE N == StageCount(p)
           Gone(s) == WayOf(p, s, B, ivs)
<1>0. N \in Nat
  BY DEF Searchable, Blocks
<1>1. PICK h : /\ h = [s \in 0..N |-> Continued(graph, p, now, h, s)]
               /\ StageCascade(graph, p, now) = h[N]
  BY <1>0, CascadeSteps
<1>2. \A s \in 0..N : h[s] = Continued(graph, p, now, h, s)
  BY <1>1
<1> DEFINE S == {k \in Nat : k \in 0..N => Gone(k) \in h[k]}
<1> HIDE DEF Gone
<1>3. 0 \in S
  <2>1. h[0] = {[bindings |-> NoBindings, intervals |-> NoBindings]}
    <3>1. 0 \in 0..N
      BY <1>0
    <3>2. h[0] = Continued(graph, p, now, h, 0)
      BY <1>2, <3>1
    <3> QED BY <3>2, Zenon DEF Continued
  <2>2. VarsOf(p, 1..0) = {} /\ AnchorsOf(p, 1..0) = {}
    <3>1. 1..0 = {}
      OBVIOUS
    <3> QED BY <3>1 DEF VarsOf, AnchorsOf
  <2>3. \A f : Within(f, {}) = NoBindings
    BY DEF Within, NoBindings
  <2>4. Gone(0) = [bindings |-> NoBindings, intervals |-> NoBindings]
    BY <2>2, <2>3, Zenon DEF Gone, WayOf
  <2> QED BY <2>1, <2>4
<1>4. ASSUME NEW k \in Nat, k \in S
      PROVE  k + 1 \in S
  <2> SUFFICES ASSUME k + 1 \in 0..N
               PROVE  Gone(k + 1) \in h[k + 1]
    OBVIOUS
  <2> DEFINE s == k + 1
             st == p.stages[s]
             T == {st.clauses[l] : l \in DOMAIN st.clauses}
             W == VarsOf(p, 1..k)
             m == Gone(k)
  <2>1. s \in 0..N /\ s \in 1..N /\ s # 0 /\ s - 1 = k /\ k \in 0..N /\ 1..s = 1..k \cup {s}
    BY <1>0
  <2>2. m \in h[k]
    BY <1>4, <2>1
  <2>3. m.bindings = Within(B, W) /\ m.intervals = Within(ivs, AnchorsOf(p, 1..k))
    BY DEF Gone, WayOf
  <2>4. StageVars(st) \subseteq DOMAIN B /\ st.anchor \in DOMAIN ivs
    BY <2>1 DEF Happened
  <2>5. PICK n \in told : Fits(graph, st, graph[n], B) /\ ivs[st.anchor] = graph[n].interval
    BY <2>1 DEF Happened
  <2>6. n \in DOMAIN graph /\ graph[n].label \in HeadLabels
    OBVIOUS
  <2>7. W \subseteq DOMAIN B
    <3>1. \A t \in 1..k : StageVars(p.stages[t]) \subseteq DOMAIN B
      <4>1. \A t \in 1..k : t \in 1..N
        BY <1>0, <2>1
      <4> QED BY <4>1 DEF Happened
    <3> QED BY <3>1 DEF VarsOf
  <2>8. st.clauses \in Seq(T) /\ AboutOneEvent(st)
    <3>1. SearchableStage(st)
      BY <2>1 DEF Searchable
    <3> HIDE DEF st
    <3> QED BY <3>1 DEF SearchableStage
  <2>9. \/ graph[n].interval.start = now
        \/ \A l \in 1..Len(st.clauses) : st.clauses[l].negated => st.clauses[l].source = st.anchor
    <3>1. CASE \A x \in DOMAIN ivs : ivs[x].start = now
      BY <2>4, <2>5, <3>1
    <3>2. CASE Settled(p)
      BY <2>1, <3>2 DEF Settled
    <3> QED BY <3>1, <3>2
  <2> DEFINE new == <<Within(B, W \cup StageVars(st)), graph[n].interval>>
  <2>10. new \in FindStageMatches(graph, st, m.bindings, now)
    <3> HIDE DEF st, T, W, m
    <3>1. <<Within(B, W \cup StageVars(st)), graph[n].interval>> \in FindStageMatches(graph, st, Within(B, W), now)
      BY <2>4, <2>5, <2>6, <2>7, <2>8, <2>9, StageBatch
    <3> QED BY <2>3, <3>1
  <2>11. VarsOf(p, 1..s) = W \cup StageVars(st) /\ AnchorsOf(p, 1..s) = AnchorsOf(p, 1..k) \cup {st.anchor}
    <3> HIDE DEF s, st
    <3> QED BY <2>1 DEF VarsOf, AnchorsOf, st
  <2>12. Overlay(Single(st.anchor, graph[n].interval), Within(ivs, AnchorsOf(p, 1..k)))
           = Within(ivs, AnchorsOf(p, 1..s))
    <3> DEFINE A == AnchorsOf(p, 1..k)
               a == st.anchor
    <3> HIDE DEF A, a
    <3>1. Overlay(Single(a, graph[n].interval), Within(ivs, A)) = Within(ivs, A \cup {a})
      BY <2>5 DEF Overlay, Single, Within, a
    <3> QED BY <2>11, <3>1, Zenon DEF A, a
  <2>13. Gone(s) = [bindings |-> new[1], intervals |-> Overlay(Single(st.anchor, new[2]), m.intervals)]
    <3>1. new[1] = Within(B, VarsOf(p, 1..s)) /\ new[2] = graph[n].interval
      BY <2>11
    <3>2. Gone(s) = [bindings |-> Within(B, VarsOf(p, 1..s)), intervals |-> Within(ivs, AnchorsOf(p, 1..s))]
      BY Zenon DEF Gone, WayOf
    <3> HIDE DEF new, m, st, s
    <3> QED BY <2>3, <2>12, <3>1, <3>2, Zenon
  <2>14. h[s] = UNION {{[bindings  |-> y[1],
                         intervals |-> Overlay(Single(p.stages[s].anchor, y[2]), x.intervals)]
                        : y \in FindStageMatches(graph, p.stages[s], x.bindings, now)}
                       : x \in h[k]}
    <3> HIDE DEF s
    <3>1. h[s] = UNION {{[bindings  |-> y[1],
                         intervals |-> Overlay(Single(p.stages[s].anchor, y[2]), x.intervals)]
                        : y \in FindStageMatches(graph, p.stages[s], x.bindings, now)}
                       : x \in h[s - 1]}
      BY <1>2, <2>1 DEF Continued
    <3> QED BY <2>1, <3>1
  <2>15. Gone(s) \in {[bindings  |-> y[1],
                       intervals |-> Overlay(Single(p.stages[s].anchor, y[2]), m.intervals)]
                      : y \in FindStageMatches(graph, p.stages[s], m.bindings, now)}
    <3> HIDE DEF new, m, s
    <3> QED BY <2>10, <2>13
  <2>16. Gone(s) \in h[s]
    <3> HIDE DEF m, s
    <3> QED BY <2>2, <2>14, <2>15
  <2> QED BY <2>16
<1>5. Nat \subseteq S
  <2> HIDE DEF S
  <2> QED BY <1>3, <1>4, Induction
<1>6. N \in S /\ N \in 0..N
  BY <1>0, <1>5
<1>7. Gone(N) \in h[N]
  BY <1>6
<1> QED BY <1>1, <1>7 DEF Gone

\* A match borne out in every stage, which no constraint and no negation of the
\* pattern excludes, is one batch evaluation finds
LEMMA BorneInBatch ==
  ASSUME BlockLibrary, EventVocabulary, StepwiseLibrary, LastingLibrary, TypeOK, EventsInOrder,
         NEW i \in DOMAIN Library, Library[i].stages # << >>,
         NEW told, told \subseteq DOMAIN graph, \A j \in told : graph[j].label \in HeadLabels,
         NEW B, NEW ivs, BorneOut(graph, now, told, i, 1..StageCount(Library[i]), B, ivs),
         StageCount(Library[i]) = 1 => \A x \in DOMAIN ivs : ivs[x].start = now,
         CheckTemporal(Library[i], ivs), CheckNegationsBatch(graph, now, Library[i], B, ivs)
  PROVE  [bindings |-> B, intervals |-> ivs] \in BatchMatches(i)
<1> DEFINE p == Library[i]
           N == StageCount(p)
           way == WayOf(p, N, B, ivs)
<1>1. /\ IsMap(B) /\ DOMAIN B \subseteq PatternVars(p)
      /\ IsMap(ivs) /\ DOMAIN ivs \subseteq AnchorsOf(p, 1..N)
      /\ \A s \in 1..N : Happened(graph, told, p.stages[s], B, ivs)
  BY DEF BorneOut
<1>2. DOMAIN B = VarsOf(p, 1..N) /\ DOMAIN ivs = AnchorsOf(p, 1..N)
  <2>1. \A s \in 1..N : StageVars(p.stages[s]) \subseteq DOMAIN B /\ p.stages[s].anchor \in DOMAIN ivs
    BY <1>1 DEF Happened
  <2> HIDE DEF p, N
  <2>2. VarsOf(p, 1..N) \subseteq DOMAIN B /\ AnchorsOf(p, 1..N) \subseteq DOMAIN ivs
    BY <2>1 DEF VarsOf, AnchorsOf
  <2>3. DOMAIN B \subseteq VarsOf(p, 1..N)
    BY <1>1 DEF PatternVars, N
  <2> QED BY <1>1, <2>2, <2>3
<1>3. way.bindings = B /\ way.intervals = ivs
  <2>1. Within(B, VarsOf(p, 1..N)) = B /\ Within(ivs, AnchorsOf(p, 1..N)) = ivs
    BY <1>1, <1>2, Zenon DEF IsMap
  <2>2. way.bindings = Within(B, VarsOf(p, 1..N)) /\ way.intervals = Within(ivs, AnchorsOf(p, 1..N))
    BY DEF WayOf
  <2> QED BY <2>1, <2>2, Zenon
<1>4. way \in StageCascade(graph, p, now)
  <2>1. Searchable(p)
    BY LibrarySearchable
  <2>2. Settled(p) \/ N = 1
    BY DEF LastingLibrary, LastingPattern, Settled
  <2> QED BY <1>1, <2>1, <2>2, CascadeFollows
<1> HIDE DEF way
<1>5. way \in EvaluatePattern(graph, p, now)
  BY <1>3, <1>4 DEF EvaluatePattern
<1>6. MatchOf(way) = [bindings |-> B, intervals |-> ivs]
  BY <1>3, Zenon DEF MatchOf
<1> QED BY <1>5, <1>6 DEF BatchMatches

\* A pattern whose first match completes has one stage, and nothing to compare
LEMMA InitiatedAllowed ==
  ASSUME BlockLibrary, LastingLibrary, TypeOK, NEW i \in Pats, Library[i].stages # << >>, NEW e,
         NEW s \in Segment(Library[i], 1), Initiated(i, s, e).state = "Complete"
  PROVE  /\ StageCount(Library[i]) = 1
         /\ \A x \in DOMAIN Initiated(i, s, e).intervals :
              Initiated(i, s, e).intervals[x].start = e.interval.start
         /\ CheckTemporal(Library[i], Initiated(i, s, e).intervals)
<1> DEFINE p == Library[i]
           N == StageCount(p)
           next == NextStage(p, s, {})
           ivs == Initiated(i, s, e).intervals
<1>1. i \in DOMAIN Library /\ s \in 1..N /\ N \in Nat
  BY StartedStage, StageFacts
<1>2. 1 \in 1..N /\ AtSegment(p, 1, {}) /\ PassedBy(p, 1, {}) = {}
  <2>1. 1 \in 1..N
    BY <1>1
  <2>2. SegmentStart(p, 1) \in 1..1
    BY <1>1, <2>1, StageFacts, Zenon
  <2> QED BY <1>1, <2>1, <2>2 DEF AtSegment, PassedBy
<1>3. {} \in SUBSET Nat /\ s \notin {}
  OBVIOUS
<1>4. /\ AtSegment(p, next, NewMask(p, s, {}))
      /\ PassedBy(p, next, NewMask(p, s, {})) \subseteq {} \cup {s}
  BY <1>1, <1>2, <1>3, SequenceGrows, Zenon
<1>5. PastEnd(i, next)
  BY DEF Initiated
<1>6. next \in Nat
  BY <1>1, <1>4 DEF AtSegment
<1>7. PassedBy(p, next, NewMask(p, s, {})) = 1..N
  BY <1>1, <1>5, <1>6, PastEndPassedAll
<1> HIDE DEF next
<1>8. 1..N \subseteq {s}
  BY <1>4, <1>7
<1>9. N = 1
  <2>1. 1 \in {s} /\ N \in 1..N /\ N \in {s}
    BY <1>1, <1>2, <1>8
  <2> QED BY <2>1
<1>10. ivs = [x \in {p.stages[s].anchor} |-> e.interval]
  BY DEF Initiated
<1> HIDE DEF ivs
<1>11. StagesOrdered(p, ivs)
  <2>1. ~NextSegment(p, 1, 1)
    <3>1. Segment(p, 1) \subseteq Int
      BY <1>1, <1>2, StageFacts
    <3> QED BY <3>1 DEF NextSegment
  <2> QED BY <1>9, <2>1 DEF StagesOrdered
<1>12. ASSUME NEW tc \in p.temporal
      PROVE  ConstraintHolds(tc, ivs)
  <2>1. tc.left # tc.right
    BY <1>1 DEF LastingLibrary, LastingPattern
  <2>2. ~({tc.left, tc.right} \subseteq DOMAIN ivs)
    BY <1>10, <2>1
  <2> QED BY <2>2 DEF ConstraintHolds
<1>13. CheckTemporal(p, ivs)
  BY <1>11, <1>12, Zenon DEF CheckTemporal
<1> QED BY <1>9, <1>10, <1>13 DEF ivs

\* An edge that satisfies one clause of a negation, where others from the same
\* node satisfy the rest, completes it
LEMMA TriggeredBy ==
  ASSUME NEW p, NEW neg, AboutAnotherEvent(p, neg), NEW B, DOMAIN B \subseteq PatternVars(p),
         NEW src,
         \A k \in DOMAIN neg.clauses :
           \E y \in Scan(graph, neg.clauses[k].label, now) :
             y.source = src /\ TargetAccepts(neg.clauses[k].target, y.target, B),
         NEW k \in DOMAIN neg.clauses, NEW e, e.label = neg.clauses[k].label, e.source = src,
         TargetAccepts(neg.clauses[k].target, e.target, B)
  PROVE  NegationTriggered(graph, now, neg, B, e)
<1>1. ~BoundToNode(B, neg.clauses[k].source)
  BY DEF AboutAnotherEvent, BoundToNode
<1>2. ASSUME NEW j \in DOMAIN neg.clauses
      PROVE  OtherHolds(graph, now, B, neg.clauses[k], e, neg.clauses[j])
  <2>1. neg.clauses[j].source = neg.clauses[k].source
    BY DEF AboutAnotherEvent
  <2>2. \E y \in Scan(graph, neg.clauses[j].label, now) :
          y.source = e.source /\ TargetAccepts(neg.clauses[j].target, y.target, B)
    OBVIOUS
  <2> DEFINE c == neg.clauses[k]
             other == neg.clauses[j]
  <2> HIDE DEF c, other
  <2>3. OtherHolds(graph, now, B, c, e, other)
    BY <2>1, <2>2 DEF OtherHolds, c, other
  <2> QED BY <2>3 DEF c, other
<1> QED BY <1>1, <1>2 DEF NegationTriggered

\* No edge of the graph voids a match that the event just told completes: what
\* the engine was told of disturbs no window, and what it is still to be told
\* of comes with this event and falls in none, or is of an event this one is of
LEMMA CompleteAllowed ==
  ASSUME OneEventEach, EventVocabulary, StepwiseLibrary, LastingLibrary, TypeOK, EventsInOrder,
         NEW i \in DOMAIN Library, NEW n \in Pending, graph[n].label \in StageLabels,
         NEW B, NEW ivs,
         BorneOut(graph, now, notified \cup {n}, i, 1..StageCount(Library[i]), B, ivs)
  PROVE  CheckNegationsBatch(graph, now, Library[i], B, ivs)
<1> DEFINE p == Library[i]
           N == StageCount(p)
           told == notified \cup {n}
<1> SUFFICES ASSUME NEW neg \in p.negations, NegationFound(graph, now, neg, B, ivs)
             PROVE  FALSE
  BY Zenon DEF CheckNegationsBatch
<1> DEFINE first == neg.clauses[1]
<1>1. AboutAnotherEvent(p, neg)
  BY DEF StepwiseLibrary, StepwisePattern
<1>2. /\ DOMAIN neg.clauses = 1..Len(neg.clauses) /\ Len(neg.clauses) \in Nat
      /\ 1 \in DOMAIN neg.clauses
      /\ \A k \in DOMAIN neg.clauses :
           neg.clauses[k].source = first.source /\ neg.clauses[k].target.kind \in {"in", "bind"}
  <2> DEFINE T == {neg.clauses[k] : k \in DOMAIN neg.clauses}
  <2>1. neg.clauses # << >> /\ neg.clauses \in Seq(T)
    BY <1>1, Zenon DEF AboutAnotherEvent
  <2>2. \A k \in DOMAIN neg.clauses :
           neg.clauses[k].source = first.source /\ neg.clauses[k].target.kind \in {"in", "bind"}
    BY <1>1, Zenon DEF AboutAnotherEvent
  <2> HIDE DEF T
  <2> QED BY <2>1, <2>2, EmptySeq, LenProperties
<1>3. /\ first.target.kind = "bind" => first.target.var \notin PatternVars(p)
      /\ \/ \E s \in 1..N : p.stages[s].anchor \in neg.between_end
         \/ \E k \in DOMAIN neg.clauses : neg.clauses[k].label \in StageLabels
  BY DEF LastingLibrary, LastingPattern
<1>4. /\ DOMAIN B \subseteq PatternVars(p)
      /\ \A x \in DOMAIN ivs : ivs[x].start \in Int /\ ivs[x].start <= now
      /\ \A s \in 1..N : p.stages[s].anchor \in DOMAIN ivs
      /\ Calm(graph, now, told, i, ivs, B)
  BY Zenon DEF BorneOut, Happened
<1>5. /\ neg.between_start \in DOMAIN ivs
      /\ Resolvable(first.target, B)
  BY DEF NegationFound
<1>6. PICK x \in ScanAnyTime(graph, first.label) :
        /\ ConstraintAccepts(first.target, x.target, B)
        /\ InWindow(neg, ivs, x.interval)
        /\ \A j \in 2..Len(neg.clauses) :
             \E y \in Scan(graph, neg.clauses[j].label, now) :
               y.source = x.source /\ TargetAccepts(neg.clauses[j].target, y.target, B)
  BY DEF NegationFound
<1>7. PICK j \in DOMAIN graph : x = graph[j] /\ x.label = first.label
  BY DEF ScanAnyTime
<1>8. TargetAccepts(first.target, x.target, B)
  BY <1>3, <1>4, <1>5, <1>6 DEF TargetAccepts
<1>9. x \in Scan(graph, first.label, now)
  BY <1>7, EdgesHold DEF Scan
<1>10. \A k \in DOMAIN neg.clauses :
         \E y \in Scan(graph, neg.clauses[k].label, now) :
           y.source = x.source /\ TargetAccepts(neg.clauses[k].target, y.target, B)
  <2> TAKE k \in DOMAIN neg.clauses
  <2>1. CASE k = 1
    BY <1>8, <1>9, <2>1
  <2>2. CASE k # 1
    <3>1. k \in 2..Len(neg.clauses)
      BY <1>2, <2>2
    <3> QED BY <1>6, <3>1
  <2> QED BY <2>1, <2>2
<1>11. NegationTriggered(graph, now, neg, B, x)
  BY <1>1, <1>2, <1>4, <1>7, <1>8, <1>10, TriggeredBy
<1>12. j \notin told
  <2>1. \A l \in told : InWindow(neg, ivs, graph[l].interval) => ~NegationTriggered(graph, now, neg, B, graph[l])
    BY <1>4, <1>5 DEF Calm
  <2> QED BY <1>6, <1>7, <1>11, <2>1
<1>13. x.label \in HeadLabels /\ i \in DOMAIN Library
  BY <1>2, <1>7 DEF HeadLabels
<1>14. x.interval.start = now /\ graph[n].interval.start = now /\ n \in DOMAIN graph /\ now \in Int
  <2>1. j \in Pending
    BY <1>7, <1>12, <1>13 DEF Pending
  <2> QED BY <1>7, <2>1 DEF EventsInOrder, Pending
<1>15. neg.between_end \cap DOMAIN ivs = {}
  <2> SUFFICES ASSUME NEW a \in neg.between_end \cap DOMAIN ivs
               PROVE  FALSE
    OBVIOUS
  <2>1. now < ivs[a].start
    BY <1>6, <1>14 DEF InWindow
  <2>2. ivs[a].start \in Int /\ ivs[a].start <= now
    BY <1>4
  <2> QED BY <1>14, <2>1, <2>2
<1>16. PICK k \in DOMAIN neg.clauses : neg.clauses[k].label \in StageLabels
  BY <1>3, <1>4, <1>15
<1>17. PICK y \in Scan(graph, neg.clauses[k].label, now) :
         y.source = x.source /\ TargetAccepts(neg.clauses[k].target, y.target, B)
  BY <1>10
<1>18. PICK l \in DOMAIN graph : y = graph[l] /\ y.label = neg.clauses[k].label
  BY DEF Scan
<1>19. y.interval.start = now
  BY <1>7, <1>13, <1>14, <1>17, <1>18, EdgesOfEvent
<1>20. l = n
  <2>1. PICK es \in Batches : \E a, b \in DOMAIN es : es[a] = graph[l] /\ es[b] = graph[n] /\ l - n = a - b
    BY <1>14, <1>18, <1>19 DEF EventsInOrder
  <2>2. PICK a \in DOMAIN es, b \in DOMAIN es : es[a] = graph[l] /\ es[b] = graph[n] /\ l - n = a - b
    BY <2>1
  <2>3. a = b
    BY <1>16, <1>18, <2>2 DEF OneEventEach
  <2>4. a \in Int /\ l \in Int /\ n \in Int
    <3>1. es \in Seq(Edge) /\ graph \in Seq(Edge)
      BY BatchesAssumption DEF TypeOK
    <3> QED BY <1>14, <3>1, LenProperties
  <2> QED BY <2>2, <2>3, <2>4
<1>21. NegationTriggered(graph, now, neg, B, y)
  BY <1>1, <1>4, <1>10, <1>17, <1>18, TriggeredBy
<1>22. InWindow(neg, ivs, y.interval)
  BY <1>6, <1>14, <1>19 DEF InWindow
<1>23. ~NegationTriggered(graph, now, neg, B, graph[n])
  BY <1>4, <1>5, <1>18, <1>20, <1>22 DEF Calm
<1> QED BY <1>18, <1>20, <1>21, <1>23

\* A complete match an attempt makes and keeps is one batch evaluation finds
LEMMA MadeInBatch ==
  ASSUME BlockLibrary, AnchoredLibrary, OneEventEach, EventVocabulary, StepwiseLibrary,
         LastingLibrary, Inv, AllSequenced, AllVouched, EventsInOrder, AllBorneOut,
         NEW n \in Pending, NEW k \in Attempts(graph[n]),
         Made(graph[n], k).state = "Complete", Kept(k, Made(graph[n], k))
  PROVE  MatchOf(Made(graph[n], k)) \in BatchMatches(Made(graph[n], k).pattern_idx)
<1> DEFINE e == graph[n]
           m == Made(e, k)
           told == notified \cup {n}
           i == m.pattern_idx
           p == Library[i]
           N == StageCount(p)
           B == m.bindings
           ivs == m.intervals
<1>1. TypeOK /\ IdsUnique
  BY DEF Inv
<1>2. n \in DOMAIN graph /\ e.label \in HeadLabels /\ e.interval.start = now
  BY DEF Pending, EventsInOrder
<1>3. told \subseteq DOMAIN graph /\ \A j \in told : graph[j].label \in HeadLabels
  BY <1>1, <1>2 DEF TypeOK, EventsInOrder
<1>4. IsMatch(m)
  BY <1>1, MadeIsMatch DEF GoodMatch
<1>5. i \in DOMAIN Library /\ PastEnd(i, m.next_stage) /\ m.next_stage \in Nat /\ N \in Nat
  <2>1. i \in DOMAIN Library
    BY <1>1, <1>4, LibraryDomain DEF IsMatch, TypeOK, Pats
  <2>2. N \in Nat
    BY <2>1, StageFacts
  <2> HIDE DEF m
  <2>3. m.state = "Complete"
    BY DEF m
  <2> QED BY <1>4, <2>1, <2>2, <2>3 DEF IsMatch
<1>6. BorneOut(graph, now, told, i, 1..N, B, ivs)
  <2>1. BorneMatch(m, graph, now, told)
    BY <1>1, <1>2, MadeBorne
  <2>2. PassedBy(p, m.next_stage, m.matched_stages) = 1..N
    BY <1>5, PastEndPassedAll
  <2> HIDE DEF m, told
  <2> QED BY <2>1, <2>2, Zenon DEF BorneMatch
<1>7. /\ p.stages # << >> /\ e.label \in StageLabels
      /\ N = 1 => \A x \in DOMAIN ivs : ivs[x].start = now
      /\ CheckTemporal(p, ivs) /\ CheckNegationsBatch(graph, now, p, B, ivs)
  <2>1. CASE k \in Initiations(e)
    <3>1. PICK j \in Pats : Library[j].stages # << >> /\
                 \E s \in Segment(Library[j], 1) :
                   /\ Matches(j, s, e, NoBindings) /\ k = <<0, j, s, 0>>
                   /\ NegationAllows(Initiated(j, s, e))
      BY <2>1, Zenon DEF Initiations
    <3>2. PICK s \in Segment(Library[j], 1) :
                   /\ Matches(j, s, e, NoBindings) /\ k = <<0, j, s, 0>>
                   /\ NegationAllows(Initiated(j, s, e))
      BY <3>1
    <3>3. m = Initiated(j, s, e)
      BY <3>2 DEF Made
    <3>4. i = j
      BY <3>3 DEF Initiated
    <3>5. s \in 1..StageCount(Library[j]) /\ j \in DOMAIN Library
      BY <1>1, <3>1, StartedStage
    <3>6. e.label \in StageLabels
      BY <3>2, <3>5, StageLabelled
    <3> HIDE DEF m, e
    <3>7. Initiated(j, s, e).state = "Complete"
      BY <3>3 DEF m, e
    <3>8. /\ \A x \in DOMAIN Initiated(j, s, e).intervals :
               Initiated(j, s, e).intervals[x].start = e.interval.start
          /\ CheckTemporal(Library[j], Initiated(j, s, e).intervals)
      BY <1>1, <3>1, <3>7, InitiatedAllowed
    <3>9. CheckNegationsBatch(graph, now, p, B, ivs)
      BY <3>2, <3>3, <3>7 DEF NegationAllows
    <3> QED BY <1>2, <3>1, <3>3, <3>4, <3>6, <3>8, <3>9
  <2>2. CASE k \in Advances(e)
    <3>1. PICK pm \in Advancing(e) : \E s \in TryStages(pm, e) : \E br \in Branches(pm, s, e) :
                 k = <<1, pm.id, s, br>> /\ Parent(k) = pm
      BY <1>1, <2>2, ParentOfAdvance
    <3>2. PICK s \in TryStages(pm, e) : \E br \in Branches(pm, s, e) : k = <<1, pm.id, s, br>>
      BY <3>1
    <3>3. PICK br \in Branches(pm, s, e) : k = <<1, pm.id, s, br>>
      BY <3>2
    <3>4. k[1] = 1 /\ k[3] = s /\ k[4] = br /\ Parent(k) = pm /\ br \in {0, 1} /\ pm \in Active
      BY <3>1, <3>3, BranchParts DEF Advancing
    <3>5. br = 0
      <4> SUFFICES ASSUME br = 1
                   PROVE  FALSE
        BY <3>4
      <4> DEFINE rr == CHOOSE r \in Library[pm.pattern_idx].repeat_range : TRUE
      <4>1. m = LoopedMatch(pm, s, e, rr)
        BY <3>4 DEF Made
      <4>2. IsMatch(AdvancedMatch(pm, s, e))
        BY <1>1, <3>4, AdvancedIsMatch, TriedStage
      <4> HIDE DEF rr
      <4>3. m.state = "Active"
        BY <4>1, <4>2 DEF LoopedMatch, IsMatch, MatchFields
      <4> QED BY <4>3
    <3>6. m = AdvancedMatch(pm, s, e)
      BY <3>4, <3>5 DEF Made
    <3>7. s \in 1..N /\ i = pm.pattern_idx
      BY <1>1, <3>4, <3>6, AdvancedIsMatch, TriedStage
    <3>8. Matches(i, s, e, pm.bindings)
      BY <3>7 DEF TryStages
    <3>9. e.label \in StageLabels
      BY <1>5, <3>7, <3>8, StageLabelled
    <3>10. DOMAIN pm = MatchFields
      BY <1>1, <3>4, ActiveUnfinished DEF IsMatch
    <3>11. ivs[p.stages[s].anchor] = e.interval
      BY <3>6, <3>7, <3>10 DEF AdvancedMatch, MatchFields, WithInterval
    <3>12. CheckTemporal(p, ivs)
      BY <3>4 DEF Kept, TemporalOK
    <3> HIDE DEF m, B, ivs, told
    <3>13. DOMAIN ivs \subseteq AnchorsOf(p, 1..N)
      BY <1>6 DEF BorneOut
    <3>14. CheckNegationsBatch(graph, now, p, B, ivs)
      BY <1>1, <1>5, <1>6, <3>9, CompleteAllowed DEF told
    <3>15. ASSUME N = 1, NEW x \in DOMAIN ivs
           PROVE  ivs[x].start = now
      <4>1. PICK t \in 1..N : x = p.stages[t].anchor
        BY <3>13 DEF AnchorsOf
      <4>2. t = s
        BY <3>7, <3>15
      <4> QED BY <1>2, <3>11, <4>1, <4>2
    <3>16. p.stages # << >>
      <4> SUFFICES ASSUME p.stages = << >>
                   PROVE  FALSE
        OBVIOUS
      <4>1. N = 0
        BY EmptySeq DEF StageCount
      <4> QED BY <3>7, <4>1
    <3> QED BY <3>9, <3>12, <3>14, <3>15, <3>16
  <2> QED BY <2>1, <2>2 DEF Attempts
<1> HIDE DEF m, B, ivs, told
<1>8. [bindings |-> B, intervals |-> ivs] \in BatchMatches(i)
  BY <1>1, <1>3, <1>5, <1>6, <1>7, BorneInBatch
<1>9. MatchOf(m) = [bindings |-> B, intervals |-> ivs]
  BY Zenon DEF MatchOf, B, ivs
<1> QED BY <1>8, <1>9, Zenon DEF m

\* ... and so is what a call leaves completed
LEMMA CompletedInBatch ==
  ASSUME BlockLibrary, AnchoredLibrary, OneEventEach, EventVocabulary, StepwiseLibrary,
         LastingLibrary, Inv, AllSequenced, AllVouched, EventsInOrder, AllBorneOut,
         NEW n \in Pending, NEW m \in NewMatches(MatchesMade(graph[n])), m.state = "Complete"
  PROVE  MatchOf(m) \in BatchMatches(m.pattern_idx)
<1> DEFINE made == MatchesMade(graph[n])
<1>0. TypeOK /\ IdsUnique
  BY DEF Inv
<1>1. PICK k \in KeptOf(made) : m = [made[k] EXCEPT !.id = IdOf(made, k)]
  BY Zenon DEF NewMatches
<1>2. k \in Attempts(graph[n]) /\ made[k] = Made(graph[n], k) /\ Kept(k, made[k])
  BY <1>0, BornFacts DEF KeptOf
<1>3. DOMAIN made[k] = MatchFields
  BY <1>0, <1>2, MadeIsMatch DEF GoodMatch, IsMatch
<1> HIDE DEF made
<1>4. /\ m.pattern_idx = made[k].pattern_idx /\ m.intervals = made[k].intervals
      /\ m.bindings = made[k].bindings /\ m.state = made[k].state
  BY <1>1, <1>3 DEF MatchFields
<1>5. MatchOf(made[k]) \in BatchMatches(made[k].pattern_idx)
  BY <1>2, <1>4, MadeInBatch
<1>6. MatchOf(m) = MatchOf(made[k])
  BY <1>4, Zenon DEF MatchOf
<1> QED BY <1>4, <1>5, <1>6, Zenon

\* No step completes a match the graph does not show
LEMMA CompletionsShown ==
  ASSUME BlockLibrary, AnchoredLibrary, OneEventEach, EventVocabulary, StepwiseLibrary,
         LastingLibrary, Inv, AllSequenced, AllVouched, EventsInOrder, AllBorneOut,
         [OrderedNext \/ DrainCompleted]_vars, NEW i \in Pats, NEW x \in CompletedMatches(i)',
         x \notin CompletedMatches(i)
  PROVE  x \in BatchMatches(i)'
<1>1. PICK m \in pms' : m.state = "Complete" /\ m.pattern_idx = i /\ x = MatchOf(m)
  BY DEF CompletedMatches, Complete
<1>2. m \notin pms
  BY <1>1 DEF CompletedMatches, Complete
<1>3. PICK n \in DOMAIN graph : NotifyNext(n)
  <2>1. pms' \subseteq pms \/ \E n \in DOMAIN graph : NotifyNext(n)
    BY DEF OrderedNext, InsertNext, Insert, Register, DrainCompleted, Active,
           vars, matches
  <2> QED BY <1>1, <1>2, <2>1
<1>4. /\ n \in Pending /\ graph' = graph /\ now' = now
      /\ pms' = StoreAfter(graph[n], MatchesMade(graph[n]))
  BY <1>3 DEF NotifyNext, Notify, OnEdgeAdded
<1>5. m \in NewMatches(MatchesMade(graph[n]))
  BY <1>1, <1>2, <1>4 DEF StoreAfter
<1>6. MatchOf(m) \in BatchMatches(i)
  BY <1>1, <1>4, <1>5, CompletedInBatch
<1> QED BY <1>1, <1>4, <1>6 DEF BatchMatches

\* Under the caller its documentation assumes the engine completes only what the
\* graph shows at that moment (on_edge_added against evaluate_pattern_at): the
\* same bindings, the same intervals, every temporal constraint kept and no
\* negation found, however the match came about - by forks, by events of a group
\* in any order, by loops, between drains.
THEOREM NothingFalse ==
  ASSUME BlockLibrary, AnchoredLibrary, OneEventEach, EventVocabulary, StepwiseLibrary,
         LastingLibrary
  PROVE  ConsumerSpec => NoFalseMatch
<1> DEFINE IInv == Inv /\ AllSequenced /\ AllVouched /\ EventsInOrder /\ AllBorneOut /\ AllPictured(delivered)
<1>1. ConsumerInit => IInv
  <2>1. Init => AllSequenced /\ AllVouched
    BY DEF Init, AllSequenced, AllVouched
  <2>2. Init => EventsInOrder /\ AllPictured(delivered)
    <3>1. PICK given : given = delivered
      OBVIOUS
    <3> QED BY <3>1, InitPictures
  <2> QED BY <2>1, <2>2, InitInv, InitBorne DEF ConsumerInit
<1>2. IInv /\ [ConsumerNext]_<<vars, delivered>> => IInv'
  <2>1. SUFFICES ASSUME IInv, [ConsumerNext]_<<vars, delivered>>
                 PROVE  IInv'
    OBVIOUS
  <2>2. [OrderedNext \/ DrainCompleted]_vars /\ [Next]_vars
    BY <2>1, ConsumerSteps
  <2>3. Inv' /\ AllSequenced' /\ AllVouched'
    BY <2>1, <2>2, NextInv, NextSequenced, NextVouched
  <2>4. EventsInOrder' /\ AllPictured(delivered)'
    BY <2>1, PicturesKept
  <2>5. AllBorneOut'
    BY <2>1, <2>2, BorneKept
  <2> QED BY <2>3, <2>4, <2>5
<1>3. IInv /\ [ConsumerNext]_<<vars, delivered>> =>
        [\A i \in Pats : CompletedMatches(i)' \ CompletedMatches(i) \subseteq BatchMatches(i)']_vars
  BY ConsumerSteps, CompletionsShown
<1> HIDE DEF IInv
<1> QED BY <1>1, <1>2, <1>3, PTL DEF ConsumerSpec, NoFalseMatch

-----------------------------------------------------------------------------
(* What batch evaluation finds, said without its search *)

\* The event of a stage began and ended as iv has it
Event(stage, B, iv) == \E n \in DOMAIN graph : Fits(graph, stage, graph[n], B) /\ iv = graph[n].interval

\* B and ivs are an occurrence of p: an event for each stage, at the times its
\* constraints allow
Occurs(p, B, ivs) ==
  /\ IsMap(B) /\ DOMAIN B = PatternVars(p)
  /\ IsMap(ivs) /\ DOMAIN ivs = AnchorsOf(p, 1..StageCount(p))
  /\ \A s \in 1..StageCount(p) : Event(p.stages[s], B, ivs[p.stages[s].anchor])
  /\ CheckTemporal(p, ivs)

\* The event of a stage is one the engine is told of
LEMMA EventTold ==
  ASSUME NEW stage, SearchableStage(stage), NEW n \in DOMAIN graph, NEW B,
         Fits(graph, stage, graph[n], B)
  PROVE  graph[n].label \in HeadLabels
BY DEF SearchableStage, Fits, CouldBe

\* Batch evaluation finds occurrences
LEMMA BatchOccurs ==
  ASSUME EventVocabulary, TypeOK, EventsInOrder, NEW p, Searchable(p),
         NEW m \in EvaluatePattern(graph, p, now)
  PROVE  Occurs(p, m.bindings, m.intervals)
<1> DEFINE N == StageCount(p)
           B == m.bindings
           ivs == m.intervals
<1>1. m \in StageCascade(graph, p, now) /\ CheckTemporal(p, ivs)
  BY DEF EvaluatePattern
<1>2. Taken(p, N, m)
  BY <1>1, CascadeTaken
<1>3. /\ IsMap(B) /\ DOMAIN B = VarsOf(p, 1..N)
      /\ ivs = [x \in AnchorsOf(p, 1..N) |-> ivs[x]]
  BY <1>2, Zenon DEF Taken
<1>4. PICK idx : \A t \in 1..N :
        /\ idx[t] \in DOMAIN graph
        /\ Fits(graph, p.stages[t], graph[idx[t]], B)
        /\ ivs[p.stages[t].anchor] = graph[idx[t]].interval
  BY <1>2, Zenon DEF Taken
<1> HIDE DEF B, ivs, N
<1>5. \A s \in 1..N : Event(p.stages[s], B, ivs[p.stages[s].anchor])
  BY <1>4 DEF Event
<1>6. IsMap(ivs) /\ DOMAIN ivs = AnchorsOf(p, 1..N)
  BY <1>3 DEF IsMap, Within
<1>7. Occurs(p, B, ivs)
  BY <1>1, <1>3, <1>5, <1>6, Zenon DEF Occurs, PatternVars, N
<1> QED BY <1>7 DEF B, ivs

\* ... and every occurrence of a pattern with no negation to look for
LEMMA OccursBatch ==
  ASSUME EventVocabulary, TypeOK, EventsInOrder, NEW p, Searchable(p), Settled(p),
         p.stages # << >>, p.negations = {}, NEW B, NEW ivs, Occurs(p, B, ivs)
  PROVE  \E m \in EvaluatePattern(graph, p, now) : m.bindings = B /\ m.intervals = ivs
<1> DEFINE N == StageCount(p)
           told == {n \in DOMAIN graph : graph[n].label \in HeadLabels}
           way == WayOf(p, N, B, ivs)
<1>1. /\ IsMap(B) /\ DOMAIN B = VarsOf(p, 1..N)
      /\ IsMap(ivs) /\ DOMAIN ivs = AnchorsOf(p, 1..N)
      /\ \A s \in 1..N : Event(p.stages[s], B, ivs[p.stages[s].anchor])
      /\ CheckTemporal(p, ivs)
  BY DEF Occurs, PatternVars
<1>2. ASSUME NEW s \in 1..N
      PROVE  Happened(graph, told, p.stages[s], B, ivs)
  <2>1. StageVars(p.stages[s]) \subseteq DOMAIN B /\ p.stages[s].anchor \in DOMAIN ivs
    BY <1>1 DEF VarsOf, AnchorsOf
  <2>2. PICK n \in DOMAIN graph : Fits(graph, p.stages[s], graph[n], B) /\ ivs[p.stages[s].anchor] = graph[n].interval
    BY <1>1 DEF Event
  <2>3. n \in told
    BY <2>2, EventTold DEF Searchable
  <2> HIDE DEF told
  <2> QED BY <2>1, <2>2, <2>3 DEF Happened
<1>3. told \subseteq DOMAIN graph /\ \A j \in told : graph[j].label \in HeadLabels
  OBVIOUS
<1> HIDE DEF told, N
<1>4. way \in StageCascade(graph, p, now)
  BY <1>2, <1>3, CascadeFollows DEF N
<1>5. way.bindings = B /\ way.intervals = ivs
  <2>1. Within(B, VarsOf(p, 1..N)) = B /\ Within(ivs, AnchorsOf(p, 1..N)) = ivs
    BY <1>1, Zenon DEF IsMap
  <2>2. way.bindings = Within(B, VarsOf(p, 1..N)) /\ way.intervals = Within(ivs, AnchorsOf(p, 1..N))
    BY DEF WayOf
  <2> QED BY <2>1, <2>2, Zenon
<1> HIDE DEF way
<1>6. CheckNegationsBatch(graph, now, p, way.bindings, way.intervals)
  BY Zenon DEF CheckNegationsBatch
<1>7. way \in EvaluatePattern(graph, p, now)
  BY <1>1, <1>4, <1>5, <1>6 DEF EvaluatePattern
<1> QED BY <1>5, <1>7

\* What occurred has occurred
LEMMA OccursLater ==
  ASSUME EventVocabulary, TypeOK, EventsInOrder, NEW es \in Batches, InsertNext(es),
         NEW p, NEW B, NEW ivs, Occurs(p, B, ivs)
  PROVE  Occurs(p, B, ivs)'
<1>1. ASSUME NEW stage, NEW iv, Event(stage, B, iv)
      PROVE  Event(stage, B, iv)'
  <2>1. PICK n \in DOMAIN graph : Fits(graph, stage, graph[n], B) /\ iv = graph[n].interval
    BY <1>1 DEF Event
  <2>2. graph'[n] = graph[n] /\ n \in DOMAIN graph'
    BY BatchLater
  <2>3. Fits(graph', stage, graph[n], B)
    BY <2>1, FitsLater
  <2> QED BY <2>1, <2>2, <2>3 DEF Event
<1> QED BY <1>1 DEF Occurs

-----------------------------------------------------------------------------
(* What the engine completes are the occurrences *)

\* A pattern whose occurrences the engine finds and keeps
Registrable(p) == p.stages # << >> /\ p.negations = {} /\ Settled(p)

\* Every complete match of the pattern is an occurrence of it
AllOccur(i) ==
  \A pm \in Complete : pm.pattern_idx = i => Occurs(Library[i], pm.bindings, pm.intervals)

\* A complete match stays an occurrence, and one that is new is one
LEMMA OccurKept ==
  ASSUME BlockLibrary, AnchoredLibrary, OneEventEach, EventVocabulary, StepwiseLibrary,
         LastingLibrary, Inv, AllSequenced, AllVouched, EventsInOrder, AllBorneOut,
         NEW i \in DOMAIN Library, AllOccur(i), [OrderedNext]_vars
  PROVE  AllOccur(i)'
<1> DEFINE p == Library[i]
<1>0. TypeOK /\ Searchable(p)
  BY LibrarySearchable DEF Inv
<1> SUFFICES ASSUME NEW pm \in pms', pm.state = "Complete", pm.pattern_idx = i
             PROVE  Occurs(p, pm.bindings, pm.intervals)'
  BY DEF AllOccur, Complete
<1>1. CASE \E es \in Batches : InsertNext(es)
  <2>1. PICK es \in Batches : InsertNext(es)
    BY <1>1
  <2>2. pms' = pms
    BY <2>1 DEF InsertNext, Insert, matches
  <2>3. Occurs(p, pm.bindings, pm.intervals)
    BY <2>2 DEF AllOccur, Complete
  <2> QED BY <1>0, <2>1, <2>3, OccursLater
<1>2. CASE ~\E es \in Batches : InsertNext(es)
  <2>1. graph' = graph
    BY <1>2 DEF OrderedNext, Register, NotifyNext, Notify, vars, dataSource
  <2>2. ASSUME Occurs(p, pm.bindings, pm.intervals)
        PROVE  Occurs(p, pm.bindings, pm.intervals)'
    BY <2>1, <2>2 DEF Occurs, Event
  <2>3. CASE pm \in pms
    BY <2>2, <2>3 DEF AllOccur, Complete
  <2>4. CASE pm \notin pms
    <3>1. PICK n \in DOMAIN graph : NotifyNext(n)
      <4>1. pms' = pms \/ \E n \in DOMAIN graph : NotifyNext(n)
        BY <1>2 DEF OrderedNext, Register, vars, matches
      <4> QED BY <2>4, <4>1
    <3>2. n \in Pending /\ pms' = StoreAfter(graph[n], MatchesMade(graph[n]))
      BY <3>1 DEF NotifyNext, Notify, OnEdgeAdded
    <3>3. pm \in NewMatches(MatchesMade(graph[n]))
      BY <2>4, <3>2 DEF StoreAfter
    <3>4. MatchOf(pm) \in BatchMatches(i)
      BY <3>2, <3>3, CompletedInBatch
    <3>5. PICK m \in EvaluatePattern(graph, p, now) : MatchOf(pm) = MatchOf(m)
      BY <3>4 DEF BatchMatches
    <3>6. pm.bindings = m.bindings /\ pm.intervals = m.intervals
      BY <3>5 DEF MatchOf
    <3>7. Occurs(p, m.bindings, m.intervals)
      BY <1>0, BatchOccurs
    <3> QED BY <2>2, <3>6, <3>7
  <2> QED BY <2>3, <2>4
<1> QED BY <1>1, <1>2

\* What the engine keeps of pattern i under OrderedSpec
Faithful(i) ==
  /\ Inv /\ AllSequenced /\ AllVouched /\ EventsInOrder /\ AllBorneOut
  /\ AllPictured({}) /\ AllOccur(i)

AllFaithful == \A i \in DOMAIN Library : Faithful(i)

\* At first, and always
LEMMA OrderedFaithful ==
  ASSUME BlockLibrary, AnchoredLibrary, OneEventEach, EventVocabulary, StepwiseLibrary,
         LastingLibrary
  PROVE  OrderedSpec => []AllFaithful
<1>1. Init => AllFaithful
  <2>1. Init => AllSequenced /\ AllVouched /\ \A i \in DOMAIN Library : AllOccur(i)
    BY DEF Init, AllSequenced, AllVouched, AllOccur, Complete
  <2> QED BY <2>1, InitInv, InitPictures, InitBorne DEF AllFaithful, Faithful
<1>2. ASSUME AllFaithful, [OrderedNext]_vars, NEW i \in DOMAIN Library
      PROVE  Faithful(i)'
  <2>0. Faithful(i)
    BY <1>2 DEF AllFaithful
  <2>1. [OrderedNext \/ DrainCompleted]_vars /\ [Next]_vars
    BY <1>2, ConsumerSteps
  <2>2. Inv' /\ AllSequenced' /\ AllVouched'
    BY <2>0, <2>1, NextInv, NextSequenced, NextVouched DEF Faithful
  <2>3. EventsInOrder' /\ AllPictured({})'
    <3>1. PICK given : given = {}
      OBVIOUS
    <3> QED BY <1>2, <2>0, <3>1, OrderedPictures DEF Faithful, Inv
  <2>4. AllBorneOut'
    BY <2>0, <2>1, BorneKept DEF Faithful
  <2>5. AllOccur(i)'
    BY <1>2, <2>0, OccurKept DEF Faithful
  <2> QED BY <2>2, <2>3, <2>4, <2>5 DEF Faithful
<1>3. ASSUME AllFaithful, [OrderedNext]_vars
      PROVE  AllFaithful'
  BY <1>2, <1>3 DEF AllFaithful
<1> QED BY <1>1, <1>3, PTL DEF OrderedSpec

\* Once every event is told the complete matches are the occurrences
LEMMA CompletedAreOccurrences ==
  ASSUME BlockLibrary, EventVocabulary, StepwiseLibrary, NEW i \in DOMAIN Library,
         Registrable(Library[i]), Faithful(i), Pending = {}, NEW B, NEW ivs
  PROVE  [bindings |-> B, intervals |-> ivs] \in CompletedMatches(i) <=> Occurs(Library[i], B, ivs)
<1> DEFINE p == Library[i]
           x == [bindings |-> B, intervals |-> ivs]
<1>0. /\ TypeOK /\ EventsInOrder /\ Searchable(p) /\ AllPictured({}) /\ AllOccur(i)
      /\ StageCount(p) \in Nat /\ StageCount(p) >= 1
  BY LibrarySearchable, StageFacts DEF Faithful, Inv, Registrable
<1>1. ASSUME x \in CompletedMatches(i)
      PROVE  Occurs(p, B, ivs)
  <2>1. PICK pm \in Complete : pm.pattern_idx = i /\ x = MatchOf(pm)
    BY <1>1 DEF CompletedMatches
  <2>2. pm.bindings = B /\ pm.intervals = ivs
    BY <2>1 DEF MatchOf
  <2> QED BY <1>0, <2>1, <2>2 DEF AllOccur
<1>2. ASSUME Occurs(p, B, ivs)
      PROVE  x \in CompletedMatches(i)
  <2>1. i \in Pats
    <3> SUFFICES ASSUME i \notin Pats
                 PROVE  FALSE
      OBVIOUS
    <3>1. registered < Len(Library)
      BY <1>0, LibraryDomain DEF TypeOK, Pats
    <3>2. DOMAIN graph = {}
      BY <1>0, <3>1, EmptySeq DEF EventsInOrder
    <3>3. 1 \in 1..StageCount(p)
      BY <1>0
    <3>4. Event(p.stages[1], B, ivs[p.stages[1].anchor])
      BY <1>2, <3>3, Zenon DEF Occurs
    <3> QED BY <3>2, <3>4 DEF Event
  <2>2. PICK m \in EvaluatePattern(graph, p, now) : m.bindings = B /\ m.intervals = ivs
    BY <1>0, <1>2, OccursBatch DEF Registrable
  <2>3. MatchOf(m) = x
    BY <2>2, Zenon DEF MatchOf
  <2>4. PICK given : given = {}
    OBVIOUS
  <2>5. MatchOf(m) \in CompletedMatches(i) \/ \E d \in given : d[1] = i /\ d[3] = MatchOf(m)
    BY <1>0, <2>1, <2>4, PicturedFound
  <2> QED BY <2>3, <2>4, <2>5
<1> QED BY <1>1, <1>2

-----------------------------------------------------------------------------
(* One pattern after another *)

\* A pattern whose groups are of its own stages and whose constraints are
\* between its own anchors
Part(p) ==
  /\ Searchable(p) /\ IsSequence(p.stages)
  /\ \A g \in p.unordered_groups : g \subseteq 1..StageCount(p)
  /\ \A tc \in p.temporal : {tc.left, tc.right} \subseteq AnchorsOf(p, 1..StageCount(p))

\* J is P and then Q
Joins(J, P, Q) ==
  /\ StageCount(P) \in Nat /\ StageCount(Q) \in Nat
  /\ StageCount(J) = StageCount(P) + StageCount(Q)
  /\ \A s \in 1..StageCount(P) : J.stages[s] = P.stages[s]
  /\ \A s \in 1..StageCount(Q) : J.stages[StageCount(P) + s] = Q.stages[s]
  /\ IsSequence(J.stages)
  /\ J.temporal = P.temporal \cup Q.temporal
  /\ J.unordered_groups = P.unordered_groups \cup Shifted(Q.unordered_groups, StageCount(P))
  /\ J.negations = P.negations \cup Q.negations

\* ... as what every operator returns is
LEMMA JoinedJoins ==
  ASSUME NEW name, NEW P, NEW Q, IsSequence(P.stages), IsSequence(Q.stages)
  PROVE  Joins(Joined(name, P, Q), P, Q)
<1> DEFINE J == Joined(name, P, Q)
           A == P.stages
           C == Q.stages
           T == {A[s] : s \in DOMAIN A} \cup {C[s] : s \in DOMAIN C}
<1>1. J.stages = A \o C
  BY DEF Joined, Plain
<1>2. /\ J.temporal = P.temporal \cup Q.temporal
      /\ J.unordered_groups = P.unordered_groups \cup Shifted(Q.unordered_groups, StageCount(P))
      /\ J.negations = P.negations \cup Q.negations
  BY DEF Joined, Plain
<1>3. A \in Seq(T) /\ C \in Seq(T)
  <2>1. A \in Seq({A[s] : s \in DOMAIN A}) /\ C \in Seq({C[s] : s \in DOMAIN C})
    BY DEF IsSequence
  <2>2. \A S, U : \A q \in Seq(S) : S \subseteq U => q \in Seq(U)
    OBVIOUS
  <2> DEFINE X == {A[s] : s \in DOMAIN A}
             Y == {C[s] : s \in DOMAIN C}
  <2> HIDE DEF X, Y, A, C
  <2> QED BY <2>1, <2>2 DEF X, Y
<1> HIDE DEF T, A, C
<1>4. /\ Len(A) \in Nat /\ Len(C) \in Nat /\ Len(A \o C) = Len(A) + Len(C) /\ A \o C \in Seq(T)
      /\ \A i \in 1..(Len(A) + Len(C)) : (A \o C)[i] = IF i <= Len(A) THEN A[i] ELSE C[i - Len(A)]
  BY <1>3, ConcatProperties, LenProperties
<1>5. \A s \in 1..Len(A) : (A \o C)[s] = A[s]
  BY <1>4
<1>6. ASSUME NEW s \in 1..Len(C)
      PROVE  (A \o C)[Len(A) + s] = C[s]
  <2>1. Len(A) + s \in 1..(Len(A) + Len(C)) /\ ~(Len(A) + s <= Len(A)) /\ Len(A) + s - Len(A) = s
    BY <1>4
  <2> QED BY <1>4, <2>1
<1>7. IsSequence(A \o C)
  <2>1. PICK q : q = A \o C
    OBVIOUS
  <2>2. q \in Seq(T)
    BY <1>4, <2>1
  <2>3. q \in Seq({q[s] : s \in DOMAIN q})
    BY <2>2
  <2> QED BY <2>1, <2>3 DEF IsSequence
<1> HIDE DEF J
<1>8. Len(A) = StageCount(P) /\ Len(C) = StageCount(Q) /\ StageCount(J) = Len(A \o C)
  BY <1>1 DEF StageCount, A, C
<1>9. J.stages = A \o C /\ Len(A) = StageCount(P) /\ Len(C) = StageCount(Q)
  BY <1>1, <1>8
<1> HIDE DEF StageCount
<1>10. Joins(J, P, Q)
  BY <1>2, <1>4, <1>5, <1>6, <1>7, <1>8, <1>9 DEF Joins, A, C
<1> QED BY <1>10 DEF J

\* Their segments are those of the parts, the second part's further on
LEMMA JoinedSegments ==
  ASSUME NEW J, NEW P, NEW Q, Part(P), Part(Q), Joins(J, P, Q)
  PROVE  /\ \A s \in 1..StageCount(P) : Segment(J, s) = Segment(P, s)
         /\ \A s \in 1..StageCount(Q) : \A t :
              t \in Segment(J, StageCount(P) + s)
                <=> t \in Int /\ t - StageCount(P) \in Segment(Q, s)
<1> DEFINE m == StageCount(P)
           n == StageCount(Q)
           G == P.unordered_groups
           H == Q.unordered_groups
<1>1. m \in Nat /\ n \in Nat /\ J.unordered_groups = G \cup Shifted(H, m)
  BY DEF Joins
<1>2. (\A g \in G : g \subseteq 1..m) /\ (\A h \in H : h \subseteq 1..n)
  BY DEF Part
<1> HIDE DEF G, H, m, n
<1>3. ASSUME NEW s \in 1..m
      PROVE  Segment(J, s) = Segment(P, s)
  <2>1. ASSUME NEW g \in J.unordered_groups, s \in g
        PROVE  g \in G
    <3> SUFFICES ASSUME NEW h \in H, g = {i + m : i \in h}
                 PROVE  FALSE
      BY <1>1, <2>1 DEF Shifted
    <3>1. PICK i \in h : s = i + m
      BY <2>1
    <3>2. i \in 1..n
      BY <1>2
    <3> QED BY <1>1, <3>1, <3>2
  <2>2. \A t : t \in UnorderedGroup(J, s) <=> t \in UnorderedGroup(P, s)
    BY <1>1, <2>1 DEF UnorderedGroup, G
  <2>3. UnorderedGroup(J, s) = UnorderedGroup(P, s)
    BY <2>2 DEF UnorderedGroup
  <2> QED BY <2>3, Zenon DEF Segment, InGroup
<1>4. ASSUME NEW s \in 1..n
      PROVE  \A t : t \in Segment(J, m + s) <=> t \in Int /\ t - m \in Segment(Q, s)
  <2>1. ASSUME NEW t
        PROVE  t \in UnorderedGroup(J, m + s) <=> \E i \in UnorderedGroup(Q, s) : t = i + m
    <3>1. ASSUME t \in UnorderedGroup(J, m + s)
          PROVE  \E i \in UnorderedGroup(Q, s) : t = i + m
      <4>1. PICK g \in J.unordered_groups : m + s \in g /\ t \in g
        BY <3>1 DEF UnorderedGroup
      <4>2. g \notin G
        <5>1. m + s \notin 1..m
          BY <1>1
        <5> QED BY <1>2, <4>1, <5>1
      <4>3. PICK h \in H : g = {i + m : i \in h}
        BY <1>1, <4>1, <4>2 DEF Shifted
      <4>4. PICK i \in h, j \in h : t = i + m /\ m + s = j + m
        BY <4>1, <4>3
      <4>5. j = s
        BY <1>1, <1>2, <4>4
      <4> QED BY <4>4, <4>5 DEF UnorderedGroup, H
    <3>2. ASSUME NEW i \in UnorderedGroup(Q, s), t = i + m
          PROVE  t \in UnorderedGroup(J, m + s)
      <4>1. PICK h \in H : s \in h /\ i \in h
        BY <3>2 DEF UnorderedGroup, H
      <4> DEFINE g == {k + m : k \in h}
      <4>2. g \in J.unordered_groups
        BY <1>1 DEF Shifted
      <4>3. m + s = s + m
        BY <1>1
      <4>4. m + s \in g /\ t \in g
        BY <3>2, <4>1, <4>3
      <4> HIDE DEF g
      <4> QED BY <4>2, <4>4 DEF UnorderedGroup
    <3> QED BY <3>1, <3>2
  <2>2. \A i \in UnorderedGroup(Q, s) : i \in Int
    BY <1>2 DEF UnorderedGroup, H
  <2>3. InGroup(J, m + s) <=> InGroup(Q, s)
    <3>1. InGroup(J, m + s) => InGroup(Q, s)
      BY <2>1 DEF InGroup
    <3>2. InGroup(Q, s) => InGroup(J, m + s)
      <4>1. \A i \in UnorderedGroup(Q, s) : i + m \in UnorderedGroup(J, m + s)
        BY <2>1
      <4> QED BY <4>1 DEF InGroup
    <3> QED BY <3>1, <3>2
  <2>4. CASE InGroup(Q, s)
    <3>1. Segment(J, m + s) = UnorderedGroup(J, m + s) /\ Segment(Q, s) = UnorderedGroup(Q, s)
      BY <2>3, <2>4 DEF Segment
    <3>2. \A t : (\E i \in UnorderedGroup(Q, s) : t = i + m) <=> t \in Int /\ t - m \in UnorderedGroup(Q, s)
      BY <1>1, <2>2
    <3> QED BY <2>1, <3>1, <3>2
  <2>5. CASE ~InGroup(Q, s)
    <3>1. Segment(J, m + s) = {m + s} /\ Segment(Q, s) = {s}
      BY <2>3, <2>5 DEF Segment
    <3>2. \A t : t \in {m + s} <=> t \in Int /\ t - m \in {s}
      BY <1>1
    <3> QED BY <3>1, <3>2
  <2> QED BY <2>4, <2>5
<1> QED BY <1>3, <1>4 DEF m, n

\* The stages of two patterns joined are those of the one and those of the other
LEMMA JoinedSplit ==
  ASSUME NEW m \in Nat, NEW n \in Nat, NEW s \in 1..(m + n)
  PROVE  s \in 1..m \/ \E k \in 1..n : s = m + k
<1>1. s <= m \/ (s - m \in 1..n /\ s = m + (s - m))
  OBVIOUS
<1> QED BY <1>1

\* What a pattern joined is about
LEMMA JoinedVars ==
  ASSUME NEW J, NEW P, NEW Q, Joins(J, P, Q)
  PROVE  /\ PatternVars(J) = PatternVars(P) \cup PatternVars(Q)
         /\ AnchorsOf(J, 1..StageCount(J))
              = AnchorsOf(P, 1..StageCount(P)) \cup AnchorsOf(Q, 1..StageCount(Q))
<1> DEFINE m == StageCount(P)
           n == StageCount(Q)
           N == StageCount(J)
<1>1. /\ m \in Nat /\ n \in Nat /\ N = m + n
      /\ \A s \in 1..m : J.stages[s] = P.stages[s]
      /\ \A s \in 1..n : J.stages[m + s] = Q.stages[s]
  BY DEF Joins
<1> HIDE DEF m, n, N
<1>2. (\A s \in 1..m : s \in 1..N) /\ (\A s \in 1..n : m + s \in 1..N)
  BY <1>1
<1>3. \A s \in 1..N : s \in 1..m \/ \E k \in 1..n : s = m + k
  BY <1>1, JoinedSplit
<1>4. \A x : x \in PatternVars(J) <=> x \in PatternVars(P) \/ x \in PatternVars(Q)
  <2>1. \A x : x \in PatternVars(J) <=> \E s \in 1..N : x \in StageVars(J.stages[s])
    BY DEF PatternVars, VarsOf, N
  <2>2. \A x : x \in PatternVars(P) <=> \E s \in 1..m : x \in StageVars(P.stages[s])
    BY DEF PatternVars, VarsOf, m
  <2>3. \A x : x \in PatternVars(Q) <=> \E s \in 1..n : x \in StageVars(Q.stages[s])
    BY DEF PatternVars, VarsOf, n
  <2> QED BY <1>1, <1>2, <1>3, <2>1, <2>2, <2>3
<1>5. \A x : x \in AnchorsOf(J, 1..N) <=> x \in AnchorsOf(P, 1..m) \/ x \in AnchorsOf(Q, 1..n)
  <2>1. \A x : x \in AnchorsOf(J, 1..N) <=> \E s \in 1..N : x = J.stages[s].anchor
    BY DEF AnchorsOf
  <2>2. \A x : x \in AnchorsOf(P, 1..m) <=> \E s \in 1..m : x = P.stages[s].anchor
    BY DEF AnchorsOf
  <2>3. \A x : x \in AnchorsOf(Q, 1..n) <=> \E s \in 1..n : x = Q.stages[s].anchor
    BY DEF AnchorsOf
  <2>4. ASSUME NEW s \in 1..N
        PROVE  J.stages[s].anchor \in AnchorsOf(P, 1..m) \/ J.stages[s].anchor \in AnchorsOf(Q, 1..n)
    <3>1. CASE s \in 1..m
      BY <1>1, <2>2, <3>1
    <3>2. ASSUME NEW k \in 1..n, s = m + k
          PROVE  J.stages[s].anchor \in AnchorsOf(Q, 1..n)
      BY <1>1, <2>3, <3>2
    <3> QED BY <1>3, <3>1, <3>2
  <2>5. \A s \in 1..m : P.stages[s].anchor \in AnchorsOf(J, 1..N)
    BY <1>1, <1>2, <2>1
  <2>6. \A s \in 1..n : Q.stages[s].anchor \in AnchorsOf(J, 1..N)
    BY <1>1, <1>2, <2>1
  <2> QED BY <2>1, <2>2, <2>3, <2>4, <2>5, <2>6
<1>6. PatternVars(J) = PatternVars(P) \cup PatternVars(Q)
  BY <1>4
<1>7. AnchorsOf(J, 1..N) = AnchorsOf(P, 1..m) \cup AnchorsOf(Q, 1..n)
  BY <1>5
<1> QED BY <1>6, <1>7 DEF m, n, N

\* A pattern joined of parts is a part
LEMMA JoinedPart ==
  ASSUME NEW J, NEW P, NEW Q, Part(P), Part(Q), Joins(J, P, Q),
         AnchorsOf(P, 1..StageCount(P)) \cap AnchorsOf(Q, 1..StageCount(Q)) = {}
  PROVE  Part(J)
<1> DEFINE m == StageCount(P)
           n == StageCount(Q)
           N == StageCount(J)
<1>1. /\ m \in Nat /\ n \in Nat /\ N = m + n
      /\ \A s \in 1..m : J.stages[s] = P.stages[s]
      /\ \A s \in 1..n : J.stages[m + s] = Q.stages[s]
      /\ IsSequence(J.stages)
      /\ J.temporal = P.temporal \cup Q.temporal
      /\ J.unordered_groups = P.unordered_groups \cup Shifted(Q.unordered_groups, m)
  BY DEF Joins
<1>2. /\ \A s \in 1..m : Segment(J, s) = Segment(P, s)
      /\ \A s \in 1..n : \A t : t \in Segment(J, m + s) <=> t \in Int /\ t - m \in Segment(Q, s)
  BY JoinedSegments
<1>3. AnchorsOf(J, 1..N) = AnchorsOf(P, 1..m) \cup AnchorsOf(Q, 1..n)
  BY JoinedVars
<1> HIDE DEF m, n, N
<1>4. \A s \in 1..N : s \in 1..m \/ \E k \in 1..n : s = m + k
  BY <1>1, JoinedSplit
<1>5. /\ Blocks(P) /\ \A s \in 1..m : SearchableStage(P.stages[s])
      /\ \A g \in P.unordered_groups : g \subseteq 1..m
      /\ \A tc \in P.temporal : {tc.left, tc.right} \subseteq AnchorsOf(P, 1..m)
      /\ Blocks(Q) /\ \A s \in 1..n : SearchableStage(Q.stages[s])
      /\ \A g \in Q.unordered_groups : g \subseteq 1..n
      /\ \A tc \in Q.temporal : {tc.left, tc.right} \subseteq AnchorsOf(Q, 1..n)
  BY DEF Part, Searchable, m, n
<1>6. \A s \in 1..N : SearchableStage(J.stages[s])
  BY <1>1, <1>4, <1>5
<1>7. ASSUME NEW s \in 1..N, NEW t \in 1..N, J.stages[s].anchor = J.stages[t].anchor
      PROVE  s = t
  <2>1. (\A k \in 1..m : P.stages[k].anchor \in AnchorsOf(P, 1..m))
        /\ (\A k \in 1..n : Q.stages[k].anchor \in AnchorsOf(Q, 1..n))
    BY DEF AnchorsOf
  <2>2. AnchorsOf(P, 1..m) \cap AnchorsOf(Q, 1..n) = {}
    BY DEF m, n
  <2>3. (\A k, l \in 1..m : P.stages[k].anchor = P.stages[l].anchor => k = l)
        /\ (\A k, l \in 1..n : Q.stages[k].anchor = Q.stages[l].anchor => k = l)
    BY <1>5 DEF Blocks, m, n
  <2>4. CASE s \in 1..m /\ t \in 1..m
    BY <1>1, <1>7, <2>3, <2>4
  <2>5. ASSUME NEW k \in 1..n, s = m + k
        PROVE  s = t
    <3>1. t \notin 1..m
      BY <1>1, <1>7, <2>1, <2>2, <2>5
    <3>2. PICK l \in 1..n : t = m + l
      BY <1>4, <3>1
    <3> QED BY <1>1, <1>7, <2>3, <2>5, <3>2
  <2>6. ASSUME NEW k \in 1..n, t = m + k
        PROVE  s = t
    <3>1. s \notin 1..m
      BY <1>1, <1>7, <2>1, <2>2, <2>6
    <3>2. PICK l \in 1..n : s = m + l
      BY <1>4, <3>1
    <3> QED BY <1>1, <1>7, <2>3, <2>6, <3>2
  <2> QED BY <1>4, <2>4, <2>5, <2>6
<1>8. ASSUME NEW s \in 1..N
      PROVE  \E lo \in 1..s, hi \in s..N : \A t \in lo..hi : Segment(J, t) = lo..hi
  <2>1. CASE s \in 1..m
    <3>1. PICK lo \in 1..s, hi \in s..m : \A t \in lo..hi : Segment(P, t) = lo..hi
      BY <1>5, <2>1 DEF Blocks, m
    <3>2. \A t \in lo..hi : t \in 1..m
      BY <1>1, <2>1
    <3>3. \A t \in lo..hi : Segment(J, t) = lo..hi
      BY <1>2, <3>1, <3>2
    <3>4. hi \in s..N
      BY <1>1, <2>1
    <3> QED BY <3>3, <3>4
  <2>2. ASSUME NEW k \in 1..n, s = m + k
        PROVE  \E lo \in 1..s, hi \in s..N : \A t \in lo..hi : Segment(J, t) = lo..hi
    <3>1. PICK lo \in 1..k, hi \in k..n : \A t \in lo..hi : Segment(Q, t) = lo..hi
      BY <1>5 DEF Blocks, n
    <3> DEFINE a == m + lo
               b == m + hi
    <3>2. a \in 1..s /\ b \in s..N
      BY <1>1, <2>2
    <3>3. ASSUME NEW t \in a..b
          PROVE  Segment(J, t) = a..b
      <4>1. t - m \in lo..hi /\ t - m \in 1..n /\ t = m + (t - m)
        BY <1>1, <2>2
      <4>2. \A u : u \in Segment(J, t) <=> u \in Int /\ u - m \in Segment(Q, t - m)
        BY <1>2, <4>1
      <4>3. Segment(Q, t - m) = lo..hi
        BY <3>1, <4>1
      <4>4. \A u : u \in Segment(J, t) <=> u \in a..b
        BY <1>1, <4>2, <4>3
      <4> QED BY <4>4
    <3> HIDE DEF a, b
    <3> QED BY <3>2, <3>3
  <2> QED BY <1>4, <2>1, <2>2
<1>9. ASSUME NEW g \in J.unordered_groups
      PROVE  g \subseteq 1..N
  <2>1. CASE g \in P.unordered_groups
    BY <1>1, <1>5, <2>1
  <2>2. ASSUME NEW h \in Q.unordered_groups, g = {i + m : i \in h}
        PROVE  g \subseteq 1..N
    <3>1. \A i \in h : i \in 1..n
      BY <1>5
    <3>2. \A i \in 1..n : i + m \in 1..N
      BY <1>1
    <3> QED BY <2>2, <3>1, <3>2
  <2> QED BY <1>1, <2>1, <2>2 DEF Shifted
<1>10. \A tc \in J.temporal : {tc.left, tc.right} \subseteq AnchorsOf(J, 1..N)
  BY <1>1, <1>3, <1>5
<1>11. N \in Nat
  BY <1>1
<1>12. Searchable(J)
  BY <1>6, <1>7, <1>8, <1>11 DEF Searchable, Blocks, N
<1> QED BY <1>1, <1>9, <1>10, <1>12 DEF Part, N

-----------------------------------------------------------------------------
(* What occurs of a pattern joined of parts                                *)

\* Segments are of the pattern's own stages
LEMMA PartSegments ==
  ASSUME NEW p, Part(p), NEW s \in 1..StageCount(p)
  PROVE  Segment(p, s) \subseteq 1..StageCount(p)
<1>1. \A g \in p.unordered_groups : g \subseteq 1..StageCount(p)
  BY DEF Part
<1>2. UnorderedGroup(p, s) \subseteq 1..StageCount(p)
  BY <1>1 DEF UnorderedGroup
<1> QED BY <1>2 DEF Segment

\* Segments follow each other in each part as they do in the whole, and none of
\* the second part comes before one of the first
LEMMA JoinedNext ==
  ASSUME NEW J, NEW P, NEW Q, Part(P), Part(Q), Joins(J, P, Q)
  PROVE  /\ \A s, t \in 1..StageCount(P) : NextSegment(J, s, t) <=> NextSegment(P, s, t)
         /\ \A s, t \in 1..StageCount(Q) :
              NextSegment(J, StageCount(P) + s, StageCount(P) + t) <=> NextSegment(Q, s, t)
         /\ \A s \in 1..StageCount(Q), t \in 1..StageCount(P) : ~NextSegment(J, StageCount(P) + s, t)
         /\ \A s \in 1..StageCount(P), t \in 1..StageCount(Q) : ~SameGroup(J, s, StageCount(P) + t)
<1> DEFINE m == StageCount(P)
           n == StageCount(Q)
<1>1. m \in Nat /\ n \in Nat
  BY DEF Joins
<1>2. /\ \A s \in 1..m : Segment(J, s) = Segment(P, s)
      /\ \A s \in 1..n : \A t : t \in Segment(J, m + s) <=> t \in Int /\ t - m \in Segment(Q, s)
  BY JoinedSegments
<1>3. (\A s \in 1..m : Segment(P, s) \subseteq 1..m) /\ \A s \in 1..n : Segment(Q, s) \subseteq 1..n
  BY PartSegments
<1> HIDE DEF m, n
<1>4. ASSUME NEW s \in 1..m, NEW t \in 1..m
      PROVE  NextSegment(J, s, t) <=> NextSegment(P, s, t)
  BY <1>2 DEF NextSegment
<1>5. ASSUME NEW s \in 1..n, NEW t \in 1..n
      PROVE  NextSegment(J, m + s, m + t) <=> NextSegment(Q, s, t)
  <2> DEFINE S == Segment(J, m + s)
             T == Segment(J, m + t)
             U == Segment(Q, s)
             V == Segment(Q, t)
  <2>1. (\A k : k \in S <=> k \in Int /\ k - m \in U) /\ \A k : k \in T <=> k \in Int /\ k - m \in V
    BY <1>2
  <2>2. (\A k \in U : k \in Int) /\ \A k \in V : k \in Int
    BY <1>3
  <2>3. NextSegment(J, m + s, m + t) <=>
          \E l \in S, r \in T : r = l + 1 /\ (\A k \in S : k <= l) /\ \A k \in T : r <= k
    BY Zenon DEF NextSegment
  <2>4. NextSegment(Q, s, t) <=>
          \E l \in U, r \in V : r = l + 1 /\ (\A k \in U : k <= l) /\ \A k \in V : r <= k
    BY Zenon DEF NextSegment
  <2> HIDE DEF S, T, U, V
  <2>5. ASSUME NEW l \in S, NEW r \in T, r = l + 1, \A k \in S : k <= l, \A k \in T : r <= k
        PROVE  l - m \in U /\ r - m \in V /\ r - m = (l - m) + 1
               /\ (\A k \in U : k <= l - m) /\ \A k \in V : r - m <= k
    <3>1. l \in Int /\ r \in Int /\ l - m \in U /\ r - m \in V
      BY <2>1
    <3>2. ASSUME NEW k \in U
          PROVE  k <= l - m
      <4>1. k + m \in Int /\ (k + m) - m = k
        BY <1>1, <2>2
      <4>2. k + m <= l
        BY <2>1, <2>5, <4>1
      <4> QED BY <1>1, <2>2, <3>1, <4>2
    <3>3. ASSUME NEW k \in V
          PROVE  r - m <= k
      <4>1. k + m \in Int /\ (k + m) - m = k
        BY <1>1, <2>2
      <4>2. r <= k + m
        BY <2>1, <2>5, <4>1
      <4> QED BY <1>1, <2>2, <3>1, <4>2
    <3> QED BY <1>1, <2>5, <3>1, <3>2, <3>3
  <2>6. ASSUME NEW l \in U, NEW r \in V, r = l + 1, \A k \in U : k <= l, \A k \in V : r <= k
        PROVE  l + m \in S /\ r + m \in T /\ r + m = (l + m) + 1
               /\ (\A k \in S : k <= l + m) /\ \A k \in T : r + m <= k
    <3>1. l \in Int /\ r \in Int /\ (l + m) - m = l /\ (r + m) - m = r /\ l + m \in Int /\ r + m \in Int
      BY <1>1, <2>2
    <3>2. l + m \in S /\ r + m \in T
      BY <2>1, <3>1
    <3>3. \A k \in S : k <= l + m
      BY <1>1, <2>1, <2>6, <3>1
    <3>4. \A k \in T : r + m <= k
      BY <1>1, <2>1, <2>6, <3>1
    <3> QED BY <1>1, <2>6, <3>1, <3>2, <3>3, <3>4
  <2> QED BY <2>3, <2>4, <2>5, <2>6
<1>6. ASSUME NEW s \in 1..n, NEW t \in 1..m
      PROVE  ~NextSegment(J, m + s, t)
  <2> SUFFICES ASSUME NEW l \in Segment(J, m + s), NEW r \in Segment(J, t), r = l + 1
               PROVE  FALSE
    BY DEF NextSegment
  <2>1. l \in Int /\ l - m \in 1..n
    BY <1>2, <1>3
  <2>2. r \in 1..m
    BY <1>2, <1>3
  <2> QED BY <1>1, <2>1, <2>2
<1>7. ASSUME NEW s \in 1..m, NEW t \in 1..n
      PROVE  ~SameGroup(J, s, m + t)
  <2> SUFFICES ASSUME NEW g \in J.unordered_groups, s \in g, m + t \in g
               PROVE  FALSE
    BY DEF SameGroup
  <2>1. m + t \in UnorderedGroup(J, s)
    BY DEF UnorderedGroup
  <2>2. m + t \in Segment(J, s)
    BY <2>1 DEF Segment, InGroup
  <2>3. m + t \in 1..m
    BY <1>2, <1>3, <2>2
  <2> QED BY <1>1, <2>3
<1> QED BY <1>4, <1>5, <1>6, <1>7 DEF m, n

\* The stages are in order when those of each part are and the first part is
\* before the second
LEMMA JoinedOrdered ==
  ASSUME NEW J, NEW P, NEW Q, Part(P), Part(Q), Joins(J, P, Q), Part(J), NEW ivs,
         \A x \in AnchorsOf(J, 1..StageCount(J)) : x \in DOMAIN ivs /\ ivs[x].start \in Int
  PROVE  StagesOrdered(J, ivs) <=>
           /\ StagesOrdered(P, ivs) /\ StagesOrdered(Q, ivs)
           /\ \A s \in 1..StageCount(P), t \in 1..StageCount(Q) :
                ivs[P.stages[s].anchor].start < ivs[Q.stages[t].anchor].start
<1> DEFINE m == StageCount(P)
           n == StageCount(Q)
           N == StageCount(J)
           T(k) == ivs[J.stages[k].anchor].start
<1>1. /\ m \in Nat /\ n \in Nat /\ N = m + n
      /\ \A s \in 1..m : J.stages[s] = P.stages[s]
      /\ \A s \in 1..n : J.stages[m + s] = Q.stages[s]
  BY DEF Joins
<1>2. /\ \A s, t \in 1..m : NextSegment(J, s, t) <=> NextSegment(P, s, t)
      /\ \A s, t \in 1..n : NextSegment(J, m + s, m + t) <=> NextSegment(Q, s, t)
      /\ \A s \in 1..n, t \in 1..m : ~NextSegment(J, m + s, t)
      /\ \A s \in 1..m, t \in 1..n : ~SameGroup(J, s, m + t)
  BY JoinedNext
<1>3. \A s \in 1..N : J.stages[s].anchor \in DOMAIN ivs /\ T(s) \in Int
  BY DEF AnchorsOf
<1>4. StagesOrdered(J, ivs) <=> \A s, t \in 1..N : NextSegment(J, s, t) => T(s) < T(t)
  BY <1>3 DEF StagesOrdered
<1> HIDE DEF m, n, N
<1>5. (\A s \in 1..m : s \in 1..N) /\ (\A s \in 1..n : m + s \in 1..N)
  BY <1>1
<1>6. \A s \in 1..N : s \in 1..m \/ \E k \in 1..n : s = m + k
  BY <1>1, JoinedSplit
<1>7. StagesOrdered(P, ivs) <=> \A s, t \in 1..m : NextSegment(J, s, t) => T(s) < T(t)
  <2>1. \A s \in 1..m : P.stages[s].anchor \in DOMAIN ivs /\ ivs[P.stages[s].anchor].start = T(s)
    BY <1>1, <1>3, <1>5
  <2> HIDE DEF T
  <2>2. StagesOrdered(P, ivs) <=> \A s, t \in 1..m : NextSegment(P, s, t) => T(s) < T(t)
    BY <2>1 DEF StagesOrdered, m
  <2> QED BY <1>2, <2>2
<1>8. StagesOrdered(Q, ivs) <=> \A s, t \in 1..n : NextSegment(J, m + s, m + t) => T(m + s) < T(m + t)
  <2>1. \A s \in 1..n : Q.stages[s].anchor \in DOMAIN ivs /\ ivs[Q.stages[s].anchor].start = T(m + s)
    BY <1>1, <1>3, <1>5
  <2> HIDE DEF T
  <2>2. StagesOrdered(Q, ivs) <=> \A s, t \in 1..n : NextSegment(Q, s, t) => T(m + s) < T(m + t)
    BY <2>1 DEF StagesOrdered, n
  <2> QED BY <1>2, <2>2
<1>9. ASSUME StagesOrdered(J, ivs), NEW s \in 1..m, NEW t \in 1..n
      PROVE  T(s) < T(m + t)
  <2>1. s \in 1..N /\ m + t \in 1..N /\ s < m + t
    BY <1>1, <1>5
  <2>2. Blocks(J)
    BY DEF Part, Searchable
  <2> HIDE DEF T
  <2>3. ivs[J.stages[s].anchor].start < ivs[J.stages[m + t].anchor].start
    BY <1>2, <1>9, <2>1, <2>2, StartsOrdered DEF N
  <2> QED BY <2>3 DEF T
<1>10. \A s \in 1..m, t \in 1..n :
         T(s) < T(m + t) <=> ivs[P.stages[s].anchor].start < ivs[Q.stages[t].anchor].start
  BY <1>1
<1> HIDE DEF T
<1>11. ASSUME StagesOrdered(P, ivs), StagesOrdered(Q, ivs),
              \A s \in 1..m, t \in 1..n : T(s) < T(m + t),
              NEW s \in 1..N, NEW t \in 1..N, NextSegment(J, s, t)
       PROVE  T(s) < T(t)
  <2>1. CASE s \in 1..m /\ t \in 1..m
    BY <1>7, <1>11, <2>1
  <2>2. ASSUME NEW k \in 1..n, s = m + k
        PROVE  T(s) < T(t)
    <3>1. t \notin 1..m
      BY <1>2, <1>11, <2>2
    <3>2. PICK l \in 1..n : t = m + l
      BY <1>6, <3>1
    <3> QED BY <1>8, <1>11, <2>2, <3>2
  <2>3. ASSUME s \in 1..m, NEW l \in 1..n, t = m + l
        PROVE  T(s) < T(t)
    BY <1>11, <2>3
  <2> QED BY <1>6, <2>1, <2>2, <2>3
<1> QED BY <1>4, <1>5, <1>7, <1>8, <1>9, <1>10, <1>11 DEF m, n

\* Maps with the same entries are the same
LEMMA SameMap ==
  ASSUME NEW f, NEW h, IsMap(f), IsMap(h), DOMAIN f = DOMAIN h, \A x \in DOMAIN f : f[x] = h[x]
  PROVE  f = h
<1>1. Within(f, DOMAIN f) = Within(h, DOMAIN f)
  BY DEF Within
<1> QED BY <1>1, Zenon DEF IsMap

\* A part of a map
LEMMA WithinIs ==
  ASSUME NEW f, NEW W
  PROVE  /\ IsMap(Within(f, W)) /\ DOMAIN Within(f, W) = W
         /\ \A x \in W : Within(f, W)[x] = f[x]
         /\ W \subseteq DOMAIN f => Extends(f, Within(f, W))
BY DEF IsMap, Within, Extends

\* A map laid over another
LEMMA OverlayIs ==
  ASSUME NEW f, NEW h
  PROVE  /\ IsMap(Overlay(f, h)) /\ DOMAIN Overlay(f, h) = DOMAIN f \cup DOMAIN h
         /\ \A x \in DOMAIN f : Overlay(f, h)[x] = f[x]
         /\ \A x \in DOMAIN h : x \notin DOMAIN f => Overlay(f, h)[x] = h[x]
         /\ Extends(Overlay(f, h), f)
         /\ (\A x \in DOMAIN f \cap DOMAIN h : f[x] = h[x]) => Extends(Overlay(f, h), h)
BY DEF IsMap, Within, Overlay, Extends

\* Maps that agree are both parts of one laid over the other
LEMMA OverlayExtends ==
  ASSUME NEW f, NEW h, \A x \in DOMAIN f \cap DOMAIN h : f[x] = h[x]
  PROVE  Extends(Overlay(f, h), h)
BY DEF Overlay, Extends

\* ... entry by entry
LEMMA OverlayAt ==
  ASSUME NEW f, NEW h, NEW x \in DOMAIN f \cup DOMAIN h
  PROVE  Overlay(f, h)[x] = IF x \in DOMAIN f THEN f[x] ELSE h[x]
BY DEF Overlay

\* What happened of p, among more
OccursWithin(p, B, ivs) ==
  /\ PatternVars(p) \subseteq DOMAIN B /\ AnchorsOf(p, 1..StageCount(p)) \subseteq DOMAIN ivs
  /\ \A s \in 1..StageCount(p) : Event(p.stages[s], B, ivs[p.stages[s].anchor])
  /\ CheckTemporal(p, ivs)

\* Whether it did is seen from its own bindings and intervals
LEMMA WithinSame ==
  ASSUME NEW p, Part(p), NEW B, NEW ivs, NEW b, NEW own, Extends(B, b), Extends(ivs, own),
         PatternVars(p) \subseteq DOMAIN b, AnchorsOf(p, 1..StageCount(p)) \subseteq DOMAIN own
  PROVE  OccursWithin(p, b, own) <=> OccursWithin(p, B, ivs)
<1> DEFINE N == StageCount(p)
<1>1. PatternVars(p) \subseteq DOMAIN B /\ AnchorsOf(p, 1..N) \subseteq DOMAIN ivs
  BY DEF Extends
<1>2. \A x \in AnchorsOf(p, 1..N) : x \in DOMAIN own /\ x \in DOMAIN ivs /\ ivs[x] = own[x]
  BY DEF Extends
<1>3. ASSUME NEW s \in 1..N
      PROVE  Event(p.stages[s], b, own[p.stages[s].anchor]) <=> Event(p.stages[s], B, ivs[p.stages[s].anchor])
  <2> DEFINE stage == p.stages[s]
  <2>1. SearchableStage(stage) /\ StageVars(stage) \subseteq DOMAIN b
    BY DEF Part, Searchable, PatternVars, VarsOf
  <2>2. AboutOneEvent(stage) /\ Len(stage.clauses) \in Nat
    BY <2>1, LenProperties DEF SearchableStage
  <2>3. stage.anchor \in AnchorsOf(p, 1..N)
    BY DEF AnchorsOf
  <2> HIDE DEF stage
  <2>4. \A e : Fits(graph, stage, e, b) <=> Fits(graph, stage, e, B)
    BY <2>1, <2>2, FitsGrows
  <2>5. own[stage.anchor] = ivs[stage.anchor]
    BY <1>2, <2>3
  <2>6. Event(stage, b, own[stage.anchor]) <=> Event(stage, B, ivs[stage.anchor])
    BY <2>4, <2>5 DEF Event
  <2> QED BY <2>6 DEF stage
<1>4. StagesOrdered(p, own) <=> StagesOrdered(p, ivs)
  <2>1. \A s \in 1..N : p.stages[s].anchor \in AnchorsOf(p, 1..N)
    BY DEF AnchorsOf
  <2>2. \A s \in 1..N : /\ p.stages[s].anchor \in DOMAIN own /\ p.stages[s].anchor \in DOMAIN ivs
                        /\ own[p.stages[s].anchor] = ivs[p.stages[s].anchor]
    BY <1>2, <2>1
  <2> QED BY <2>2 DEF StagesOrdered
<1>5. ASSUME NEW tc \in p.temporal
      PROVE  ConstraintHolds(tc, own) <=> ConstraintHolds(tc, ivs)
  <2>1. {tc.left, tc.right} \subseteq AnchorsOf(p, 1..N)
    BY DEF Part
  <2>2. /\ {tc.left, tc.right} \subseteq DOMAIN own /\ {tc.left, tc.right} \subseteq DOMAIN ivs
        /\ own[tc.left] = ivs[tc.left] /\ own[tc.right] = ivs[tc.right]
    BY <1>2, <2>1
  <2> QED BY <2>2 DEF ConstraintHolds
<1>6. CheckTemporal(p, own) <=> CheckTemporal(p, ivs)
  BY <1>4, <1>5 DEF CheckTemporal
<1> QED BY <1>1, <1>3, <1>6 DEF OccursWithin

\* What occurs has happened, and nothing more
LEMMA OccursIs ==
  ASSUME NEW p, NEW B, NEW ivs
  PROVE  Occurs(p, B, ivs) <=>
           /\ IsMap(B) /\ DOMAIN B = PatternVars(p)
           /\ IsMap(ivs) /\ DOMAIN ivs = AnchorsOf(p, 1..StageCount(p))
           /\ OccursWithin(p, B, ivs)
BY DEF Occurs, OccursWithin

\* The starts of what happened are times
LEMMA OccursStarts ==
  ASSUME EventVocabulary, TypeOK, EventsInOrder, NEW p, NEW B, NEW ivs,
         OccursWithin(p, B, ivs), NEW x \in AnchorsOf(p, 1..StageCount(p))
  PROVE  x \in DOMAIN ivs /\ ivs[x].start \in Int /\ ivs[x].start <= now
<1>1. PICK s \in 1..StageCount(p) : x = p.stages[s].anchor
  BY DEF AnchorsOf
<1>2. Event(p.stages[s], B, ivs[x])
  BY <1>1 DEF OccursWithin
<1>3. PICK n \in DOMAIN graph : ivs[x] = graph[n].interval
  BY <1>2 DEF Event
<1>4. graph[n].interval.start \in Int /\ graph[n].interval.start <= now
  BY EdgesHold
<1> QED BY <1>3, <1>4 DEF OccursWithin

\* All of one occurrence before all of another
Earlier(own, other) ==
  \A x \in DOMAIN own, y \in DOMAIN other : own[x].start < other[y].start

Agree(b, c) == \A x \in DOMAIN b \cap DOMAIN c : b[x] = c[x]

\* A pattern joined of parts has happened when one part has and then the other
LEMMA JoinedWithin ==
  ASSUME EventVocabulary, TypeOK, EventsInOrder,
         NEW J, NEW P, NEW Q, Part(P), Part(Q), Joins(J, P, Q), Part(J), NEW B, NEW ivs
  PROVE  OccursWithin(J, B, ivs) <=>
           /\ OccursWithin(P, B, ivs) /\ OccursWithin(Q, B, ivs)
           /\ \A x \in AnchorsOf(P, 1..StageCount(P)), y \in AnchorsOf(Q, 1..StageCount(Q)) :
                ivs[x].start < ivs[y].start
<1> DEFINE m == StageCount(P)
           n == StageCount(Q)
           N == StageCount(J)
           Order == \A s \in 1..m, t \in 1..n :
                      ivs[P.stages[s].anchor].start < ivs[Q.stages[t].anchor].start
           Seen(p) == /\ PatternVars(p) \subseteq DOMAIN B
                      /\ AnchorsOf(p, 1..StageCount(p)) \subseteq DOMAIN ivs
                      /\ \A s \in 1..StageCount(p) : Event(p.stages[s], B, ivs[p.stages[s].anchor])
           Timed(p) == \A tc \in p.temporal : ConstraintHolds(tc, ivs)
<1>1. /\ m \in Nat /\ n \in Nat /\ N = m + n
      /\ \A s \in 1..m : J.stages[s] = P.stages[s]
      /\ \A s \in 1..n : J.stages[m + s] = Q.stages[s]
      /\ J.temporal = P.temporal \cup Q.temporal
  BY DEF Joins
<1>2. /\ PatternVars(J) = PatternVars(P) \cup PatternVars(Q)
      /\ AnchorsOf(J, 1..N) = AnchorsOf(P, 1..m) \cup AnchorsOf(Q, 1..n)
  BY JoinedVars
<1>3. \A p : OccursWithin(p, B, ivs) <=> Seen(p) /\ StagesOrdered(p, ivs) /\ Timed(p)
  BY DEF OccursWithin, CheckTemporal
<1>4. Order <=> \A x \in AnchorsOf(P, 1..m), y \in AnchorsOf(Q, 1..n) : ivs[x].start < ivs[y].start
  BY DEF AnchorsOf
<1>5. Seen(J) <=> Seen(P) /\ Seen(Q)
  <2>1. /\ (\A s \in 1..m : s \in 1..N) /\ \A s \in 1..n : m + s \in 1..N
        /\ \A s \in 1..N : s \in 1..m \/ \E k \in 1..n : s = m + k
    <3> HIDE DEF m, n, N
    <3> QED BY <1>1, JoinedSplit
  <2> DEFINE All(p, k) == \A s \in 1..k : Event(p.stages[s], B, ivs[p.stages[s].anchor])
  <2>2. All(J, N) <=> All(P, m) /\ All(Q, n)
    <3> HIDE DEF m, n, N
    <3>1. All(J, N) => All(P, m)
      BY <1>1, <2>1
    <3>2. All(J, N) => All(Q, n)
      BY <1>1, <2>1
    <3>3. ASSUME All(P, m), All(Q, n), NEW s \in 1..N
          PROVE  Event(J.stages[s], B, ivs[J.stages[s].anchor])
      <4>1. CASE s \in 1..m
        BY <1>1, <3>3, <4>1
      <4>2. ASSUME NEW k \in 1..n, s = m + k
            PROVE  Event(J.stages[s], B, ivs[J.stages[s].anchor])
        <5>1. J.stages[s] = Q.stages[k]
          BY <1>1, <4>2
        <5> QED BY <3>3, <5>1
      <4> QED BY <2>1, <4>1, <4>2
    <3> QED BY <3>1, <3>2, <3>3
  <2>3. \A p : Seen(p) <=> /\ PatternVars(p) \subseteq DOMAIN B
                           /\ AnchorsOf(p, 1..StageCount(p)) \subseteq DOMAIN ivs
                           /\ All(p, StageCount(p))
    OBVIOUS
  <2> HIDE DEF All, Seen
  <2>4. Seen(J) <=> PatternVars(J) \subseteq DOMAIN B /\ AnchorsOf(J, 1..N) \subseteq DOMAIN ivs /\ All(J, N)
    BY <2>3
  <2>5. Seen(P) <=> PatternVars(P) \subseteq DOMAIN B /\ AnchorsOf(P, 1..m) \subseteq DOMAIN ivs /\ All(P, m)
    BY <2>3
  <2>6. Seen(Q) <=> PatternVars(Q) \subseteq DOMAIN B /\ AnchorsOf(Q, 1..n) \subseteq DOMAIN ivs /\ All(Q, n)
    BY <2>3
  <2> HIDE DEF m, n, N
  <2> QED BY <1>2, <2>2, <2>4, <2>5, <2>6
<1>6. Timed(J) <=> Timed(P) /\ Timed(Q)
  BY <1>1
<1>7. ASSUME Seen(P), Seen(Q)
      PROVE  StagesOrdered(J, ivs) <=> StagesOrdered(P, ivs) /\ StagesOrdered(Q, ivs) /\ Order
  <2>1. ASSUME NEW p, Seen(p), NEW x \in AnchorsOf(p, 1..StageCount(p))
        PROVE  x \in DOMAIN ivs /\ ivs[x].start \in Int
    <3>1. PICK s \in 1..StageCount(p) : x = p.stages[s].anchor
      BY <2>1 DEF AnchorsOf
    <3>2. PICK k \in DOMAIN graph : ivs[x] = graph[k].interval
      BY <2>1, <3>1 DEF Event
    <3>3. graph[k].interval.start \in Int
      BY EdgesHold
    <3> QED BY <2>1, <3>2, <3>3
  <2>2. \A x \in AnchorsOf(J, 1..N) : x \in DOMAIN ivs /\ ivs[x].start \in Int
    <3> HIDE DEF Seen
    <3> QED BY <1>2, <1>7, <2>1
  <2> QED BY <2>2, JoinedOrdered
<1> HIDE DEF Seen, Timed, Order, m, n, N
<1>8. OccursWithin(J, B, ivs) <=> OccursWithin(P, B, ivs) /\ OccursWithin(Q, B, ivs) /\ Order
  BY <1>3, <1>5, <1>6, <1>7
<1> QED BY <1>4, <1>8 DEF m, n

\* A map is what two parts of it make together
LEMMA Reassembled ==
  ASSUME NEW f, IsMap(f), NEW V, NEW W, DOMAIN f = V \cup W
  PROVE  f = Overlay(Within(f, V), Within(f, W))
<1> DEFINE b == Within(f, V)
           c == Within(f, W)
           O == Overlay(b, c)
<1>1. DOMAIN b = V /\ DOMAIN c = W /\ (\A x \in V : b[x] = f[x]) /\ \A x \in W : c[x] = f[x]
  BY WithinIs
<1> HIDE DEF b, c
<1>2. IsMap(O) /\ DOMAIN O = V \cup W
  BY <1>1, OverlayIs
<1>3. ASSUME NEW x \in DOMAIN f
      PROVE  f[x] = O[x]
  <2>1. x \in DOMAIN b \cup DOMAIN c
    BY <1>1
  <2>2. O[x] = IF x \in DOMAIN b THEN b[x] ELSE c[x]
    BY <2>1, OverlayAt
  <2> HIDE DEF O
  <2> QED BY <1>1, <2>1, <2>2
<1> HIDE DEF O
<1>4. f = O
  BY <1>2, <1>3, SameMap
<1> QED BY <1>4 DEF O, b, c

\* B and ivs are of an occurrence of P and then one of Q
Succession(P, Q, B, ivs) ==
  \E b, own, c, other :
    /\ Occurs(P, b, own) /\ Occurs(Q, c, other)
    /\ Earlier(own, other) /\ Agree(b, c)
    /\ B = Overlay(b, c) /\ ivs = Overlay(own, other)

\* A pattern joined of parts occurs when one part does and then the other
LEMMA JoinedOccurs ==
  ASSUME EventVocabulary, TypeOK, EventsInOrder,
         NEW J, NEW P, NEW Q, Part(P), Part(Q), Joins(J, P, Q),
         AnchorsOf(P, 1..StageCount(P)) \cap AnchorsOf(Q, 1..StageCount(Q)) = {},
         NEW B, NEW ivs
  PROVE  Occurs(J, B, ivs) <=> Succession(P, Q, B, ivs)
<1> DEFINE X == AnchorsOf(P, 1..StageCount(P))
           Y == AnchorsOf(Q, 1..StageCount(Q))
           V == PatternVars(P)
           W == PatternVars(Q)
<1>1. Part(J)
  BY JoinedPart
<1>2. PatternVars(J) = V \cup W /\ AnchorsOf(J, 1..StageCount(J)) = X \cup Y /\ X \cap Y = {}
  BY JoinedVars
<1>3. \A b, own : OccursWithin(J, b, own) <=>
        /\ OccursWithin(P, b, own) /\ OccursWithin(Q, b, own)
        /\ \A x \in X, y \in Y : own[x].start < own[y].start
  BY <1>1, JoinedWithin
<1>4. ASSUME Occurs(J, B, ivs)
      PROVE  Succession(P, Q, B, ivs)
  <2> DEFINE b == Within(B, V)
             c == Within(B, W)
             own == Within(ivs, X)
             other == Within(ivs, Y)
  <2>1. /\ IsMap(B) /\ DOMAIN B = V \cup W /\ IsMap(ivs) /\ DOMAIN ivs = X \cup Y
        /\ OccursWithin(P, B, ivs) /\ OccursWithin(Q, B, ivs)
        /\ \A x \in X, y \in Y : ivs[x].start < ivs[y].start
    BY <1>2, <1>3, <1>4, OccursIs
  <2> HIDE DEF X, Y, V, W
  <2>2. /\ IsMap(b) /\ DOMAIN b = V /\ Extends(B, b) /\ \A x \in V : b[x] = B[x]
        /\ IsMap(c) /\ DOMAIN c = W /\ Extends(B, c) /\ \A x \in W : c[x] = B[x]
    BY <2>1, WithinIs
  <2>3. /\ IsMap(own) /\ DOMAIN own = X /\ Extends(ivs, own) /\ \A x \in X : own[x] = ivs[x]
        /\ IsMap(other) /\ DOMAIN other = Y /\ Extends(ivs, other) /\ \A x \in Y : other[x] = ivs[x]
    BY <2>1, WithinIs
  <2> HIDE DEF b, c, own, other
  <2>4. OccursWithin(P, b, own)
    BY <2>1, <2>2, <2>3, WithinSame DEF V, X
  <2>5. OccursWithin(Q, c, other)
    BY <2>1, <2>2, <2>3, WithinSame DEF W, Y
  <2>6. Occurs(P, b, own) /\ Occurs(Q, c, other)
    BY <2>2, <2>3, <2>4, <2>5, OccursIs DEF V, W, X, Y
  <2>7. Earlier(own, other)
    BY <2>1, <2>3 DEF Earlier
  <2>8. Agree(b, c)
    BY <2>2 DEF Agree
  <2>9. B = Overlay(b, c)
    BY <2>1, Reassembled DEF b, c
  <2>10. ivs = Overlay(own, other)
    BY <2>1, Reassembled DEF own, other
  <2> QED BY <2>6, <2>7, <2>8, <2>9, <2>10 DEF Succession
<1>5. ASSUME Succession(P, Q, B, ivs)
      PROVE  Occurs(J, B, ivs)
  <2>1. PICK b, own, c, other :
          /\ Occurs(P, b, own) /\ Occurs(Q, c, other)
          /\ Earlier(own, other) /\ Agree(b, c)
          /\ B = Overlay(b, c) /\ ivs = Overlay(own, other)
    BY <1>5 DEF Succession
  <2>2. DOMAIN b = V /\ DOMAIN own = X /\ OccursWithin(P, b, own)
    BY <2>1, OccursIs
  <2>3. DOMAIN c = W /\ DOMAIN other = Y /\ OccursWithin(Q, c, other)
    BY <2>1, OccursIs
  <2>4. Extends(B, b) /\ Extends(B, c) /\ IsMap(B) /\ DOMAIN B = V \cup W
    <3> HIDE DEF V, W
    <3> QED BY <2>1, <2>2, <2>3, OverlayIs DEF Agree
  <2>5. /\ Extends(ivs, own) /\ Extends(ivs, other) /\ IsMap(ivs) /\ DOMAIN ivs = X \cup Y
    <3> HIDE DEF X, Y
    <3> QED BY <1>2, <2>1, <2>2, <2>3, OverlayIs
  <2>6. OccursWithin(P, B, ivs)
    BY <2>2, <2>4, <2>5, WithinSame
  <2>7. OccursWithin(Q, B, ivs)
    BY <2>3, <2>4, <2>5, WithinSame
  <2>8. \A x \in X, y \in Y : ivs[x].start < ivs[y].start
    <3>1. (\A x \in X : ivs[x] = own[x]) /\ \A y \in Y : ivs[y] = other[y]
      BY <2>2, <2>3, <2>5 DEF Extends
    <3> HIDE DEF X, Y
    <3> QED BY <2>1, <2>2, <2>3, <3>1 DEF Earlier
  <2>9. OccursWithin(J, B, ivs)
    BY <1>3, <2>6, <2>7, <2>8
  <2> QED BY <1>2, <2>4, <2>5, <2>9, OccursIs
<1> QED BY <1>4, <1>5

-----------------------------------------------------------------------------
(* A pattern with its variables renamed                                    *)

\* c is d with its variables renamed; so are the stages s and t, the constraints
\* tc and td, and the patterns q and p
ClauseRenamed(c, d, prefix) ==
  /\ c.source = Renamed(d.source, prefix, Shared)
  /\ c.label = d.label /\ c.negated = d.negated
  /\ c.target.kind = d.target.kind
  /\ d.target.kind = "in" => c.target = d.target
  /\ d.target.kind = "bind" => c.target.var = Renamed(d.target.var, prefix, Shared)

StageRenamed(s, t, prefix) ==
  /\ s.anchor = Renamed(t.anchor, prefix, Shared)
  /\ IsSequence(s.clauses) /\ DOMAIN s.clauses = DOMAIN t.clauses
  /\ \A k \in DOMAIN t.clauses : ClauseRenamed(s.clauses[k], t.clauses[k], prefix)

TimesRenamed(tc, td, prefix) ==
  /\ tc.left = Renamed(td.left, prefix, Shared) /\ tc.right = Renamed(td.right, prefix, Shared)
  /\ tc.relation = td.relation /\ tc.gap = td.gap

PatternRenamed(q, p, prefix) ==
  /\ IsSequence(q.stages) /\ DOMAIN q.stages = DOMAIN p.stages
  /\ \A s \in DOMAIN p.stages : StageRenamed(q.stages[s], p.stages[s], prefix)
  /\ q.unordered_groups = p.unordered_groups
  /\ \A tc \in q.temporal : \E td \in p.temporal : TimesRenamed(tc, td, prefix)
  /\ \A td \in p.temporal : \E tc \in q.temporal : TimesRenamed(tc, td, prefix)
  /\ p.negations = {} => q.negations = {}

\* A map with a sequence's indices is a sequence
LEMMA SequenceOn ==
  ASSUME NEW q, IsSequence(q), NEW r, IsMap(r), DOMAIN r = DOMAIN q
  PROVE  IsSequence(r)
<1>1. DOMAIN q = 1..Len(q) /\ Len(q) \in Nat
  BY LenProperties DEF IsSequence
<1>2. r = [i \in 1..Len(q) |-> r[i]]
  BY <1>1, Zenon DEF IsMap, Within
<1>3. [i \in 1..Len(q) |-> r[i]] \in Seq({r[i] : i \in DOMAIN r})
  BY <1>1, IsASeq
<1> QED BY <1>2, <1>3 DEF IsSequence

\* A clause rewritten as rename_vars does
LEMMA ClauseRewritten ==
  ASSUME NEW d, ClauseForm(d), NEW prefix,
         NEW t, t = IF d.target.kind = "in" THEN d.target
                    ELSE [d.target EXCEPT !.var = Renamed(d.target.var, prefix, Shared)],
         NEW c, c = [d EXCEPT !.source = Renamed(d.source, prefix, Shared), !.target = t]
  PROVE  ClauseRenamed(c, d, prefix)
<1>1. c.source = Renamed(d.source, prefix, Shared) /\ c.target = t /\ c.label = d.label /\ c.negated = d.negated
  BY DEF ClauseForm
<1>2. CASE d.target.kind = "in"
  BY <1>1, <1>2 DEF ClauseRenamed
<1>3. CASE d.target.kind # "in"
  <2>1. t.kind = d.target.kind /\ t.var = Renamed(d.target.var, prefix, Shared)
    BY <1>3 DEF ClauseForm
  <2> QED BY <1>1, <1>3, <2>1 DEF ClauseRenamed
<1> QED BY <1>2, <1>3

\* rename_vars renames
LEMMA VarsRenamed ==
  ASSUME NEW p, PatternForm(p), NEW prefix
  PROVE  PatternRenamed(RenameVars(p, prefix, Shared), p, prefix)
<1> DEFINE R(x)       == Renamed(x, prefix, Shared)
           Target(t)  == IF t.kind = "in" THEN t ELSE [t EXCEPT !.var = R(@)]
           Cl(s) == [i \in DOMAIN s |-> [s[i] EXCEPT !.source = R(@), !.target = Target(@)]]
           Stages == [s \in DOMAIN p.stages |-> Stage(R(p.stages[s].anchor), Cl(p.stages[s].clauses))]
           Temporal == {[tc EXCEPT !.left = R(@), !.right = R(@)] : tc \in p.temporal}
           Negations == {Unless(R(neg.between_start), {R(x) : x \in neg.between_end}, Cl(neg.clauses))
                           : neg \in p.negations}
           q == [p EXCEPT !.stages = Stages, !.temporal = Temporal, !.negations = Negations]
<1>1. RenameVars(p, prefix, Shared) = q
  BY DEF RenameVars
<1>2. q.stages = Stages /\ q.temporal = Temporal /\ q.negations = Negations
      /\ q.unordered_groups = p.unordered_groups
  <2> HIDE DEF Stages, Temporal, Negations
  <2> QED BY DEF PatternForm
<1>3. IsMap(Stages) /\ DOMAIN Stages = DOMAIN p.stages
  BY DEF IsMap, Within
<1>4. IsSequence(Stages)
  <2> HIDE DEF Stages
  <2> QED BY <1>3, SequenceOn DEF PatternForm
<1>5. ASSUME NEW s \in DOMAIN p.stages
      PROVE  StageRenamed(Stages[s], p.stages[s], prefix)
  <2> DEFINE cs == p.stages[s].clauses
  <2>1. Stages[s].anchor = R(p.stages[s].anchor) /\ Stages[s].clauses = Cl(cs)
    <3>1. Stages[s] = Stage(R(p.stages[s].anchor), Cl(cs))
      OBVIOUS
    <3> HIDE DEF Stages, Cl, R
    <3> QED BY <3>1 DEF Stage
  <2>2. IsMap(Cl(cs)) /\ DOMAIN Cl(cs) = DOMAIN cs
    BY DEF IsMap, Within
  <2>3. IsSequence(Cl(cs))
    <3>1. PICK r : r = Cl(cs)
      OBVIOUS
    <3>2. IsMap(r) /\ DOMAIN r = DOMAIN cs /\ IsSequence(cs)
      BY <2>2, <3>1 DEF PatternForm
    <3> HIDE DEF Cl, cs
    <3>3. IsSequence(r)
      BY <3>2, SequenceOn
    <3> QED BY <3>1, <3>3
  <2>4. ASSUME NEW k \in DOMAIN cs
        PROVE  ClauseRenamed(Cl(cs)[k], cs[k], prefix)
    <3>1. PICK d : d = cs[k]
      OBVIOUS
    <3>2. PICK t : t = Target(d.target)
      OBVIOUS
    <3>3. PICK c : c = [d EXCEPT !.source = R(d.source), !.target = t]
      OBVIOUS
    <3>4. Cl(cs)[k] = c
      BY <3>1, <3>2, <3>3
    <3>5. ClauseForm(d)
      BY <3>1 DEF PatternForm
    <3>6. ClauseRenamed(c, d, prefix)
      BY <3>2, <3>3, <3>5, ClauseRewritten
    <3> QED BY <3>1, <3>4, <3>6
  <2> HIDE DEF Stages, Cl, cs
  <2>5. StageRenamed(Stages[s], p.stages[s], prefix)
    BY <2>1, <2>2, <2>3, <2>4 DEF StageRenamed, cs
  <2> QED BY <2>5
<1>6. \A td \in p.temporal : TimesRenamed([td EXCEPT !.left = R(@), !.right = R(@)], td, prefix)
  BY DEF PatternForm, TimesRenamed
<1>7. \A tc \in Temporal : \E td \in p.temporal : TimesRenamed(tc, td, prefix)
  <2> HIDE DEF R
  <2> QED BY <1>6
<1>8. \A td \in p.temporal : \E tc \in Temporal : TimesRenamed(tc, td, prefix)
  <2> HIDE DEF R
  <2> QED BY <1>6
<1>9. p.negations = {} => Negations = {}
  OBVIOUS
<1> HIDE DEF Stages, Temporal, Negations, q
<1>10. PatternRenamed(q, p, prefix)
  BY <1>2, <1>3, <1>4, <1>5, <1>7, <1>8, <1>9 DEF PatternRenamed
<1> QED BY <1>1, <1>10

\* Names under a prefix
Renames(D, prefix) == {Renamed(x, prefix, Shared) : x \in D}

\* B is b under other names
Carries(B, b, prefix) ==
  \A x \in DOMAIN b : Renamed(x, prefix, Shared) \in DOMAIN B /\ B[Renamed(x, prefix, Shared)] = b[x]

\* RenameKeys is a map under other names
LEMMA KeysRenamed ==
  ASSUME NEW f, NEW prefix, Apart(DOMAIN f, prefix)
  PROVE  /\ IsMap(RenameKeys(f, prefix)) /\ DOMAIN RenameKeys(f, prefix) = Renames(DOMAIN f, prefix)
         /\ Carries(RenameKeys(f, prefix), f, prefix)
<1> DEFINE r == RenameKeys(f, prefix)
<1>1. IsMap(r) /\ DOMAIN r = Renames(DOMAIN f, prefix)
  BY DEF IsMap, Within, RenameKeys, Renames
<1>2. ASSUME NEW x \in DOMAIN f
      PROVE  r[Renamed(x, prefix, Shared)] = f[x]
  <2> DEFINE y == Renamed(x, prefix, Shared)
             z == CHOOSE z \in DOMAIN f : Renamed(z, prefix, Shared) = y
  <2>1. z \in DOMAIN f /\ Renamed(z, prefix, Shared) = y
    OBVIOUS
  <2>2. z = x
    BY <2>1 DEF Apart
  <2>3. r[y] = f[z]
    BY DEF RenameKeys
  <2> QED BY <2>2, <2>3
<1>3. \A x \in DOMAIN f : Renamed(x, prefix, Shared) \in DOMAIN r
  BY <1>1 DEF Renames
<1> HIDE DEF r
<1>4. Carries(r, f, prefix)
  BY <1>2, <1>3 DEF Carries
<1> QED BY <1>1, <1>4 DEF r

\* Every map of renamed names is one under other names
LEMMA KeysRestored ==
  ASSUME NEW D, NEW prefix, Apart(D, prefix), NEW B, IsMap(B), DOMAIN B = Renames(D, prefix)
  PROVE  \E b : IsMap(b) /\ DOMAIN b = D /\ B = RenameKeys(b, prefix)
<1> DEFINE b == [x \in D |-> B[Renamed(x, prefix, Shared)]]
           r == RenameKeys(b, prefix)
<1>1. IsMap(b) /\ DOMAIN b = D /\ \A x \in D : b[x] = B[Renamed(x, prefix, Shared)]
  BY DEF IsMap, Within
<1> HIDE DEF b
<1>2. IsMap(r) /\ DOMAIN r = DOMAIN B /\ Carries(r, b, prefix)
  BY <1>1, KeysRenamed
<1> HIDE DEF r
<1>3. ASSUME NEW y \in DOMAIN B
      PROVE  B[y] = r[y]
  <2>1. PICK x \in D : y = Renamed(x, prefix, Shared)
    BY <1>3 DEF Renames
  <2> QED BY <1>1, <1>2, <2>1 DEF Carries
<1>4. B = r
  BY <1>2, <1>3, SameMap
<1> QED BY <1>1, <1>4 DEF r

\* What a renamed stage binds
LEMMA RenamedBinds ==
  ASSUME NEW s, NEW t, NEW prefix, StageRenamed(s, t, prefix), AboutOneEvent(t),
         IsSequence(t.clauses),
         NEW k \in 0..Len(t.clauses)
  PROVE  BoundBy(s, k) = Renames(BoundBy(t, k), prefix)
<1> DEFINE R(x) == Renamed(x, prefix, Shared)
<1>1. DOMAIN t.clauses = 1..Len(t.clauses) /\ Len(t.clauses) \in Nat
  BY LenProperties DEF IsSequence
<1>2. \A j \in 1..k : j \in 1..Len(t.clauses)
  BY <1>1
<1>3. \A j \in 1..k : ClauseRenamed(s.clauses[j], t.clauses[j], prefix)
  BY <1>1, <1>2 DEF StageRenamed
<1>4. \A j \in 1..k : \A x :
        x \in Binds(s.clauses[j]) <=> \E y \in Binds(t.clauses[j]) : x = R(y)
  BY <1>3 DEF Binds, ClauseRenamed
<1>5. \A x : x \in BoundBy(s, k) <=> x = s.anchor \/ \E j \in 1..k : x \in Binds(s.clauses[j])
  BY DEF BoundBy
<1>6. \A x : x \in BoundBy(t, k) <=> x = t.anchor \/ \E j \in 1..k : x \in Binds(t.clauses[j])
  BY DEF BoundBy
<1>7. s.anchor = R(t.anchor)
  BY DEF StageRenamed
<1>8. \A x : x \in Renames(BoundBy(t, k), prefix) <=> \E y \in BoundBy(t, k) : x = R(y)
  BY DEF Renames
<1> HIDE DEF R
<1>9. \A x : x \in BoundBy(s, k) <=> x \in Renames(BoundBy(t, k), prefix)
  <2> DEFINE U == BoundBy(s, k)
             V == BoundBy(t, k)
  <2>1. ASSUME NEW x \in U
        PROVE  \E y \in V : x = R(y)
    <3>1. CASE x = s.anchor
      BY <1>6, <1>7, <3>1
    <3>2. ASSUME NEW j \in 1..k, x \in Binds(s.clauses[j])
          PROVE  \E y \in V : x = R(y)
      BY <1>4, <1>6, <3>2
    <3> QED BY <1>5, <2>1, <3>1, <3>2
  <2>2. ASSUME NEW y \in V
        PROVE  R(y) \in U
    <3>1. CASE y = t.anchor
      BY <1>5, <1>7, <3>1
    <3>2. ASSUME NEW j \in 1..k, y \in Binds(t.clauses[j])
          PROVE  R(y) \in U
      BY <1>4, <1>5, <3>2
    <3> QED BY <1>6, <2>2, <3>1, <3>2
  <2> HIDE DEF U, V
  <2>3. \A x : x \in U <=> x \in Renames(V, prefix)
    BY <2>1, <2>2 DEF Renames, R
  <2> QED BY <2>3 DEF U, V
<1> QED BY <1>9

\* A renamed stage has as many clauses
LEMMA RenamedLength ==
  ASSUME NEW s, NEW t, NEW prefix, StageRenamed(s, t, prefix),
         IsSequence(t.clauses)
  PROVE  /\ Len(s.clauses) = Len(t.clauses) /\ Len(t.clauses) \in Nat
         /\ IsSequence(s.clauses)
         /\ \A k \in 1..Len(t.clauses) : ClauseRenamed(s.clauses[k], t.clauses[k], prefix)
         /\ (t.clauses # << >> => s.clauses # << >>)
<1>1. DOMAIN t.clauses = 1..Len(t.clauses) /\ Len(t.clauses) \in Nat
  BY LenProperties DEF IsSequence
<1>2. IsSequence(s.clauses) /\ DOMAIN s.clauses = DOMAIN t.clauses
  BY DEF StageRenamed
<1>3. DOMAIN s.clauses = 1..Len(s.clauses) /\ Len(s.clauses) \in Nat
  BY <1>2, LenProperties DEF IsSequence
<1>4. Len(s.clauses) = Len(t.clauses)
  BY <1>1, <1>2, <1>3
<1>5. \A k \in 1..Len(t.clauses) : ClauseRenamed(s.clauses[k], t.clauses[k], prefix)
  BY <1>1 DEF StageRenamed
<1>6. t.clauses # << >> => s.clauses # << >>
  BY <1>1, <1>2, <1>3, EmptySeq DEF IsSequence
<1> QED BY <1>1, <1>2, <1>4, <1>5, <1>6

\* A renamed stage is about one event too
LEMMA RenamedStage ==
  ASSUME NEW s, NEW t, NEW prefix, StageRenamed(s, t, prefix), SearchableStage(t)
  PROVE  SearchableStage(s) /\ StageVars(s) = Renames(StageVars(t), prefix)
<1> DEFINE n == Len(t.clauses)
<1>1. AboutOneEvent(t) /\ IsSequence(t.clauses)
      /\ t.clauses[1].label \in HeadLabels
  BY DEF SearchableStage, IsSequence
<1>2. /\ Len(s.clauses) = n /\ n \in Nat
      /\ IsSequence(s.clauses)
      /\ \A k \in 1..n : ClauseRenamed(s.clauses[k], t.clauses[k], prefix)
      /\ s.clauses # << >> /\ t.clauses # << >>
  BY <1>1, RenamedLength DEF AboutOneEvent
<1>3. n >= 1
  BY <1>1, <1>2, EmptySeq DEF IsSequence
<1>4. \A k \in 0..n : BoundBy(s, k) = Renames(BoundBy(t, k), prefix)
  BY <1>1, RenamedBinds
<1>5. s.anchor = Renamed(t.anchor, prefix, Shared)
  BY DEF StageRenamed
<1> HIDE DEF n
<1>6. ASSUME NEW k \in 1..n
      PROVE  LET c == s.clauses[k]
             IN  /\ c.target.kind = "in" \/ (c.target.kind = "bind" /\ k # 1 /\ ~c.negated)
                 /\ c.negated \in BOOLEAN
                 /\ IF c.negated THEN k # 1 /\ c.source \in BoundBy(s, k - 1)
                                 ELSE c.source = s.anchor
  <2> DEFINE c == s.clauses[k]
             d == t.clauses[k]
  <2>1. /\ d.target.kind = "in" \/ (d.target.kind = "bind" /\ k # 1 /\ ~d.negated)
        /\ d.negated \in BOOLEAN
        /\ d.negated => k # 1 /\ d.source \in BoundBy(t, k - 1)
        /\ ~d.negated => d.source = t.anchor
    BY <1>1 DEF AboutOneEvent, n
  <2>2. ClauseRenamed(c, d, prefix)
    BY <1>2
  <2>3. k - 1 \in 0..n
    BY <1>2
  <2>4. BoundBy(s, k - 1) = Renames(BoundBy(t, k - 1), prefix)
    BY <1>4, <2>3
  <2> HIDE DEF c, d
  <2>5. d.source \in BoundBy(t, k - 1) => c.source \in BoundBy(s, k - 1)
    BY <2>2, <2>4 DEF Renames, ClauseRenamed
  <2>6. c.target.kind = d.target.kind /\ c.negated = d.negated
        /\ (d.source = t.anchor => c.source = s.anchor)
    BY <1>5, <2>2 DEF ClauseRenamed
  <2> QED BY <2>1, <2>5, <2>6 DEF c
<1>7. AboutOneEvent(s)
  BY <1>2, <1>6 DEF AboutOneEvent
<1>8. s.clauses[1].label \in HeadLabels
  BY <1>1, <1>2, <1>3 DEF ClauseRenamed
<1>9. StageVars(s) = Renames(StageVars(t), prefix)
  BY <1>2, <1>4 DEF StageVars, n
<1> QED BY <1>2, <1>7, <1>8, <1>9 DEF SearchableStage, IsSequence

\* An edge is the event of a renamed stage when it is that of the stage
LEMMA RenamedFits ==
  ASSUME NEW s, NEW t, NEW prefix, StageRenamed(s, t, prefix), SearchableStage(t),
         NEW B, NEW b, Carries(B, b, prefix), StageVars(t) \subseteq DOMAIN b,
         Apart(DOMAIN b, prefix), NEW e
  PROVE  Fits(graph, s, e, B) <=> Fits(graph, t, e, b)
<1> DEFINE n == Len(t.clauses)
<1>1. AboutOneEvent(t) /\ IsSequence(t.clauses)
  BY DEF SearchableStage, IsSequence
<1>2. /\ Len(s.clauses) = n /\ n \in Nat
      /\ \A k \in 1..n : ClauseRenamed(s.clauses[k], t.clauses[k], prefix)
      /\ t.clauses # << >>
  BY <1>1, RenamedLength DEF AboutOneEvent
<1>3. n >= 1
  BY <1>1, <1>2, EmptySeq DEF IsSequence
<1>4. s.anchor = Renamed(t.anchor, prefix, Shared) /\ t.anchor \in DOMAIN b
  BY DEF StageRenamed, StageVars, BoundBy
<1>5. B[s.anchor] = b[t.anchor]
  BY <1>4 DEF Carries
<1>6. CouldBe(s.clauses[1], e) <=> CouldBe(t.clauses[1], e)
  <2>1. ClauseRenamed(s.clauses[1], t.clauses[1], prefix)
    BY <1>2, <1>3
  <2> QED BY <2>1 DEF ClauseRenamed, CouldBe
<1>7. ASSUME NEW k \in 2..n
      PROVE  FitsClause(graph, s.clauses[k], e.interval.start, B)
               <=> FitsClause(graph, t.clauses[k], e.interval.start, b)
  <2> DEFINE c == s.clauses[k]
             d == t.clauses[k]
             at == e.interval.start
  <2>1. k \in 1..n /\ k \in 0..n /\ k - 1 \in 0..n
    BY <1>2
  <2>2. BoundBy(t, k) \subseteq DOMAIN b /\ BoundBy(t, k - 1) \subseteq DOMAIN b
    BY <1>2, <2>1, BoundByGrows DEF StageVars
  <2>3. /\ d.target.kind = "in" \/ (d.target.kind = "bind" /\ d.target.var \in BoundBy(t, k))
        /\ d.source \in BoundBy(t, k - 1) \/ d.source = t.anchor
    BY <1>1, <2>1, ClauseAboutEvent
  <2>4. ClauseRenamed(c, d, prefix)
    BY <1>2, <2>1
  <2> HIDE DEF c, d, at
  <2>5. d.source \in DOMAIN b /\ c.source = Renamed(d.source, prefix, Shared)
    BY <1>4, <2>2, <2>3, <2>4 DEF ClauseRenamed
  <2>6. B[c.source] = b[d.source]
    BY <2>5 DEF Carries
  <2>7. ASSUME NEW v
        PROVE  TargetAccepts(c.target, v, B) <=> TargetAccepts(d.target, v, b)
    <3>1. CASE d.target.kind = "in"
      BY <2>4, <3>1 DEF ClauseRenamed, TargetAccepts, Resolvable, ConstraintAccepts
    <3>2. CASE d.target.kind = "bind"
      <4>1. d.target.var \in DOMAIN b
        BY <2>2, <2>3, <3>2
      <4>2. c.target.kind = "bind" /\ c.target.var = Renamed(d.target.var, prefix, Shared)
        BY <2>4, <3>2 DEF ClauseRenamed
      <4>3. c.target.var \in DOMAIN B /\ B[c.target.var] = b[d.target.var]
        BY <4>1, <4>2 DEF Carries
      <4>4. TargetAccepts(c.target, v, B) <=> B[c.target.var] = v
        BY <4>2, <4>3 DEF TargetAccepts, Resolvable, ConstraintAccepts
      <4>5. TargetAccepts(d.target, v, b) <=> b[d.target.var] = v
        BY <3>2, <4>1 DEF TargetAccepts, Resolvable, ConstraintAccepts
      <4> QED BY <4>3, <4>4, <4>5
    <3> QED BY <2>3, <3>1, <3>2
  <2>8. c.label = d.label /\ c.negated = d.negated
    BY <2>4 DEF ClauseRenamed
  <2>9. FitsClause(graph, c, at, B) <=> FitsClause(graph, d, at, b)
    <3>1. EdgesFrom(graph, B[c.source], c.label, at) = EdgesFrom(graph, b[d.source], d.label, at)
      BY <2>6, <2>8
    <3>2. {j \in EdgesFrom(graph, B[c.source], c.label, at) : TargetAccepts(c.target, graph[j].target, B)}
            = {j \in EdgesFrom(graph, b[d.source], d.label, at) : TargetAccepts(d.target, graph[j].target, b)}
      BY <2>7, <3>1
    <3> QED BY <2>6, <2>8, <3>2, Zenon DEF FitsClause
  <2> QED BY <2>9 DEF c, d, at
<1> QED BY <1>2, <1>5, <1>6, <1>7 DEF Fits

\* What a renamed pattern is about
LEMMA RenamedVars ==
  ASSUME NEW q, NEW p, NEW prefix, Part(p), PatternRenamed(q, p, prefix)
  PROVE  /\ StageCount(q) = StageCount(p) /\ StageCount(p) \in Nat
         /\ \A s \in 1..StageCount(p) : StageRenamed(q.stages[s], p.stages[s], prefix)
         /\ AnchorsOf(q, 1..StageCount(q)) = Renames(AnchorsOf(p, 1..StageCount(p)), prefix)
         /\ PatternVars(q) = Renames(PatternVars(p), prefix)
<1> DEFINE n == StageCount(p)
<1>1. /\ StageCount(q) = n /\ n \in Nat /\ DOMAIN p.stages = 1..n
      /\ \A s \in 1..n : StageRenamed(q.stages[s], p.stages[s], prefix)
  <2>1. DOMAIN p.stages = 1..Len(p.stages) /\ Len(p.stages) \in Nat
    BY LenProperties DEF Part, IsSequence
  <2>2. DOMAIN q.stages = 1..Len(q.stages) /\ Len(q.stages) \in Nat
    BY LenProperties DEF PatternRenamed, IsSequence
  <2>3. Len(q.stages) = Len(p.stages)
    BY <2>1, <2>2 DEF PatternRenamed
  <2> QED BY <2>1, <2>3 DEF PatternRenamed, StageCount
<1>2. \A s \in 1..n : /\ q.stages[s].anchor = Renamed(p.stages[s].anchor, prefix, Shared)
                      /\ StageVars(q.stages[s]) = Renames(StageVars(p.stages[s]), prefix)
  <2>1. \A s \in 1..n : SearchableStage(p.stages[s])
    BY DEF Part, Searchable
  <2> HIDE DEF n
  <2>2. \A s \in 1..n : StageVars(q.stages[s]) = Renames(StageVars(p.stages[s]), prefix)
    BY <1>1, <2>1, RenamedStage
  <2>3. \A s \in 1..n : q.stages[s].anchor = Renamed(p.stages[s].anchor, prefix, Shared)
    BY <1>1 DEF StageRenamed
  <2> QED BY <2>2, <2>3
<1> HIDE DEF n
<1>3. \A x : x \in AnchorsOf(q, 1..n) <=> x \in Renames(AnchorsOf(p, 1..n), prefix)
  <2>1. \A x : x \in AnchorsOf(q, 1..n) <=> \E s \in 1..n : x = q.stages[s].anchor
    BY DEF AnchorsOf
  <2>2. \A x : x \in Renames(AnchorsOf(p, 1..n), prefix)
                 <=> \E s \in 1..n : x = Renamed(p.stages[s].anchor, prefix, Shared)
    BY DEF AnchorsOf, Renames
  <2> QED BY <1>2, <2>1, <2>2
<1>4. \A x : x \in PatternVars(q) <=> x \in Renames(PatternVars(p), prefix)
  <2>1. \A x : x \in PatternVars(q) <=> \E s \in 1..n : x \in StageVars(q.stages[s])
    BY <1>1 DEF PatternVars, VarsOf
  <2>2. \A x : x \in Renames(PatternVars(p), prefix)
                 <=> \E s \in 1..n : x \in Renames(StageVars(p.stages[s]), prefix)
    BY DEF PatternVars, VarsOf, Renames, n
  <2> QED BY <1>2, <2>1, <2>2
<1>5. AnchorsOf(q, 1..n) = Renames(AnchorsOf(p, 1..n), prefix) /\ PatternVars(q) = Renames(PatternVars(p), prefix)
  BY <1>3, <1>4
<1> QED BY <1>1, <1>5 DEF n

\* Anchors are variables
LEMMA AnchorVars ==
  ASSUME NEW p
  PROVE  AnchorsOf(p, 1..StageCount(p)) \subseteq PatternVars(p)
BY DEF AnchorsOf, PatternVars, VarsOf, StageVars, BoundBy

\* The groups of a renamed pattern are the pattern's
LEMMA RenamedSegments ==
  ASSUME NEW q, NEW p, NEW prefix, PatternRenamed(q, p, prefix)
  PROVE  /\ \A s : Segment(q, s) = Segment(p, s)
         /\ \A s, t : NextSegment(q, s, t) <=> NextSegment(p, s, t)
<1>1. \A s : UnorderedGroup(q, s) = UnorderedGroup(p, s)
  BY DEF PatternRenamed, UnorderedGroup
<1>2. \A s : Segment(q, s) = Segment(p, s)
  BY <1>1 DEF Segment, InGroup
<1> QED BY <1>2 DEF NextSegment

\* A renamed part is a part
LEMMA RenamedPart ==
  ASSUME NEW q, NEW p, NEW prefix, Part(p), PatternRenamed(q, p, prefix),
         Apart(PatternVars(p), prefix)
  PROVE  Part(q)
<1> DEFINE n == StageCount(p)
           A == AnchorsOf(p, 1..n)
<1>1. /\ StageCount(q) = n /\ n \in Nat
      /\ \A s \in 1..n : StageRenamed(q.stages[s], p.stages[s], prefix)
      /\ AnchorsOf(q, 1..n) = Renames(A, prefix)
  BY RenamedVars
<1>2. \A s \in 1..n : p.stages[s].anchor \in A /\ p.stages[s].anchor \in PatternVars(p)
  BY AnchorVars DEF AnchorsOf
<1>3. \A s : Segment(q, s) = Segment(p, s)
  BY RenamedSegments
<1>4. /\ \A s, t \in 1..n : p.stages[s].anchor = p.stages[t].anchor => s = t
      /\ \A s \in 1..n : \E lo \in 1..s, hi \in s..n : \A t \in lo..hi : Segment(p, t) = lo..hi
      /\ \A s \in 1..n : SearchableStage(p.stages[s])
      /\ \A g \in p.unordered_groups : g \subseteq 1..n
      /\ \A tc \in p.temporal : {tc.left, tc.right} \subseteq A
  BY DEF Part, Searchable, Blocks
<1>5. \A s \in 1..n : q.stages[s].anchor = Renamed(p.stages[s].anchor, prefix, Shared)
  BY <1>1 DEF StageRenamed
<1> HIDE DEF n, A
<1>6. \A s, t \in 1..n : q.stages[s].anchor = q.stages[t].anchor => s = t
  <2> SUFFICES ASSUME NEW s \in 1..n, NEW t \in 1..n, q.stages[s].anchor = q.stages[t].anchor
               PROVE  s = t
    OBVIOUS
  <2>1. p.stages[s].anchor = p.stages[t].anchor
    BY <1>2, <1>5 DEF Apart
  <2> QED BY <1>4, <2>1
<1>7. \A s \in 1..n : \E lo \in 1..s, hi \in s..n : \A t \in lo..hi : Segment(q, t) = lo..hi
  BY <1>3, <1>4
<1>8. \A s \in 1..n : SearchableStage(q.stages[s])
  BY <1>1, <1>4, RenamedStage
<1>9. ASSUME NEW tc \in q.temporal
      PROVE  {tc.left, tc.right} \subseteq Renames(A, prefix)
  <2>1. PICK td \in p.temporal : TimesRenamed(tc, td, prefix)
    BY DEF PatternRenamed
  <2>2. td.left \in A /\ td.right \in A
    BY <1>4
  <2> QED BY <2>1, <2>2 DEF TimesRenamed, Renames
<1>10. q.unordered_groups = p.unordered_groups /\ IsSequence(q.stages)
  BY DEF PatternRenamed
<1>11. Searchable(q)
  BY <1>1, <1>6, <1>7, <1>8 DEF Searchable, Blocks
<1> QED BY <1>1, <1>4, <1>9, <1>10, <1>11 DEF Part

\* A renamed pattern has happened when the pattern has
LEMMA RenamedWithin ==
  ASSUME NEW q, NEW p, NEW prefix, Part(p), PatternRenamed(q, p, prefix),
         Apart(PatternVars(p), prefix), NEW b, NEW own, NEW B, NEW ivs,
         DOMAIN b = PatternVars(p), DOMAIN own = AnchorsOf(p, 1..StageCount(p)),
         Carries(B, b, prefix), Carries(ivs, own, prefix)
  PROVE  OccursWithin(q, B, ivs) <=> OccursWithin(p, b, own)
<1> DEFINE n == StageCount(p)
           A == AnchorsOf(p, 1..n)
<1>1. /\ StageCount(q) = n /\ n \in Nat
      /\ \A s \in 1..n : StageRenamed(q.stages[s], p.stages[s], prefix)
      /\ AnchorsOf(q, 1..n) = Renames(A, prefix)
      /\ PatternVars(q) = Renames(PatternVars(p), prefix)
  BY RenamedVars
<1>2. \A s \in 1..n : p.stages[s].anchor \in A
  BY DEF AnchorsOf
<1>3. \A s \in 1..n : /\ q.stages[s].anchor = Renamed(p.stages[s].anchor, prefix, Shared)
                      /\ SearchableStage(p.stages[s]) /\ StageVars(p.stages[s]) \subseteq DOMAIN b
  BY <1>1 DEF StageRenamed, Part, Searchable, PatternVars, VarsOf
<1>4. \A s \in 1..n : /\ p.stages[s].anchor \in DOMAIN own /\ q.stages[s].anchor \in DOMAIN ivs
                      /\ ivs[q.stages[s].anchor] = own[p.stages[s].anchor]
  BY <1>2, <1>3 DEF Carries
<1>5. PatternVars(q) \subseteq DOMAIN B /\ AnchorsOf(q, 1..n) \subseteq DOMAIN ivs
  BY <1>1 DEF Renames, Carries
<1>6. \A tc \in p.temporal : tc.left \in DOMAIN own /\ tc.right \in DOMAIN own
  BY DEF Part
<1>7. \A s, t : NextSegment(q, s, t) <=> NextSegment(p, s, t)
  BY RenamedSegments
<1>8. StagesOrdered(q, ivs) <=> StagesOrdered(p, own)
  <2>1. StagesOrdered(q, ivs) <=> \A s, t \in 1..n :
          NextSegment(p, s, t) => ivs[q.stages[s].anchor].start < ivs[q.stages[t].anchor].start
    BY <1>1, <1>4, <1>7 DEF StagesOrdered
  <2>2. StagesOrdered(p, own) <=> \A s, t \in 1..n :
          NextSegment(p, s, t) => own[p.stages[s].anchor].start < own[p.stages[t].anchor].start
    BY <1>4 DEF StagesOrdered
  <2> QED BY <1>4, <2>1, <2>2
<1>9. ASSUME NEW tc, NEW td \in p.temporal, TimesRenamed(tc, td, prefix)
      PROVE  ConstraintHolds(tc, ivs) <=> ConstraintHolds(td, own)
  <2>1. /\ tc.left \in DOMAIN ivs /\ tc.right \in DOMAIN ivs
        /\ ivs[tc.left] = own[td.left] /\ ivs[tc.right] = own[td.right]
        /\ td.left \in DOMAIN own /\ td.right \in DOMAIN own
        /\ tc.relation = td.relation /\ tc.gap = td.gap
    BY <1>6, <1>9 DEF TimesRenamed, Carries
  <2> QED BY <2>1 DEF ConstraintHolds
<1>10. (\A tc \in q.temporal : ConstraintHolds(tc, ivs)) <=> \A td \in p.temporal : ConstraintHolds(td, own)
  <2>1. ASSUME \A tc \in q.temporal : ConstraintHolds(tc, ivs), NEW td \in p.temporal
        PROVE  ConstraintHolds(td, own)
    <3>1. PICK tc \in q.temporal : TimesRenamed(tc, td, prefix)
      BY DEF PatternRenamed
    <3> QED BY <1>9, <2>1, <3>1
  <2>2. ASSUME \A td \in p.temporal : ConstraintHolds(td, own), NEW tc \in q.temporal
        PROVE  ConstraintHolds(tc, ivs)
    <3>1. PICK td \in p.temporal : TimesRenamed(tc, td, prefix)
      BY DEF PatternRenamed
    <3> QED BY <1>9, <2>2, <3>1
  <2> QED BY <2>1, <2>2
<1> HIDE DEF n, A
<1>11. ASSUME NEW s \in 1..n
       PROVE  Event(q.stages[s], B, ivs[q.stages[s].anchor])
                <=> Event(p.stages[s], b, own[p.stages[s].anchor])
  <2>1. \A e : Fits(graph, q.stages[s], e, B) <=> Fits(graph, p.stages[s], e, b)
    <3>1. PICK u, t : u = q.stages[s] /\ t = p.stages[s]
      OBVIOUS
    <3>2. StageRenamed(u, t, prefix) /\ SearchableStage(t) /\ StageVars(t) \subseteq DOMAIN b
      BY <1>1, <1>3, <3>1
    <3>3. \A e : Fits(graph, u, e, B) <=> Fits(graph, t, e, b)
      BY <3>2, RenamedFits
    <3> QED BY <3>1, <3>3
  <2>2. ivs[q.stages[s].anchor] = own[p.stages[s].anchor]
    BY <1>4
  <2> QED BY <2>1, <2>2 DEF Event
<1>12. OccursWithin(q, B, ivs) <=> /\ \A s \in 1..n : Event(q.stages[s], B, ivs[q.stages[s].anchor])
                                   /\ CheckTemporal(q, ivs)
  BY <1>1, <1>5, Zenon DEF OccursWithin
<1>13. OccursWithin(p, b, own) <=> /\ \A s \in 1..n : Event(p.stages[s], b, own[p.stages[s].anchor])
                                   /\ CheckTemporal(p, own)
  BY DEF OccursWithin, n
<1>14. CheckTemporal(q, ivs) <=> CheckTemporal(p, own)
  BY <1>8, <1>10 DEF CheckTemporal
<1> QED BY <1>11, <1>12, <1>13, <1>14

\* A renamed pattern occurs when the pattern does, under the other names
LEMMA RenamedOccurs ==
  ASSUME NEW q, NEW p, NEW prefix, Part(p), PatternRenamed(q, p, prefix),
         Apart(PatternVars(p), prefix), NEW B, NEW ivs
  PROVE  Occurs(q, B, ivs) <=>
           \E b, own : /\ Occurs(p, b, own)
                       /\ B = RenameKeys(b, prefix) /\ ivs = RenameKeys(own, prefix)
<1> DEFINE V == PatternVars(p)
           A == AnchorsOf(p, 1..StageCount(p))
<1>1. PatternVars(q) = Renames(V, prefix) /\ AnchorsOf(q, 1..StageCount(q)) = Renames(A, prefix)
  BY RenamedVars
<1>2. Apart(A, prefix)
  BY AnchorVars DEF Apart
<1>3. ASSUME Occurs(q, B, ivs)
      PROVE  \E b, own : /\ Occurs(p, b, own)
                         /\ B = RenameKeys(b, prefix) /\ ivs = RenameKeys(own, prefix)
  <2>1. /\ IsMap(B) /\ DOMAIN B = Renames(V, prefix) /\ IsMap(ivs) /\ DOMAIN ivs = Renames(A, prefix)
        /\ OccursWithin(q, B, ivs)
    BY <1>1, <1>3, OccursIs
  <2>2. PICK b : IsMap(b) /\ DOMAIN b = V /\ B = RenameKeys(b, prefix)
    BY <2>1, KeysRestored
  <2>3. PICK own : IsMap(own) /\ DOMAIN own = A /\ ivs = RenameKeys(own, prefix)
    BY <1>2, <2>1, KeysRestored
  <2>4. Carries(B, b, prefix) /\ Carries(ivs, own, prefix)
    BY <1>2, <2>2, <2>3, KeysRenamed
  <2>5. OccursWithin(p, b, own)
    BY <2>1, <2>2, <2>3, <2>4, RenamedWithin
  <2>6. Occurs(p, b, own)
    BY <2>2, <2>3, <2>5, OccursIs
  <2> QED BY <2>2, <2>3, <2>6
<1>4. ASSUME NEW b, NEW own, Occurs(p, b, own), B = RenameKeys(b, prefix), ivs = RenameKeys(own, prefix)
      PROVE  Occurs(q, B, ivs)
  <2>1. DOMAIN b = V /\ DOMAIN own = A /\ OccursWithin(p, b, own)
    BY <1>4, OccursIs
  <2>2. IsMap(B) /\ DOMAIN B = Renames(V, prefix) /\ Carries(B, b, prefix)
    BY <1>4, <2>1, KeysRenamed
  <2>3. IsMap(ivs) /\ DOMAIN ivs = Renames(A, prefix) /\ Carries(ivs, own, prefix)
    BY <1>2, <1>4, <2>1, KeysRenamed
  <2>4. OccursWithin(q, B, ivs)
    BY <2>1, <2>2, <2>3, RenamedWithin
  <2> QED BY <1>1, <2>2, <2>3, <2>4, OccursIs
<1> QED BY <1>3, <1>4

-----------------------------------------------------------------------------
(* What a sequence of two patterns means                                   *)

\* A part asked for is one the engine can search, when its events are told of
LEMMA AskedPart ==
  ASSUME NEW p, PartPattern(p), \A s \in 1..StageCount(p) : p.stages[s].clauses[1].label \in HeadLabels
  PROVE  Part(p) /\ Registrable(p)
<1> DEFINE n == StageCount(p)
<1>1. DOMAIN p.stages = 1..n /\ n \in Nat
  BY LenProperties DEF PartPattern, PatternForm, IsSequence, StageCount
<1>2. \A s \in 1..n : AboutOneEvent(p.stages[s]) /\ IsSequence(p.stages[s].clauses)
  BY <1>1 DEF PartPattern, PatternForm
<1>3. Blocks(p)
  BY <1>1, BuiltBlocks DEF PartPattern
<1>4. Searchable(p)
  BY <1>2, <1>3 DEF Searchable, SearchableStage, IsSequence
<1>5. \A tc \in p.temporal : {tc.left, tc.right} \subseteq AnchorsOf(p, 1..n)
  BY DEF PartPattern, AnchorsOf
<1>6. IsSequence(p.stages) /\ (\A g \in p.unordered_groups : g \subseteq 1..n)
      /\ p.stages # << >> /\ p.negations = {}
  BY DEF PartPattern, PatternForm
<1>7. Settled(p)
  BY DEF Settled, PartPattern
<1> QED BY <1>4, <1>5, <1>6, <1>7 DEF Part, Registrable

\* The matches of a part are its occurrences
LEMMA OccurrencesAre ==
  ASSUME EventVocabulary, TypeOK, EventsInOrder, NEW p, Part(p), Registrable(p), NEW x
  PROVE  x \in Occurrences(p) <=>
           \E B, ivs : x = [bindings |-> B, intervals |-> ivs] /\ Occurs(p, B, ivs)
<1>0. Searchable(p) /\ Settled(p) /\ p.stages # << >> /\ p.negations = {}
  BY DEF Part, Registrable
<1>1. ASSUME x \in Occurrences(p)
      PROVE  \E B, ivs : x = [bindings |-> B, intervals |-> ivs] /\ Occurs(p, B, ivs)
  <2>1. PICK m \in EvaluatePattern(graph, p, now) : x = MatchOf(m)
    BY <1>1 DEF Occurrences
  <2>2. Occurs(p, m.bindings, m.intervals)
    BY <1>0, BatchOccurs
  <2> QED BY <2>1, <2>2 DEF MatchOf
<1>2. ASSUME NEW B, NEW ivs, x = [bindings |-> B, intervals |-> ivs], Occurs(p, B, ivs)
      PROVE  x \in Occurrences(p)
  <2>1. PICK m \in EvaluatePattern(graph, p, now) : m.bindings = B /\ m.intervals = ivs
    BY <1>0, <1>2, OccursBatch
  <2>2. MatchOf(m) = x
    BY <1>2, <2>1 DEF MatchOf
  <2> QED BY <2>1, <2>2 DEF Occurrences
<1> QED BY <1>1, <1>2

\* Maps under other names agree as the maps do
LEMMA AgreeRenamed ==
  ASSUME NEW b, NEW c, NEW x, NEW y, Apart(DOMAIN b, x), Apart(DOMAIN c, y),
         ApartBut(DOMAIN b, DOMAIN c, x, y)
  PROVE  Agree(RenameKeys(b, x), RenameKeys(c, y)) <=>
           \A v \in Shared \cap DOMAIN b \cap DOMAIN c : b[v] = c[v]
<1> DEFINE B == RenameKeys(b, x)
           C == RenameKeys(c, y)
<1>1. DOMAIN B = Renames(DOMAIN b, x) /\ Carries(B, b, x)
      /\ DOMAIN C = Renames(DOMAIN c, y) /\ Carries(C, c, y)
  BY KeysRenamed
<1> HIDE DEF B, C
<1>2. ASSUME Agree(B, C), NEW v \in Shared \cap DOMAIN b \cap DOMAIN c
      PROVE  b[v] = c[v]
  <2>1. Renamed(v, x, Shared) = v /\ Renamed(v, y, Shared) = v
    BY DEF Renamed
  <2>2. v \in DOMAIN B /\ v \in DOMAIN C /\ B[v] = b[v] /\ C[v] = c[v]
    BY <1>1, <2>1 DEF Carries
  <2> QED BY <1>2, <2>2 DEF Agree
<1>3. ASSUME \A v \in Shared \cap DOMAIN b \cap DOMAIN c : b[v] = c[v],
             NEW z \in DOMAIN B \cap DOMAIN C
      PROVE  B[z] = C[z]
  <2>1. PICK v \in DOMAIN b : z = Renamed(v, x, Shared)
    BY <1>1 DEF Renames
  <2>2. PICK w \in DOMAIN c : z = Renamed(w, y, Shared)
    BY <1>1 DEF Renames
  <2>3. v = w /\ v \in Shared
    BY <2>1, <2>2 DEF ApartBut
  <2>4. B[z] = b[v] /\ C[z] = c[w]
    BY <1>1, <2>1, <2>2 DEF Carries
  <2> QED BY <1>3, <2>3, <2>4
<1>4. Agree(B, C) <=> \A v \in Shared \cap DOMAIN b \cap DOMAIN c : b[v] = c[v]
  BY <1>2, <1>3 DEF Agree
<1> QED BY <1>4 DEF B, C

\* ... and come one before the other
LEMMA EarlierRenamed ==
  ASSUME NEW own, NEW other, NEW x, NEW y, Apart(DOMAIN own, x), Apart(DOMAIN other, y)
  PROVE  Earlier(RenameKeys(own, x), RenameKeys(other, y)) <=> Earlier(own, other)
<1> DEFINE O == RenameKeys(own, x)
           T == RenameKeys(other, y)
<1>1. DOMAIN O = Renames(DOMAIN own, x) /\ Carries(O, own, x)
      /\ DOMAIN T = Renames(DOMAIN other, y) /\ Carries(T, other, y)
  BY KeysRenamed
<1> HIDE DEF O, T
<1>2. /\ \A v \in DOMAIN own : Renamed(v, x, Shared) \in DOMAIN O /\ O[Renamed(v, x, Shared)] = own[v]
      /\ \A w \in DOMAIN other : Renamed(w, y, Shared) \in DOMAIN T /\ T[Renamed(w, y, Shared)] = other[w]
      /\ \A z \in DOMAIN O : \E v \in DOMAIN own : z = Renamed(v, x, Shared)
      /\ \A z \in DOMAIN T : \E w \in DOMAIN other : z = Renamed(w, y, Shared)
  BY <1>1 DEF Carries, Renames
<1>3. ASSUME Earlier(O, T), NEW v \in DOMAIN own, NEW w \in DOMAIN other
      PROVE  own[v].start < other[w].start
  BY <1>2, <1>3 DEF Earlier
<1>4. ASSUME Earlier(own, other), NEW z \in DOMAIN O, NEW u \in DOMAIN T
      PROVE  O[z].start < T[u].start
  BY <1>2, <1>4 DEF Earlier
<1>5. Earlier(O, T) <=> Earlier(own, other)
  BY <1>3, <1>4 DEF Earlier
<1> QED BY <1>5 DEF O, T

\* A renamed part asks for the labels the part asks for
LEMMA RenamedLabels ==
  ASSUME NEW p, PartPattern(p), NEW q, NEW prefix, PatternRenamed(q, p, prefix)
  PROVE  /\ StageCount(q) = StageCount(p) /\ StageCount(p) \in Nat /\ StageCount(p) >= 1
         /\ \A s \in 1..StageCount(p) : q.stages[s].clauses[1].label = p.stages[s].clauses[1].label
<1>1. /\ DOMAIN p.stages = 1..StageCount(p) /\ StageCount(p) \in Nat /\ p.stages # << >>
      /\ \A s \in 1..StageCount(p) : AboutOneEvent(p.stages[s])
  BY LenProperties DEF PartPattern, PatternForm, IsSequence, StageCount
<1>2. DOMAIN q.stages = 1..StageCount(q) /\ StageCount(q) \in Nat
  BY LenProperties DEF PatternRenamed, IsSequence, StageCount
<1>3. StageCount(q) = StageCount(p)
  BY <1>1, <1>2 DEF PatternRenamed
<1>4. StageCount(p) >= 1
  BY <1>1, EmptySeq DEF PartPattern, PatternForm, IsSequence
<1>5. ASSUME NEW s \in 1..StageCount(p)
      PROVE  q.stages[s].clauses[1].label = p.stages[s].clauses[1].label
  <2>1. IsSequence(p.stages[s].clauses) /\ p.stages[s].clauses # << >>
    BY <1>1 DEF PartPattern, PatternForm, AboutOneEvent
  <2>2. 1 \in DOMAIN p.stages[s].clauses
    BY <2>1, EmptySeq, LenProperties DEF IsSequence
  <2> QED BY <1>1, <2>2 DEF PatternRenamed, StageRenamed, ClauseRenamed
<1> QED BY <1>1, <1>3, <1>4, <1>5

\* A renamed pattern that is settled stays so
LEMMA RenamedSettled ==
  ASSUME NEW q, NEW p, NEW prefix, Part(p), PatternRenamed(q, p, prefix), Settled(p)
  PROVE  Settled(q)
<1>1. /\ StageCount(q) = StageCount(p)
      /\ \A s \in 1..StageCount(p) : StageRenamed(q.stages[s], p.stages[s], prefix)
  BY RenamedVars
<1>2. ASSUME NEW s \in 1..StageCount(p), NEW k \in 1..Len(q.stages[s].clauses), q.stages[s].clauses[k].negated
      PROVE  q.stages[s].clauses[k].source = q.stages[s].anchor
  <2>1. PICK u, t : u = q.stages[s] /\ t = p.stages[s]
    OBVIOUS
  <2>2. StageRenamed(u, t, prefix) /\ SearchableStage(t)
    BY <1>1, <2>1 DEF Part, Searchable
  <2>3. IsSequence(t.clauses)
    BY <2>2 DEF SearchableStage, IsSequence
  <2>4. Len(u.clauses) = Len(t.clauses)
        /\ \A j \in 1..Len(t.clauses) : ClauseRenamed(u.clauses[j], t.clauses[j], prefix)
    BY <2>2, <2>3, RenamedLength
  <2>5. k \in 1..Len(t.clauses) /\ ClauseRenamed(u.clauses[k], t.clauses[k], prefix)
    BY <1>2, <2>1, <2>4
  <2>6. t.clauses[k].negated
    BY <1>2, <2>1, <2>5 DEF ClauseRenamed
  <2>7. t.clauses[k].source = t.anchor
    BY <2>1, <2>5, <2>6 DEF Settled
  <2> QED BY <2>1, <2>2, <2>5, <2>7 DEF ClauseRenamed, StageRenamed
<1> QED BY <1>1, <1>2 DEF Settled

\* ... one joined of two that are
LEMMA JoinedSettled ==
  ASSUME NEW J, NEW P, NEW Q, Joins(J, P, Q), Settled(P), Settled(Q)
  PROVE  Settled(J)
<1> DEFINE m == StageCount(P)
           n == StageCount(Q)
<1>1. /\ m \in Nat /\ n \in Nat /\ StageCount(J) = m + n
      /\ \A s \in 1..m : J.stages[s] = P.stages[s]
      /\ \A s \in 1..n : J.stages[m + s] = Q.stages[s]
  BY DEF Joins
<1>2. ASSUME NEW s \in 1..StageCount(J)
      PROVE  \A k \in 1..Len(J.stages[s].clauses) :
               J.stages[s].clauses[k].negated => J.stages[s].clauses[k].source = J.stages[s].anchor
  <2>1. CASE s \in 1..m
    BY <1>1, <2>1 DEF Settled
  <2>2. ASSUME NEW l \in 1..n, s = m + l
        PROVE  \A k \in 1..Len(J.stages[s].clauses) :
                 J.stages[s].clauses[k].negated => J.stages[s].clauses[k].source = J.stages[s].anchor
    <3>1. J.stages[s] = Q.stages[l]
      BY <1>1, <2>2
    <3> QED BY <3>1 DEF Settled
  <2>3. s \in 1..m \/ \E l \in 1..n : s = m + l
    <3> HIDE DEF m, n
    <3> QED BY <1>1, JoinedSplit
  <2> QED BY <2>1, <2>2, <2>3
<1> QED BY <1>2 DEF Settled

\* A pattern that continues with a renamed part occurs when it has and the part does
LEMMA ContinuedOccurs ==
  ASSUME EventVocabulary, TypeOK, EventsInOrder,
         NEW J, NEW U, NEW q, NEW p, NEW prefix, Part(U), Part(p), Apart(PatternVars(p), prefix),
         PatternRenamed(q, p, prefix), Joins(J, U, q),
         AnchorsOf(U, 1..StageCount(U)) \cap AnchorsOf(q, 1..StageCount(q)) = {},
         NEW B, NEW ivs
  PROVE  Occurs(J, B, ivs) <=>
           \E b, own, c, other :
             /\ Occurs(U, b, own) /\ Occurs(p, c, other)
             /\ Earlier(own, RenameKeys(other, prefix)) /\ Agree(b, RenameKeys(c, prefix))
             /\ B = Overlay(b, RenameKeys(c, prefix)) /\ ivs = Overlay(own, RenameKeys(other, prefix))
<1>1. Part(q)
  BY RenamedPart
<1>2. Occurs(J, B, ivs) <=> Succession(U, q, B, ivs)
  BY <1>1, JoinedOccurs
<1>3. \A c, other : Occurs(q, c, other) <=>
        \E d, o : Occurs(p, d, o) /\ c = RenameKeys(d, prefix) /\ other = RenameKeys(o, prefix)
  BY RenamedOccurs
<1>4. ASSUME Occurs(J, B, ivs)
      PROVE  \E b, own, c, other :
               /\ Occurs(U, b, own) /\ Occurs(p, c, other)
               /\ Earlier(own, RenameKeys(other, prefix)) /\ Agree(b, RenameKeys(c, prefix))
               /\ B = Overlay(b, RenameKeys(c, prefix)) /\ ivs = Overlay(own, RenameKeys(other, prefix))
  <2>1. PICK b, own, c, other :
          /\ Occurs(U, b, own) /\ Occurs(q, c, other)
          /\ Earlier(own, other) /\ Agree(b, c)
          /\ B = Overlay(b, c) /\ ivs = Overlay(own, other)
    BY <1>2, <1>4 DEF Succession
  <2>2. PICK d, o : Occurs(p, d, o) /\ c = RenameKeys(d, prefix) /\ other = RenameKeys(o, prefix)
    BY <1>3, <2>1
  <2> QED BY <2>1, <2>2
<1>5. ASSUME NEW b, NEW own, NEW c, NEW other, Occurs(U, b, own), Occurs(p, c, other),
             Earlier(own, RenameKeys(other, prefix)), Agree(b, RenameKeys(c, prefix)),
             B = Overlay(b, RenameKeys(c, prefix)), ivs = Overlay(own, RenameKeys(other, prefix))
      PROVE  Occurs(J, B, ivs)
  <2>1. Occurs(q, RenameKeys(c, prefix), RenameKeys(other, prefix))
    BY <1>3, <1>5
  <2> QED BY <1>2, <1>5, <2>1 DEF Succession
<1> QED BY <1>4, <1>5

-----------------------------------------------------------------------------
(* Setup >> Payoff                                                         *)

\* The sequence as the engine has it
LEMMA SequenceParts ==
  ASSUME BlockLibrary, StepwiseLibrary, SequenceAsked
  PROVE  /\ 1 \in DOMAIN Library /\ Registrable(Library[1])
         /\ Part(Setup) /\ Registrable(Setup) /\ Part(Payoff) /\ Registrable(Payoff)
         /\ \E P, Q : /\ Joins(Library[1], P, Q)
                      /\ PatternRenamed(P, Setup, <<"a">>) /\ PatternRenamed(Q, Payoff, <<"b">>)
                      /\ Part(P) /\ Part(Q)
                      /\ AnchorsOf(P, 1..StageCount(P)) \cap AnchorsOf(Q, 1..StageCount(Q)) = {}
<1>1. PICK P, Q : P = RenameVars(Setup, <<"a">>, Shared) /\ Q = RenameVars(Payoff, <<"b">>, Shared)
  OBVIOUS
<1>2. PICK J : J = Library[1]
  OBVIOUS
<1>3. 1 \in DOMAIN Library /\ J = Joined(<<"arc">>, P, Q)
  BY <1>1, <1>2 DEF SequenceAsked, ComposedLibrary, SequenceOf
<1>4. PartPattern(Setup) /\ PartPattern(Payoff)
      /\ Apart(PatternVars(Setup), <<"a">>) /\ Apart(PatternVars(Payoff), <<"b">>)
  BY DEF SequenceAsked
<1>5. PatternRenamed(P, Setup, <<"a">>) /\ PatternRenamed(Q, Payoff, <<"b">>)
  BY <1>1, <1>4, VarsRenamed DEF PartPattern
<1>6. Joins(J, P, Q)
  BY <1>3, <1>5, JoinedJoins DEF PatternRenamed
<1> DEFINE m == StageCount(P)
           n == StageCount(Q)
<1>7. /\ m \in Nat /\ n \in Nat /\ m >= 1 /\ StageCount(J) = m + n
      /\ StageCount(Setup) = m /\ StageCount(Payoff) = n
      /\ \A s \in 1..m : J.stages[s] = P.stages[s]
      /\ \A s \in 1..n : J.stages[m + s] = Q.stages[s]
      /\ \A s \in 1..m : P.stages[s].clauses[1].label = Setup.stages[s].clauses[1].label
      /\ \A s \in 1..n : Q.stages[s].clauses[1].label = Payoff.stages[s].clauses[1].label
  BY <1>4, <1>5, <1>6, RenamedLabels DEF Joins
<1> HIDE DEF m, n
<1>8. \A s \in 1..StageCount(J) : J.stages[s].clauses[1].label \in HeadLabels
  <2>1. \A s \in 1..StageCount(Library[1]) : Library[1].stages[s].clauses[1].label \in StageLabels
    BY <1>3 DEF StageLabels
  <2> QED BY <1>2, <2>1 DEF HeadLabels
<1>9. (\A s \in 1..m : s \in 1..StageCount(J)) /\ \A s \in 1..n : m + s \in 1..StageCount(J)
  BY <1>7
<1>10. /\ \A s \in 1..StageCount(Setup) : Setup.stages[s].clauses[1].label \in HeadLabels
       /\ \A s \in 1..StageCount(Payoff) : Payoff.stages[s].clauses[1].label \in HeadLabels
  BY <1>7, <1>8, <1>9
<1>11. Part(Setup) /\ Registrable(Setup) /\ Part(Payoff) /\ Registrable(Payoff)
  BY <1>4, <1>10, AskedPart
<1>12. Part(P) /\ Part(Q) /\ Settled(P) /\ Settled(Q)
  BY <1>4, <1>5, <1>11, RenamedPart, RenamedSettled DEF Registrable
<1>13. AnchorsOf(P, 1..m) \cap AnchorsOf(Q, 1..n) = {}
  <2> SUFFICES ASSUME NEW s \in 1..m, NEW t \in 1..n, P.stages[s].anchor = Q.stages[t].anchor
               PROVE  FALSE
    BY DEF AnchorsOf
  <2>1. \A k, l \in 1..StageCount(J) : J.stages[k].anchor = J.stages[l].anchor => k = l
    BY <1>2, <1>3 DEF BlockLibrary, BlockPattern
  <2>2. s = m + t
    BY <1>7, <1>9, <2>1
  <2> QED BY <1>7, <2>2
<1>14. Registrable(J)
  <2>1. Settled(J)
    BY <1>6, <1>12, JoinedSettled
  <2>2. J.negations = {}
    <3>1. P.negations = {} /\ Q.negations = {}
      BY <1>5, <1>11 DEF PatternRenamed, Registrable
    <3> QED BY <1>6, <3>1 DEF Joins
  <2>3. J.stages # << >>
    BY <1>7 DEF StageCount
  <2> QED BY <2>1, <2>2, <2>3 DEF Registrable
<1> QED BY <1>2, <1>3, <1>5, <1>6, <1>11, <1>12, <1>13, <1>14 DEF m, n

\* An occurrence is of the pattern's variables and anchors
LEMMA OccursDomains ==
  ASSUME NEW p, NEW B, NEW ivs, Occurs(p, B, ivs)
  PROVE  /\ IsMap(B) /\ DOMAIN B = PatternVars(p)
         /\ IsMap(ivs) /\ DOMAIN ivs = AnchorsOf(p, 1..StageCount(p))
         /\ DOMAIN ivs \subseteq PatternVars(p)
BY OccursIs, AnchorVars

\* A match of these bindings and intervals
MatchAs(b, own) == [bindings |-> b, intervals |-> own]

\* B and ivs are of an occurrence of Setup, under names of prefix x, and one of
\* Payoff that continues it, under names of prefix y
SequenceShown(x, y, B, ivs) ==
  \E b, own, c, other :
    /\ Occurs(Setup, b, own) /\ Occurs(Payoff, c, other)
    /\ Continues(MatchAs(b, own), MatchAs(c, other))
    /\ B = Overlay(RenameKeys(b, x), RenameKeys(c, y))
    /\ ivs = Overlay(RenameKeys(own, x), RenameKeys(other, y))

\* The sequence occurs as its parts do, under their names
LEMMA SequenceOccurs ==
  ASSUME EventVocabulary, TypeOK, EventsInOrder, BlockLibrary, StepwiseLibrary, SequenceAsked,
         NEW x, NEW y, x = <<"a">>, y = <<"b">>, NEW B, NEW ivs
  PROVE  Occurs(Library[1], B, ivs) <=> SequenceShown(x, y, B, ivs)
<1> DEFINE J == Library[1]
<1>1. PICK P, Q : /\ Joins(J, P, Q)
                  /\ PatternRenamed(P, Setup, <<"a">>) /\ PatternRenamed(Q, Payoff, <<"b">>)
                  /\ Part(P) /\ Part(Q)
                  /\ AnchorsOf(P, 1..StageCount(P)) \cap AnchorsOf(Q, 1..StageCount(Q)) = {}
  BY SequenceParts
<1>2. Part(Setup) /\ Part(Payoff)
  BY SequenceParts
<1>4. /\ Apart(PatternVars(Setup), x) /\ Apart(PatternVars(Payoff), y)
      /\ ApartBut(PatternVars(Setup), PatternVars(Payoff), x, y)
      /\ PatternRenamed(P, Setup, x) /\ PatternRenamed(Q, Payoff, y)
  BY <1>1 DEF SequenceAsked
<1> HIDE DEF J
<1>5. Occurs(J, B, ivs) <=>
        \E b, own, c, other :
          /\ Occurs(P, b, own) /\ Occurs(Payoff, c, other)
          /\ Earlier(own, RenameKeys(other, y)) /\ Agree(b, RenameKeys(c, y))
          /\ B = Overlay(b, RenameKeys(c, y)) /\ ivs = Overlay(own, RenameKeys(other, y))
  BY <1>1, <1>2, <1>4, ContinuedOccurs
<1>6. \A c, other : Occurs(P, c, other) <=>
        \E d, o : Occurs(Setup, d, o) /\ c = RenameKeys(d, x) /\ other = RenameKeys(o, x)
  BY <1>2, <1>4, RenamedOccurs
<1>7. ASSUME NEW b, NEW own, NEW c, NEW other, Occurs(Setup, b, own), Occurs(Payoff, c, other)
      PROVE  Continues(MatchAs(b, own), MatchAs(c, other)) <=>
               /\ Earlier(RenameKeys(own, x), RenameKeys(other, y))
               /\ Agree(RenameKeys(b, x), RenameKeys(c, y))
  <2>1. /\ DOMAIN b = PatternVars(Setup) /\ DOMAIN own \subseteq PatternVars(Setup)
        /\ DOMAIN c = PatternVars(Payoff) /\ DOMAIN other \subseteq PatternVars(Payoff)
    BY <1>7, OccursDomains
  <2>2. Apart(DOMAIN b, x) /\ Apart(DOMAIN own, x) /\ Apart(DOMAIN c, y) /\ Apart(DOMAIN other, y)
        /\ ApartBut(DOMAIN b, DOMAIN c, x, y)
    BY <1>4, <2>1 DEF Apart
  <2>3. Earlier(RenameKeys(own, x), RenameKeys(other, y)) <=> Earlier(own, other)
    BY <2>2, EarlierRenamed
  <2>4. Agree(RenameKeys(b, x), RenameKeys(c, y)) <=> \A v \in Shared \cap DOMAIN b \cap DOMAIN c : b[v] = c[v]
    BY <2>2, AgreeRenamed
  <2>5. Continues(MatchAs(b, own), MatchAs(c, other)) <=>
          Earlier(own, other) /\ \A v \in Shared \cap DOMAIN b \cap DOMAIN c : b[v] = c[v]
    BY DEF Continues, Earlier, MatchAs
  <2> QED BY <2>3, <2>4, <2>5
<1>8. ASSUME Occurs(J, B, ivs)
      PROVE  SequenceShown(x, y, B, ivs)
  <2>1. PICK e, o, c, other :
          /\ Occurs(P, e, o) /\ Occurs(Payoff, c, other)
          /\ Earlier(o, RenameKeys(other, y)) /\ Agree(e, RenameKeys(c, y))
          /\ B = Overlay(e, RenameKeys(c, y)) /\ ivs = Overlay(o, RenameKeys(other, y))
    BY <1>5, <1>8
  <2>2. PICK b, own : Occurs(Setup, b, own) /\ e = RenameKeys(b, x) /\ o = RenameKeys(own, x)
    BY <1>6, <2>1
  <2>3. Continues(MatchAs(b, own), MatchAs(c, other))
    BY <1>7, <2>1, <2>2
  <2>4. B = Overlay(RenameKeys(b, x), RenameKeys(c, y))
        /\ ivs = Overlay(RenameKeys(own, x), RenameKeys(other, y))
    BY <2>1, <2>2
  <2> QED BY <2>1, <2>2, <2>3, <2>4, Zenon DEF SequenceShown
<1>9. ASSUME SequenceShown(x, y, B, ivs)
      PROVE  Occurs(J, B, ivs)
  <2>1. PICK b, own, c, other :
          /\ Occurs(Setup, b, own) /\ Occurs(Payoff, c, other)
          /\ Continues(MatchAs(b, own), MatchAs(c, other))
          /\ B = Overlay(RenameKeys(b, x), RenameKeys(c, y))
          /\ ivs = Overlay(RenameKeys(own, x), RenameKeys(other, y))
    BY <1>9, Zenon DEF SequenceShown
  <2>2. Occurs(P, RenameKeys(b, x), RenameKeys(own, x))
    BY <1>6, <2>1
  <2>3. Earlier(RenameKeys(own, x), RenameKeys(other, y)) /\ Agree(RenameKeys(b, x), RenameKeys(c, y))
    BY <1>7, <2>1
  <2> QED BY <1>5, <2>1, <2>2, <2>3
<1> QED BY <1>8, <1>9 DEF J

\* So the complete matches of the sequence are what it means
LEMMA SequenceIsMeant ==
  ASSUME BlockLibrary, EventVocabulary, StepwiseLibrary, SequenceAsked, Faithful(1)
  PROVE  SequenceMeansThen
<1> SUFFICES ASSUME Pending = {}
             PROVE  CompletedMatches(1) = SequenceMeaning
  BY DEF SequenceMeansThen
<1>0. /\ 1 \in DOMAIN Library /\ Registrable(Library[1]) /\ Part(Setup) /\ Registrable(Setup)
      /\ Part(Payoff) /\ Registrable(Payoff) /\ TypeOK /\ EventsInOrder
  BY SequenceParts DEF Faithful, Inv
<1>8. PICK x, y : x = <<"a">> /\ y = <<"b">>
  OBVIOUS
<1>1. \A z : z \in CompletedMatches(1) <=>
        \E B, ivs : z = MatchAs(B, ivs) /\ Occurs(Library[1], B, ivs)
  <2>1. \A B, ivs : MatchAs(B, ivs) \in CompletedMatches(1) <=> Occurs(Library[1], B, ivs)
    BY <1>0, CompletedAreOccurrences DEF MatchAs
  <2>2. \A z \in CompletedMatches(1) : \E B, ivs : z = MatchAs(B, ivs)
    BY DEF CompletedMatches, MatchOf, MatchAs
  <2> QED BY <2>1, <2>2
<1>2. \A z : z \in Occurrences(Setup) <=> \E B, ivs : z = MatchAs(B, ivs) /\ Occurs(Setup, B, ivs)
  BY <1>0, OccurrencesAre DEF MatchAs
<1>3. \A z : z \in Occurrences(Payoff) <=> \E B, ivs : z = MatchAs(B, ivs) /\ Occurs(Payoff, B, ivs)
  BY <1>0, OccurrencesAre DEF MatchAs
<1>4. \A z : z \in SequenceMeaning <=>
        \E m \in Occurrences(Setup), n \in Occurrences(Payoff) :
          Continues(m, n) /\ z = Both(RenameMatch(m, x), RenameMatch(n, y))
  <2> DEFINE Paired(m, n) == Both(RenameMatch(m, x), RenameMatch(n, y))
             S == Occurrences(Setup)
             T == Occurrences(Payoff)
  <2>1. SequenceMeaning = {Paired(mn[1], mn[2]) : mn \in {u \in S \X T : Continues(u[1], u[2])}}
    BY <1>8 DEF SequenceMeaning
  <2> HIDE DEF Paired, S, T
  <2>2. \A z : z \in SequenceMeaning <=> \E mn \in S \X T : Continues(mn[1], mn[2]) /\ z = Paired(mn[1], mn[2])
    BY <2>1
  <2>3. \A m \in S, n \in T : <<m, n>> \in S \X T /\ <<m, n>>[1] = m /\ <<m, n>>[2] = n
    OBVIOUS
  <2>4. \A mn \in S \X T : mn[1] \in S /\ mn[2] \in T
    OBVIOUS
  <2>5. ASSUME NEW z \in SequenceMeaning
        PROVE  \E m \in S, n \in T : Continues(m, n) /\ z = Paired(m, n)
    <3>1. PICK mn \in S \X T : Continues(mn[1], mn[2]) /\ z = Paired(mn[1], mn[2])
      BY <2>2
    <3> QED BY <2>4, <3>1
  <2>6. ASSUME NEW z, NEW m \in S, NEW n \in T, Continues(m, n), z = Paired(m, n)
        PROVE  z \in SequenceMeaning
    <3>1. <<m, n>> \in S \X T /\ <<m, n>>[1] = m /\ <<m, n>>[2] = n
      BY <2>3
    <3>2. PICK mn : mn = <<m, n>>
      OBVIOUS
    <3>3. mn \in S \X T /\ mn[1] = m /\ mn[2] = n
      BY <3>1, <3>2
    <3> QED BY <2>2, <2>6, <3>3
  <2>7. \A z : z \in SequenceMeaning <=> \E m \in S, n \in T : Continues(m, n) /\ z = Paired(m, n)
    BY <2>5, <2>6
  <2> QED BY <2>7 DEF Paired, S, T
<1>5. \A b, own, c, other :
        Both(RenameMatch(MatchAs(b, own), x), RenameMatch(MatchAs(c, other), y))
          = MatchAs(Overlay(RenameKeys(b, x), RenameKeys(c, y)),
                    Overlay(RenameKeys(own, x), RenameKeys(other, y)))
  BY DEF Both, RenameMatch, MatchAs
<1>6. ASSUME NEW z \in CompletedMatches(1)
      PROVE  z \in SequenceMeaning
  <2>1. PICK B, ivs : z = MatchAs(B, ivs) /\ Occurs(Library[1], B, ivs)
    BY <1>1
  <2>2. SequenceShown(x, y, B, ivs)
    BY <1>0, <1>8, <2>1, SequenceOccurs
  <2>3. PICK b, own, c, other :
          /\ Occurs(Setup, b, own) /\ Occurs(Payoff, c, other)
          /\ Continues(MatchAs(b, own), MatchAs(c, other))
          /\ B = Overlay(RenameKeys(b, x), RenameKeys(c, y))
          /\ ivs = Overlay(RenameKeys(own, x), RenameKeys(other, y))
    BY <2>2, Zenon DEF SequenceShown
  <2>4. MatchAs(b, own) \in Occurrences(Setup) /\ MatchAs(c, other) \in Occurrences(Payoff)
    BY <1>2, <1>3, <2>3
  <2>5. z = Both(RenameMatch(MatchAs(b, own), x), RenameMatch(MatchAs(c, other), y))
    <3>1. Both(RenameMatch(MatchAs(b, own), x), RenameMatch(MatchAs(c, other), y))
            = MatchAs(Overlay(RenameKeys(b, x), RenameKeys(c, y)),
                      Overlay(RenameKeys(own, x), RenameKeys(other, y)))
      BY <1>5
    <3> QED BY <2>1, <2>3, <3>1
  <2> QED BY <1>4, <2>3, <2>4, <2>5
<1>7. ASSUME NEW z \in SequenceMeaning
      PROVE  z \in CompletedMatches(1)
  <2>1. PICK m \in Occurrences(Setup), n \in Occurrences(Payoff) :
          Continues(m, n) /\ z = Both(RenameMatch(m, x), RenameMatch(n, y))
    BY <1>4
  <2>2. PICK b, own : m = MatchAs(b, own) /\ Occurs(Setup, b, own)
    BY <1>2
  <2>3. PICK c, other : n = MatchAs(c, other) /\ Occurs(Payoff, c, other)
    BY <1>3
  <2>4. PICK B, ivs : /\ B = Overlay(RenameKeys(b, x), RenameKeys(c, y))
                      /\ ivs = Overlay(RenameKeys(own, x), RenameKeys(other, y))
    OBVIOUS
  <2>5. SequenceShown(x, y, B, ivs)
    BY <2>1, <2>2, <2>3, <2>4, Zenon DEF SequenceShown
  <2>6. Occurs(Library[1], B, ivs)
    BY <1>0, <1>8, <2>5, SequenceOccurs
  <2>7. z = MatchAs(B, ivs)
    <3>1. Both(RenameMatch(MatchAs(b, own), x), RenameMatch(MatchAs(c, other), y))
            = MatchAs(Overlay(RenameKeys(b, x), RenameKeys(c, y)),
                      Overlay(RenameKeys(own, x), RenameKeys(other, y)))
      BY <1>5
    <3> QED BY <2>1, <2>2, <2>3, <2>4, <3>1
  <2> QED BY <1>1, <2>6, <2>7
<1> QED BY <1>6, <1>7

\* Setup >> Payoff matches when and only when an occurrence of Payoff follows one
\* of Setup with the same shared entities: on_edge_added completes just the
\* matches the sequence means, once it has been told of every event.
THEOREM SequenceMeansThenAlways ==
  ASSUME BlockLibrary, AnchoredLibrary, OneEventEach, EventVocabulary, StepwiseLibrary,
         LastingLibrary, SequenceAsked
  PROVE  OrderedSpec => []SequenceMeansThen
<1>1. 1 \in DOMAIN Library
  BY SequenceParts
<1>2. OrderedSpec => []AllFaithful
  BY OrderedFaithful
<1>3. AllFaithful => SequenceMeansThen
  BY <1>1, SequenceIsMeant DEF AllFaithful
<1> QED BY <1>2, <1>3, PTL

-----------------------------------------------------------------------------
(* Offense * Count                                                         *)

\* The first i repetitions, from those before
Unrolled(h, i) ==
  IF i = 0 THEN Plain(<<"strikes">>, << >>)
  ELSE Joined(<<"strikes">>, h[i - 1], RenameVars(Offense, Rep(i), Shared))

\* What repeat returns: all repetitions
LEMMA UnrolledSteps ==
  ASSUME Count \in Nat
  PROVE  \E u : /\ u = [i \in 0..Count |-> Unrolled(u, i)]
                /\ RepeatOf(<<"strikes">>, Offense, Count, Shared) = u[Count]
<1> DEFINE S == {k \in Nat : \E h : h = [i \in 0..k |-> Unrolled(h, i)]}
           upTo == CHOOSE h : h = [i \in 0..Count |-> Unrolled(h, i)]
<1> HIDE DEF upTo
<1>1. 0 \in S
  <2> DEFINE h == [i \in 0..0 |-> Plain(<<"strikes">>, << >>)]
  <2>1. h = [i \in 0..0 |-> Unrolled(h, i)]
    BY DEF Unrolled
  <2> HIDE DEF h
  <2> QED BY <2>1
<1>2. ASSUME NEW k \in Nat, k \in S
      PROVE  k + 1 \in S
  <2>1. PICK h : h = [i \in 0..k |-> Unrolled(h, i)]
    BY <1>2
  <2> DEFINE h2 == [i \in 0..(k + 1) |-> IF i \in 0..k THEN h[i] ELSE Unrolled(h, k + 1)]
  <2>2. ASSUME NEW i \in 0..(k + 1)
        PROVE  h2[i] = Unrolled(h2, i)
    <3>1. i # 0 => i - 1 \in 0..k /\ h2[i - 1] = h[i - 1]
      OBVIOUS
    <3>2. h2[i] = Unrolled(h, i)
      <4> HIDE DEF S
      <4>1. i \in 0..k \/ i = k + 1
        OBVIOUS
      <4> QED BY <2>1, <4>1
    <3> HIDE DEF h2
    <3>3. Unrolled(h, i) = Unrolled(h2, i)
      <4>1. i = 0 => Unrolled(h, i) = Unrolled(h2, i)
        BY DEF Unrolled
      <4>2. i # 0 => Unrolled(h, i) = Unrolled(h2, i)
        BY <3>1, Zenon DEF Unrolled
      <4> QED BY <4>1, <4>2
    <3> QED BY <3>2, <3>3
  <2>3. h2 = [i \in 0..(k + 1) |-> Unrolled(h2, i)]
    <3>1. h2 = [i \in 0..(k + 1) |-> h2[i]]
      OBVIOUS
    <3> HIDE DEF h2
    <3> QED BY <2>2, <3>1
  <2> HIDE DEF h2
  <2>4. k + 1 \in Nat
    OBVIOUS
  <2> QED BY <2>3, <2>4
<1>3. Nat \subseteq S
  <2> HIDE DEF S
  <2> QED BY <1>1, <1>2, Induction
<1>4. upTo = [i \in 0..Count |-> Unrolled(upTo, i)]
  <2>1. \E h : h = [i \in 0..Count |-> Unrolled(h, i)]
    BY <1>3
  <2> QED BY <2>1, Zenon DEF upTo
<1>5. RepeatOf(<<"strikes">>, Offense, Count, Shared) = upTo[Count]
  BY Zenon DEF RepeatOf, Unrolled, Rep, upTo
<1> QED BY <1>4, <1>5

\* Runs of k offenses, from those of one less
RunsOn(h, k) ==
  IF k = 1 THEN {<<m>> : m \in Occurrences(Offense)}
  ELSE UNION {{Append(r, m) : m \in {x \in Occurrences(Offense) : Continues(r[k - 1], x)}}
              : r \in h[k - 1]}

\* What Runs returns: those of all
LEMMA RunsSteps ==
  ASSUME Count \in Nat \ {0}
  PROVE  \E h : h = [k \in 1..Count |-> RunsOn(h, k)] /\ Runs(Count) = h[Count]
<1> DEFINE S == {k \in Nat : \E h : h = [i \in 1..k |-> RunsOn(h, i)]}
           upTo == CHOOSE h : h = [i \in 1..Count |-> RunsOn(h, i)]
<1> HIDE DEF upTo
<1>1. 0 \in S
  <2> DEFINE h == [i \in 1..0 |-> {}]
  <2>1. h = [i \in 1..0 |-> RunsOn(h, i)]
    OBVIOUS
  <2> HIDE DEF h
  <2> QED BY <2>1
<1>2. ASSUME NEW k \in Nat, k \in S
      PROVE  k + 1 \in S
  <2>1. PICK h : h = [i \in 1..k |-> RunsOn(h, i)]
    BY <1>2
  <2> DEFINE h2 == [i \in 1..(k + 1) |-> IF i \in 1..k THEN h[i] ELSE RunsOn(h, k + 1)]
  <2>2. ASSUME NEW i \in 1..(k + 1)
        PROVE  h2[i] = RunsOn(h2, i)
    <3>1. i # 1 => i - 1 \in 1..k /\ h2[i - 1] = h[i - 1]
      OBVIOUS
    <3>2. h2[i] = RunsOn(h, i)
      <4> HIDE DEF S
      <4>1. i \in 1..k \/ i = k + 1
        OBVIOUS
      <4> QED BY <2>1, <4>1
    <3> HIDE DEF h2
    <3>3. RunsOn(h, i) = RunsOn(h2, i)
      <4>1. i = 1 => RunsOn(h, i) = RunsOn(h2, i)
        BY Zenon DEF RunsOn
      <4>2. i # 1 => RunsOn(h, i) = RunsOn(h2, i)
        BY <3>1, Zenon DEF RunsOn
      <4> QED BY <4>1, <4>2
    <3> QED BY <3>2, <3>3
  <2>3. h2 = [i \in 1..(k + 1) |-> RunsOn(h2, i)]
    <3>1. h2 = [i \in 1..(k + 1) |-> h2[i]]
      OBVIOUS
    <3> HIDE DEF h2
    <3> QED BY <2>2, <3>1
  <2> HIDE DEF h2
  <2>4. k + 1 \in Nat
    OBVIOUS
  <2> QED BY <2>3, <2>4
<1>3. Nat \subseteq S
  <2> HIDE DEF S
  <2> QED BY <1>1, <1>2, Induction
<1>4. upTo = [i \in 1..Count |-> RunsOn(upTo, i)]
  <2>1. \E h : h = [i \in 1..Count |-> RunsOn(h, i)]
    BY <1>3
  <2> QED BY <2>1, Zenon DEF upTo
<1>5. Runs(Count) = upTo[Count]
  BY Zenon DEF Runs, RunsOn, upTo
<1> QED BY <1>4, <1>5

\* The match of the first k offenses of a run, from that of one less
MadeOf(h, r, k) ==
  LET m == RenameMatch(r[k], Rep(k))
  IN  IF k = 1 THEN m ELSE Both(h[k - 1], m)

Along(r) == CHOOSE h : h = [k \in 1..Count |-> MadeOf(h, r, k)]

\* What a repetition means: the match of all of a run
LEMMA AlongSteps ==
  ASSUME Count \in Nat \ {0}
  PROVE  /\ \A r : Along(r) = [k \in 1..Count |-> MadeOf(Along(r), r, k)]
         /\ RepeatMeaning = {Along(r)[Count] : r \in Runs(Count)}
<1>1. ASSUME NEW r
      PROVE  Along(r) = [k \in 1..Count |-> MadeOf(Along(r), r, k)]
  <2> DEFINE S == {k \in Nat : \E h : h = [i \in 1..k |-> MadeOf(h, r, i)]}
  <2>1. 0 \in S
    <3> DEFINE h == [i \in 1..0 |-> {}]
    <3>1. h = [i \in 1..0 |-> MadeOf(h, r, i)]
      OBVIOUS
    <3> HIDE DEF h
    <3> QED BY <3>1
  <2>2. ASSUME NEW k \in Nat, k \in S
        PROVE  k + 1 \in S
    <3>1. PICK h : h = [i \in 1..k |-> MadeOf(h, r, i)]
      BY <2>2
    <3> DEFINE h2 == [i \in 1..(k + 1) |-> IF i \in 1..k THEN h[i] ELSE MadeOf(h, r, k + 1)]
    <3>2. ASSUME NEW i \in 1..(k + 1)
          PROVE  h2[i] = MadeOf(h2, r, i)
      <4>1. i # 1 => i - 1 \in 1..k /\ h2[i - 1] = h[i - 1]
        OBVIOUS
      <4>2. h2[i] = MadeOf(h, r, i)
        <5> HIDE DEF S
        <5>1. i \in 1..k \/ i = k + 1
          OBVIOUS
        <5> QED BY <3>1, <5>1
      <4> HIDE DEF h2
      <4>3. MadeOf(h, r, i) = MadeOf(h2, r, i)
        <5>1. i = 1 => MadeOf(h, r, i) = MadeOf(h2, r, i)
          BY Zenon DEF MadeOf
        <5>2. i # 1 => MadeOf(h, r, i) = MadeOf(h2, r, i)
          BY <4>1, Zenon DEF MadeOf
        <5> QED BY <5>1, <5>2
      <4> QED BY <4>2, <4>3
    <3>3. h2 = [i \in 1..(k + 1) |-> MadeOf(h2, r, i)]
      <4>1. h2 = [i \in 1..(k + 1) |-> h2[i]]
        OBVIOUS
      <4> HIDE DEF h2
      <4> QED BY <3>2, <4>1
    <3> HIDE DEF h2
    <3>4. k + 1 \in Nat
      OBVIOUS
    <3> QED BY <3>3, <3>4
  <2>3. Nat \subseteq S
    <3> HIDE DEF S
    <3> QED BY <2>1, <2>2, Induction
  <2>4. \E h : h = [i \in 1..Count |-> MadeOf(h, r, i)]
    BY <2>3
  <2> QED BY <2>4, Zenon DEF Along
<1>2. RepeatMeaning = {Along(r)[Count] : r \in Runs(Count)}
  BY Zenon DEF RepeatMeaning, Along, MadeOf, Rep
<1> QED BY <1>1, <1>2

Repetition(k) == RenameVars(Offense, Rep(k), Shared)

\* The first k repetitions make a part, of the names of each
RepeatPart(u, k) ==
  /\ Part(u[k]) /\ Settled(u[k]) /\ u[k].negations = {}
  /\ \A z \in PatternVars(u[k]) : \E j \in 1..k : z \in Renames(PatternVars(Offense), Rep(j))

\* The next repetition is told apart from them
RepeatNext(u, k) ==
  /\ Joins(u[k], u[k - 1], Repetition(k))
  /\ AnchorsOf(u[k - 1], 1..StageCount(u[k - 1]))
       \cap AnchorsOf(Repetition(k), 1..StageCount(Repetition(k))) = {}

\* A pattern of no stages
LEMMA EmptyPart ==
  ASSUME NEW p, p = Plain(<<"strikes">>, << >>)
  PROVE  /\ Part(p) /\ Settled(p) /\ p.negations = {} /\ StageCount(p) = 0
         /\ PatternVars(p) = {} /\ AnchorsOf(p, 1..StageCount(p)) = {}
         /\ \A B, ivs : Occurs(p, B, ivs) <=> IsMap(B) /\ DOMAIN B = {} /\ IsMap(ivs) /\ DOMAIN ivs = {}
<1>1. p.stages = << >> /\ p.temporal = {} /\ p.unordered_groups = {} /\ p.negations = {}
  BY DEF Plain
<1>2. StageCount(p) = 0
  BY <1>1 DEF StageCount
<1>3. 1..StageCount(p) = {}
  BY <1>2
<1>4. Searchable(p)
  BY <1>2, <1>3 DEF Searchable, Blocks
<1>5. IsSequence(p.stages)
  <2>1. \A z : p.stages \in Seq(z)
    BY <1>1, EmptySeq
  <2> QED BY <2>1, Zenon DEF IsSequence
<1>6. Part(p) /\ Settled(p)
  BY <1>1, <1>3, <1>4, <1>5 DEF Part, Settled
<1>7. PatternVars(p) = {} /\ AnchorsOf(p, 1..StageCount(p)) = {}
  BY <1>3 DEF PatternVars, VarsOf, AnchorsOf
<1>8. \A ivs : CheckTemporal(p, ivs)
  BY <1>1, <1>3 DEF CheckTemporal, StagesOrdered
<1>9. \A B, ivs : Occurs(p, B, ivs) <=> IsMap(B) /\ DOMAIN B = {} /\ IsMap(ivs) /\ DOMAIN ivs = {}
  BY <1>3, <1>7, <1>8 DEF Occurs
<1> QED BY <1>1, <1>2, <1>6, <1>7, <1>9

\* The repetition as the engine has it
LEMMA RepeatParts ==
  ASSUME BlockLibrary, StepwiseLibrary, RepeatAsked
  PROVE  /\ 2 \in DOMAIN Library /\ Registrable(Library[2])
         /\ Part(Offense) /\ Registrable(Offense) /\ StageCount(Offense) \in Nat /\ StageCount(Offense) >= 1
         /\ \A k \in 1..Count : PatternRenamed(Repetition(k), Offense, Rep(k))
         /\ \E u : /\ Library[2] = u[Count] /\ u[0] = Plain(<<"strikes">>, << >>)
                   /\ \A k \in 0..Count : RepeatPart(u, k)
                   /\ \A k \in 1..Count : RepeatNext(u, k)
<1> DEFINE V == PatternVars(Offense)
           n == StageCount(Offense)
<1>1. PICK u : /\ u = [i \in 0..Count |-> Unrolled(u, i)]
               /\ RepeatOf(<<"strikes">>, Offense, Count, Shared) = u[Count]
  BY UnrolledSteps DEF RepeatAsked
<1>2. /\ PartPattern(Offense) /\ Count \in Nat /\ Count >= 1
      /\ \A s \in 1..n : Offense.stages[s].anchor \notin Shared
      /\ \A i \in 1..Count : Apart(V, Rep(i))
      /\ \A i, j \in 1..Count : i # j => ApartBut(V, V, Rep(i), Rep(j))
  BY DEF RepeatAsked
<1>3. 2 \in DOMAIN Library /\ Library[2] = u[Count]
  BY <1>1 DEF RepeatAsked, ComposedLibrary
<1>4. \A k \in 1..Count : PatternRenamed(Repetition(k), Offense, Rep(k))
  BY <1>2, VarsRenamed DEF PartPattern, Repetition
<1>5. u[0] = Plain(<<"strikes">>, << >>)
  <2>1. 0 \in 0..Count
    BY <1>2
  <2>2. u[0] = Unrolled(u, 0)
    BY <1>1, <2>1
  <2> QED BY <2>2 DEF Unrolled
<1>6. \A k \in 1..Count : u[k] = Joined(<<"strikes">>, u[k - 1], Repetition(k))
  <2> SUFFICES ASSUME NEW k \in 1..Count
               PROVE  u[k] = Joined(<<"strikes">>, u[k - 1], Repetition(k))
    OBVIOUS
  <2>1. k \in 0..Count /\ k # 0
    BY <1>2
  <2>2. u[k] = Unrolled(u, k)
    BY <1>1, <2>1
  <2> QED BY <2>1, <2>2, Zenon DEF Unrolled, Repetition
<1> HIDE DEF V, n
\* every u[k] is of a sequence of stages
<1>7. \A k \in 0..Count : IsSequence(u[k].stages)
  <2> DEFINE S == {k \in Nat : k <= Count => IsSequence(u[k].stages)}
  <2>1. 0 \in S
    BY <1>5, EmptyPart DEF Part
  <2>2. ASSUME NEW k \in Nat, k \in S
        PROVE  k + 1 \in S
    <3> SUFFICES ASSUME k + 1 <= Count
                 PROVE  IsSequence(u[k + 1].stages)
      OBVIOUS
    <3>1. k + 1 \in 1..Count /\ (k + 1) - 1 = k /\ k <= Count
      BY <1>2
    <3>2. IsSequence(u[k].stages)
      BY <2>2, <3>1
    <3>3. IsSequence(Repetition(k + 1).stages)
      BY <1>4, <3>1 DEF PatternRenamed
    <3>4. u[k + 1] = Joined(<<"strikes">>, u[k], Repetition(k + 1))
      BY <1>6, <3>1
    <3>5. Joins(u[k + 1], u[k], Repetition(k + 1))
      BY <3>2, <3>3, <3>4, JoinedJoins
    <3> QED BY <3>5 DEF Joins
  <2>3. Nat \subseteq S
    <3> HIDE DEF S
    <3> QED BY <2>1, <2>2, Induction
  <2> QED BY <2>3
<1>8. \A k \in 1..Count : Joins(u[k], u[k - 1], Repetition(k))
  <2> SUFFICES ASSUME NEW k \in 1..Count
               PROVE  Joins(u[k], u[k - 1], Repetition(k))
    OBVIOUS
  <2>1. k - 1 \in 0..Count
    BY <1>2
  <2>2. IsSequence(u[k - 1].stages) /\ IsSequence(Repetition(k).stages)
    BY <1>4, <1>7, <2>1 DEF PatternRenamed
  <2> QED BY <1>6, <2>2, JoinedJoins
\* ... the last of which asks for Offense's labels
<1>9. Part(Offense) /\ Registrable(Offense) /\ n \in Nat /\ n >= 1
  <2> DEFINE q == Repetition(Count)
             m == StageCount(u[Count - 1])
  <2>1. Count \in 1..Count
    BY <1>2
  <2>2. PatternRenamed(q, Offense, Rep(Count)) /\ Joins(u[Count], u[Count - 1], q)
    BY <1>4, <1>8, <2>1
  <2>3. /\ StageCount(q) = n /\ n \in Nat /\ n >= 1
        /\ \A s \in 1..n : q.stages[s].clauses[1].label = Offense.stages[s].clauses[1].label
    BY <1>2, <2>2, RenamedLabels DEF n
  <2>4. /\ m \in Nat /\ StageCount(u[Count]) = m + n
        /\ \A s \in 1..n : u[Count].stages[m + s] = q.stages[s]
    BY <2>2, <2>3 DEF Joins
  <2> HIDE DEF q, m
  <2>5. \A s \in 1..StageCount(u[Count]) : u[Count].stages[s].clauses[1].label \in HeadLabels
    <3>1. \A s \in 1..StageCount(Library[2]) : Library[2].stages[s].clauses[1].label \in StageLabels
      BY <1>3 DEF StageLabels
    <3> QED BY <1>3, <3>1 DEF HeadLabels
  <2>6. \A s \in 1..n : m + s \in 1..StageCount(u[Count])
    BY <2>3, <2>4
  <2>7. \A s \in 1..n : Offense.stages[s].clauses[1].label \in HeadLabels
    BY <2>3, <2>4, <2>5, <2>6
  <2> QED BY <1>2, <2>3, <2>7, AskedPart DEF n
<1>10. ASSUME NEW k \in 1..Count
       PROVE  /\ Part(Repetition(k)) /\ Settled(Repetition(k)) /\ Repetition(k).negations = {}
              /\ PatternVars(Repetition(k)) = Renames(V, Rep(k))
              /\ \A z \in AnchorsOf(Repetition(k), 1..StageCount(Repetition(k))) :
                   \E w \in V : z = Renamed(w, Rep(k), Shared) /\ w \notin Shared
  <2>1. PatternRenamed(Repetition(k), Offense, Rep(k)) /\ Apart(PatternVars(Offense), Rep(k))
    BY <1>2, <1>4 DEF V
  <2>2. Part(Repetition(k)) /\ Settled(Repetition(k))
    BY <1>9, <2>1, RenamedPart, RenamedSettled DEF Registrable
  <2>3. Repetition(k).negations = {}
    BY <1>9, <2>1 DEF PatternRenamed, Registrable
  <2>4. /\ AnchorsOf(Repetition(k), 1..StageCount(Repetition(k)))
             = Renames(AnchorsOf(Offense, 1..StageCount(Offense)), Rep(k))
        /\ PatternVars(Repetition(k)) = Renames(PatternVars(Offense), Rep(k))
    BY <1>9, <2>1, RenamedVars
  <2>5. \A w \in AnchorsOf(Offense, 1..StageCount(Offense)) : w \in V /\ w \notin Shared
    BY <1>2, AnchorVars DEF AnchorsOf, V, n
  <2> QED BY <2>2, <2>3, <2>4, <2>5 DEF V, Renames
<1>11. ASSUME NEW k \in Nat, k + 1 <= Count, RepeatPart(u, k)
       PROVE  RepeatNext(u, k + 1)
  <2>1. k + 1 \in 1..Count /\ (k + 1) - 1 = k
    BY <1>2, <1>11
  <2>2. Joins(u[k + 1], u[k], Repetition(k + 1))
    BY <1>8, <2>1
  <2>3. ASSUME NEW z \in AnchorsOf(u[k], 1..StageCount(u[k])),
               z \in AnchorsOf(Repetition(k + 1), 1..StageCount(Repetition(k + 1)))
        PROVE  FALSE
    <3>1. z \in PatternVars(u[k])
      BY AnchorVars
    <3>2. PICK j \in 1..k : z \in Renames(V, Rep(j))
      BY <1>11, <3>1 DEF RepeatPart, V
    <3>3. PICK v \in V : z = Renamed(v, Rep(j), Shared)
      BY <3>2 DEF Renames
    <3>4. PICK w \in V : z = Renamed(w, Rep(k + 1), Shared) /\ w \notin Shared
      BY <1>10, <2>1, <2>3
    <3>5. j \in 1..Count /\ j # k + 1
      BY <1>2, <1>11
    <3>6. ApartBut(V, V, Rep(j), Rep(k + 1))
      BY <1>2, <2>1, <3>5
    <3> QED BY <3>3, <3>4, <3>6 DEF ApartBut
  <2> QED BY <2>1, <2>2, <2>3 DEF RepeatNext
<1>12. \A k \in 0..Count : RepeatPart(u, k)
  <2> DEFINE S == {k \in Nat : k <= Count => RepeatPart(u, k)}
  <2>1. 0 \in S
    BY <1>5, EmptyPart DEF RepeatPart
  <2>2. ASSUME NEW k \in Nat, k \in S
        PROVE  k + 1 \in S
    <3> SUFFICES ASSUME k + 1 <= Count
                 PROVE  RepeatPart(u, k + 1)
      OBVIOUS
    <3>1. k + 1 \in 1..Count /\ (k + 1) - 1 = k /\ RepeatPart(u, k)
      BY <1>2, <2>2
    <3> DEFINE U == u[k]
               q == Repetition(k + 1)
               J == u[k + 1]
    <3>2. /\ Joins(J, U, q)
          /\ AnchorsOf(U, 1..StageCount(U)) \cap AnchorsOf(q, 1..StageCount(q)) = {}
      BY <1>11, <3>1 DEF RepeatNext
    <3>3. Part(U) /\ Settled(U) /\ U.negations = {}
          /\ \A z \in PatternVars(U) : \E j \in 1..k : z \in Renames(V, Rep(j))
      BY <3>1 DEF RepeatPart, V
    <3>4. Part(q) /\ Settled(q) /\ q.negations = {} /\ PatternVars(q) = Renames(V, Rep(k + 1))
      BY <1>10, <3>1
    <3> HIDE DEF U, q, J
    <3>5. Part(J) /\ Settled(J)
      BY <3>2, <3>3, <3>4, JoinedPart, JoinedSettled
    <3>6. J.negations = {} /\ PatternVars(J) = PatternVars(U) \cup PatternVars(q)
      BY <3>2, <3>3, <3>4, JoinedVars DEF Joins
    <3>7. \A z \in PatternVars(J) : \E j \in 1..(k + 1) : z \in Renames(V, Rep(j))
      BY <3>3, <3>4, <3>6
    <3> QED BY <3>5, <3>6, <3>7 DEF RepeatPart, J, V
  <2>3. Nat \subseteq S
    <3> HIDE DEF S
    <3> QED BY <2>1, <2>2, Induction
  <2> QED BY <2>3
<1>13. \A k \in 1..Count : RepeatNext(u, k)
  <2> SUFFICES ASSUME NEW k \in 1..Count
               PROVE  RepeatNext(u, k)
    OBVIOUS
  <2>1. PICK l \in Nat : k = l + 1 /\ l \in 0..Count
    <3>1. k - 1 \in Nat /\ k = (k - 1) + 1 /\ k - 1 \in 0..Count
      BY <1>2
    <3> QED BY <3>1
  <2>2. RepeatPart(u, l) /\ l + 1 <= Count
    BY <1>2, <1>12, <2>1
  <2> QED BY <1>11, <2>1, <2>2
<1>14. Registrable(Library[2])
  <2>1. Count \in 0..Count /\ Count \in 1..Count
    BY <1>2
  <2>2. Settled(u[Count]) /\ u[Count].negations = {}
    BY <1>12, <2>1 DEF RepeatPart
  <2>3. u[Count].stages # << >>
    <3>1. Joins(u[Count], u[Count - 1], Repetition(Count)) /\ StageCount(Repetition(Count)) >= 1
      BY <1>2, <1>4, <1>8, <2>1, RenamedLabels
    <3>2. StageCount(u[Count]) >= 1
      BY <3>1 DEF Joins
    <3> QED BY <3>2 DEF StageCount
  <2> QED BY <1>3, <2>2, <2>3 DEF Registrable
<1> QED BY <1>3, <1>4, <1>5, <1>9, <1>12, <1>13, <1>14 DEF n

\* Runs with the same beginning make the same match of it
LEMMA AlongSame ==
  ASSUME Count \in Nat \ {0}, NEW r, NEW r2, NEW k \in 1..Count, \A j \in 1..k : r[j] = r2[j]
  PROVE  Along(r)[k] = Along(r2)[k]
<1>1. \A j \in 1..Count : Along(r)[j] = MadeOf(Along(r), r, j) /\ Along(r2)[j] = MadeOf(Along(r2), r2, j)
  <2>1. Along(r) = [j \in 1..Count |-> MadeOf(Along(r), r, j)]
    BY AlongSteps
  <2>2. Along(r2) = [j \in 1..Count |-> MadeOf(Along(r2), r2, j)]
    BY AlongSteps
  <2> DEFINE f == Along(r)
             f2 == Along(r2)
  <2>3. f = [j \in 1..Count |-> MadeOf(f, r, j)] /\ f2 = [j \in 1..Count |-> MadeOf(f2, r2, j)]
    BY <2>1, <2>2
  <2> HIDE DEF f, f2
  <2>4. \A j \in 1..Count : f[j] = MadeOf(f, r, j) /\ f2[j] = MadeOf(f2, r2, j)
    BY <2>3
  <2> QED BY <2>4 DEF f, f2
<1> DEFINE S == {j \in Nat : j \in 1..k => Along(r)[j] = Along(r2)[j]}
<1>2. 0 \in S
  OBVIOUS
<1>3. ASSUME NEW j \in Nat, j \in S
      PROVE  j + 1 \in S
  <2> SUFFICES ASSUME j + 1 \in 1..k
               PROVE  Along(r)[j + 1] = Along(r2)[j + 1]
    OBVIOUS
  <2>1. j + 1 \in 1..Count /\ (j + 1) - 1 = j
    OBVIOUS
  <2>2. r[j + 1] = r2[j + 1]
    OBVIOUS
  <2>3. j + 1 # 1 => Along(r)[j] = Along(r2)[j]
    BY <1>3
  <2>4. MadeOf(Along(r), r, j + 1) = MadeOf(Along(r2), r2, j + 1)
    BY <2>1, <2>2, <2>3, Zenon DEF MadeOf
  <2> QED BY <1>1, <2>1, <2>4
<1>4. Nat \subseteq S
  <2> HIDE DEF S
  <2> QED BY <1>2, <1>3, Induction
<1> QED BY <1>4

\* b and own are of an occurrence of the first k repetitions, the last of them
\* being c and other
RunEnd(u, k, b, own, c, other) ==
  /\ Occurs(u[k], b, own) /\ Occurs(Offense, c, other)
  /\ Extends(b, RenameKeys(c, Rep(k))) /\ Extends(own, RenameKeys(other, Rep(k)))
  /\ \A x \in DOMAIN own : \E y \in DOMAIN other : own[x].start <= other[y].start

\* What comes after the last of them, and agrees with it, does with all
LEMMA ContinuesLast ==
  ASSUME EventVocabulary, TypeOK, EventsInOrder, RepeatAsked, Part(Offense),
         NEW u, NEW k \in 1..Count, k + 1 <= Count, RepeatPart(u, k),
         NEW b, NEW own, NEW c, NEW other, RunEnd(u, k, b, own, c, other),
         NEW d, NEW o, Occurs(Offense, d, o)
  PROVE  Continues(MatchAs(c, other), MatchAs(d, o)) <=>
           Earlier(own, RenameKeys(o, Rep(k + 1))) /\ Agree(b, RenameKeys(d, Rep(k + 1)))
<1> DEFINE V == PatternVars(Offense)
           x == Rep(k)
           y == Rep(k + 1)
           C == RenameKeys(c, x)
           D == RenameKeys(d, y)
           T == RenameKeys(other, x)
           O == RenameKeys(o, y)
<1>1. /\ DOMAIN c = V /\ DOMAIN d = V /\ DOMAIN other \subseteq V /\ DOMAIN o \subseteq V
      /\ IsMap(b) /\ DOMAIN b = PatternVars(u[k]) /\ DOMAIN own = AnchorsOf(u[k], 1..StageCount(u[k]))
  BY OccursDomains DEF RunEnd
<1>2. /\ Count \in Nat /\ k + 1 \in 1..Count
      /\ \A i \in 1..Count : Apart(V, Rep(i))
      /\ \A i, j \in 1..Count : i # j => ApartBut(V, V, Rep(i), Rep(j))
  BY DEF RepeatAsked
<1>3. Apart(V, x) /\ Apart(V, y) /\ ApartBut(V, V, x, y)
  <2>1. k # k + 1
    OBVIOUS
  <2> QED BY <1>2, <2>1
<1>4. Apart(DOMAIN other, x) /\ Apart(DOMAIN o, y)
  BY <1>1, <1>3 DEF Apart
<1>5. /\ DOMAIN C = Renames(V, x) /\ Carries(C, c, x) /\ DOMAIN D = Renames(V, y) /\ Carries(D, d, y)
      /\ DOMAIN T = Renames(DOMAIN other, x) /\ Carries(T, other, x)
      /\ DOMAIN O = Renames(DOMAIN o, y) /\ Carries(O, o, y)
  BY <1>1, <1>3, <1>4, KeysRenamed
<1>6. Extends(b, C) /\ Extends(own, T)
      /\ \A z \in DOMAIN own : \E w \in DOMAIN other : own[z].start <= other[w].start
  BY DEF RunEnd
<1>7. \A z \in DOMAIN own : own[z].start \in Int
  <2>1. OccursWithin(u[k], b, own)
    BY OccursIs DEF RunEnd
  <2> QED BY <1>1, <2>1, OccursStarts
<1>8. (\A w \in DOMAIN other : other[w].start \in Int) /\ \A w \in DOMAIN o : o[w].start \in Int
  <2>1. OccursWithin(Offense, c, other) /\ OccursWithin(Offense, d, o)
    BY OccursIs DEF RunEnd
  <2>2. DOMAIN other = AnchorsOf(Offense, 1..StageCount(Offense))
        /\ DOMAIN o = AnchorsOf(Offense, 1..StageCount(Offense))
    BY OccursDomains DEF RunEnd
  <2> QED BY <2>1, <2>2, OccursStarts
<1> HIDE DEF V, x, y, C, D, T, O
<1>9. Earlier(own, O) <=> Earlier(other, o)
  <2>1. ASSUME Earlier(own, O), NEW v \in DOMAIN other, NEW w \in DOMAIN o
        PROVE  other[v].start < o[w].start
    <3>1. Renamed(v, x, Shared) \in DOMAIN T /\ T[Renamed(v, x, Shared)] = other[v]
      BY <1>5 DEF Carries
    <3>2. Renamed(v, x, Shared) \in DOMAIN own /\ own[Renamed(v, x, Shared)] = other[v]
      BY <1>6, <3>1 DEF Extends
    <3>3. Renamed(w, y, Shared) \in DOMAIN O /\ O[Renamed(w, y, Shared)] = o[w]
      BY <1>5 DEF Carries
    <3> QED BY <2>1, <3>2, <3>3 DEF Earlier
  <2>2. ASSUME Earlier(other, o), NEW z \in DOMAIN own, NEW s \in DOMAIN O
        PROVE  own[z].start < O[s].start
    <3>1. PICK w \in DOMAIN other : own[z].start <= other[w].start
      BY <1>6
    <3>2. PICK t \in DOMAIN o : s = Renamed(t, y, Shared)
      BY <1>5 DEF Renames
    <3>3. O[s] = o[t]
      BY <1>5, <3>2 DEF Carries
    <3>4. other[w].start < o[t].start
      BY <2>2 DEF Earlier
    <3> QED BY <1>7, <1>8, <3>1, <3>3, <3>4
  <2> QED BY <2>1, <2>2 DEF Earlier
<1>10. Agree(b, D) <=> \A v \in Shared \cap DOMAIN c \cap DOMAIN d : c[v] = d[v]
  <2>1. ASSUME Agree(b, D), NEW v \in Shared \cap DOMAIN c \cap DOMAIN d
        PROVE  c[v] = d[v]
    <3>1. Renamed(v, x, Shared) = v /\ Renamed(v, y, Shared) = v
      BY DEF Renamed
    <3>2. v \in DOMAIN C /\ C[v] = c[v] /\ v \in DOMAIN D /\ D[v] = d[v]
      BY <1>5, <3>1 DEF Carries
    <3>3. v \in DOMAIN b /\ b[v] = c[v]
      BY <1>6, <3>2 DEF Extends
    <3> QED BY <2>1, <3>2, <3>3 DEF Agree
  <2>2. ASSUME \A v \in Shared \cap DOMAIN c \cap DOMAIN d : c[v] = d[v],
               NEW z \in DOMAIN b \cap DOMAIN D
        PROVE  b[z] = D[z]
    <3>1. PICK v \in V : z = Renamed(v, y, Shared)
      BY <1>5 DEF Renames
    <3>2. PICK j \in 1..k : z \in Renames(V, Rep(j))
      BY <1>1 DEF RepeatPart, V
    <3>3. PICK w \in V : z = Renamed(w, Rep(j), Shared)
      BY <3>2 DEF Renames
    <3>4. j \in 1..Count /\ j # k + 1
      BY <1>2
    <3>5. ApartBut(V, V, Rep(j), y)
      BY <1>2, <3>4 DEF V, y
    <3>6. w = v /\ v \in Shared
      BY <3>1, <3>3, <3>5 DEF ApartBut
    <3>7. Renamed(v, x, Shared) = v /\ z = v
      BY <3>1, <3>6 DEF Renamed
    <3>8. v \in DOMAIN C /\ C[v] = c[v] /\ v \in DOMAIN D /\ D[v] = d[v]
      BY <1>1, <1>5, <3>1, <3>7 DEF Carries
    <3>9. b[v] = C[v]
      BY <1>6, <3>8 DEF Extends
    <3>10. c[v] = d[v]
      BY <1>1, <2>2, <3>6
    <3> QED BY <3>7, <3>8, <3>9, <3>10
  <2> QED BY <2>1, <2>2 DEF Agree
<1>11. Continues(MatchAs(c, other), MatchAs(d, o)) <=>
         Earlier(other, o) /\ \A v \in Shared \cap DOMAIN c \cap DOMAIN d : c[v] = d[v]
  BY DEF Continues, Earlier, MatchAs
<1> QED BY <1>9, <1>10, <1>11 DEF x, y, D, O

\* The first k + 1 repetitions occur when the first k do and then the part
LEMMA OneMore ==
  ASSUME EventVocabulary, TypeOK, EventsInOrder, RepeatAsked, Part(Offense),
         NEW u, NEW k \in Nat, k + 1 <= Count, RepeatPart(u, k), RepeatNext(u, k + 1),
         PatternRenamed(Repetition(k + 1), Offense, Rep(k + 1)), NEW B, NEW ivs
  PROVE  Occurs(u[k + 1], B, ivs) <=>
           \E b, own, c, other :
             /\ Occurs(u[k], b, own) /\ Occurs(Offense, c, other)
             /\ Earlier(own, RenameKeys(other, Rep(k + 1))) /\ Agree(b, RenameKeys(c, Rep(k + 1)))
             /\ B = Overlay(b, RenameKeys(c, Rep(k + 1))) /\ ivs = Overlay(own, RenameKeys(other, Rep(k + 1)))
<1>1. PICK J, U, q, y : J = u[k + 1] /\ U = u[k] /\ q = Repetition(k + 1) /\ y = Rep(k + 1)
  OBVIOUS
<1>2. k + 1 \in 1..Count /\ (k + 1) - 1 = k
  BY DEF RepeatAsked
<1>3. Part(U) /\ Apart(PatternVars(Offense), y) /\ PatternRenamed(q, Offense, y)
  BY <1>1, <1>2 DEF RepeatPart, RepeatAsked
<1>4. Joins(J, U, q) /\ AnchorsOf(U, 1..StageCount(U)) \cap AnchorsOf(q, 1..StageCount(q)) = {}
  BY <1>1, <1>2 DEF RepeatNext
<1>5. Occurs(J, B, ivs) <=>
        \E b, own, c, other :
          /\ Occurs(U, b, own) /\ Occurs(Offense, c, other)
          /\ Earlier(own, RenameKeys(other, y)) /\ Agree(b, RenameKeys(c, y))
          /\ B = Overlay(b, RenameKeys(c, y)) /\ ivs = Overlay(own, RenameKeys(other, y))
  BY <1>3, <1>4, ContinuedOccurs
<1> QED BY <1>1, <1>5

\* The first repetition is an occurrence of the part, under its names
LEMMA FirstRun ==
  ASSUME EventVocabulary, TypeOK, EventsInOrder, RepeatAsked, Part(Offense),
         NEW u, u[0] = Plain(<<"strikes">>, << >>), RepeatPart(u, 0), RepeatNext(u, 1),
         PatternRenamed(Repetition(1), Offense, Rep(1))
  PROVE  /\ \A c, other : Occurs(Offense, c, other) =>
              RunEnd(u, 1, RenameKeys(c, Rep(1)), RenameKeys(other, Rep(1)), c, other)
         /\ \A B, ivs : Occurs(u[1], B, ivs) =>
              \E c, other : /\ Occurs(Offense, c, other)
                            /\ B = RenameKeys(c, Rep(1)) /\ ivs = RenameKeys(other, Rep(1))
<1>1. PICK y : y = Rep(1)
  OBVIOUS
<1>2. 0 \in Nat /\ 0 + 1 = 1 /\ 0 + 1 <= Count /\ 1 \in 1..Count
  BY DEF RepeatAsked
<1>3. \A B, ivs : Occurs(u[1], B, ivs) <=>
        \E b, own, c, other :
          /\ Occurs(u[0], b, own) /\ Occurs(Offense, c, other)
          /\ Earlier(own, RenameKeys(other, y)) /\ Agree(b, RenameKeys(c, y))
          /\ B = Overlay(b, RenameKeys(c, y)) /\ ivs = Overlay(own, RenameKeys(other, y))
  <2> SUFFICES ASSUME NEW B, NEW ivs
               PROVE  Occurs(u[1], B, ivs) <=>
                        \E b, own, c, other :
                          /\ Occurs(u[0], b, own) /\ Occurs(Offense, c, other)
                          /\ Earlier(own, RenameKeys(other, y)) /\ Agree(b, RenameKeys(c, y))
                          /\ B = Overlay(b, RenameKeys(c, y)) /\ ivs = Overlay(own, RenameKeys(other, y))
    OBVIOUS
  <2>1. PICK k \in Nat : k = 0
    BY <1>2
  <2>2. k + 1 <= Count /\ k + 1 = 1 /\ RepeatPart(u, k) /\ RepeatNext(u, k + 1)
        /\ PatternRenamed(Repetition(k + 1), Offense, Rep(k + 1))
    BY <1>2, <2>1
  <2>3. Occurs(u[k + 1], B, ivs) <=>
           \E b, own, c, other :
             /\ Occurs(u[k], b, own) /\ Occurs(Offense, c, other)
             /\ Earlier(own, RenameKeys(other, Rep(k + 1))) /\ Agree(b, RenameKeys(c, Rep(k + 1)))
             /\ B = Overlay(b, RenameKeys(c, Rep(k + 1))) /\ ivs = Overlay(own, RenameKeys(other, Rep(k + 1)))
    BY <2>2, OneMore
  <2> QED BY <1>1, <2>1, <2>2, <2>3
<1>4. \A b, own : Occurs(u[0], b, own) <=> IsMap(b) /\ DOMAIN b = {} /\ IsMap(own) /\ DOMAIN own = {}
  BY EmptyPart
<1>5. ASSUME NEW b, NEW f, DOMAIN b = {}, IsMap(f)
      PROVE  Overlay(b, f) = f
  <2>1. IsMap(Overlay(b, f)) /\ DOMAIN Overlay(b, f) = DOMAIN f
        /\ \A x \in DOMAIN f : Overlay(b, f)[x] = f[x]
    BY <1>5, OverlayIs
  <2> QED BY <1>5, <2>1, SameMap
<1>6. ASSUME NEW c, NEW other, Occurs(Offense, c, other)
      PROVE  /\ IsMap(RenameKeys(c, y)) /\ IsMap(RenameKeys(other, y))
             /\ DOMAIN RenameKeys(other, y) = Renames(DOMAIN other, y)
             /\ Carries(RenameKeys(other, y), other, y)
  <2>1. DOMAIN c = PatternVars(Offense) /\ DOMAIN other \subseteq PatternVars(Offense)
    BY <1>6, OccursDomains
  <2>2. Apart(PatternVars(Offense), y)
    BY <1>1, <1>2 DEF RepeatAsked
  <2>3. Apart(DOMAIN c, y) /\ Apart(DOMAIN other, y)
    BY <2>1, <2>2 DEF Apart
  <2> QED BY <2>3, KeysRenamed
<1>7. ASSUME NEW c, NEW other, Occurs(Offense, c, other)
      PROVE  RunEnd(u, 1, RenameKeys(c, y), RenameKeys(other, y), c, other)
  <2>1. PICK e : IsMap(e) /\ DOMAIN e = {}
    <3>1. IsMap(Within(<< >>, {})) /\ DOMAIN Within(<< >>, {}) = {}
      BY WithinIs
    <3> QED BY <3>1
  <2> DEFINE C == RenameKeys(c, y)
             T == RenameKeys(other, y)
  <2>2. IsMap(C) /\ IsMap(T) /\ DOMAIN T = Renames(DOMAIN other, y) /\ Carries(T, other, y)
    BY <1>6, <1>7
  <2>3. Occurs(u[0], e, e) /\ Earlier(e, T) /\ Agree(e, C)
    BY <1>4, <2>1 DEF Earlier, Agree
  <2>4. Overlay(e, C) = C /\ Overlay(e, T) = T
    BY <1>5, <2>1, <2>2
  <2> HIDE DEF C, T
  <2>5. Occurs(u[1], C, T)
    <3>1. Occurs(Offense, c, other) /\ Earlier(e, RenameKeys(other, y)) /\ Agree(e, RenameKeys(c, y))
          /\ C = Overlay(e, RenameKeys(c, y)) /\ T = Overlay(e, RenameKeys(other, y))
      BY <1>7, <2>3, <2>4 DEF C, T
    <3> QED BY <1>3, <2>3, <3>1
  <2>6. Extends(C, C) /\ Extends(T, T)
    BY DEF Extends
  <2>7. \A w \in DOMAIN other : other[w].start \in Int
    <3>1. OccursWithin(Offense, c, other) /\ DOMAIN other = AnchorsOf(Offense, 1..StageCount(Offense))
      BY <1>7, OccursIs
    <3> QED BY <3>1, OccursStarts
  <2>8. ASSUME NEW x \in DOMAIN T
        PROVE  \E z \in DOMAIN other : T[x].start <= other[z].start
    <3>1. PICK z \in DOMAIN other : x = Renamed(z, y, Shared)
      BY <2>2 DEF Renames
    <3>2. T[x] = other[z]
      BY <2>2, <3>1 DEF Carries
    <3>3. T[x].start <= other[z].start
      BY <2>7, <3>2
    <3> QED BY <3>3
  <2>9. RunEnd(u, 1, C, T, c, other)
    BY <1>1, <1>7, <2>5, <2>6, <2>8 DEF RunEnd, C, T
  <2> QED BY <2>9 DEF C, T
<1>8. ASSUME NEW B, NEW ivs, Occurs(u[1], B, ivs)
      PROVE  \E c, other : Occurs(Offense, c, other) /\ B = RenameKeys(c, y) /\ ivs = RenameKeys(other, y)
  <2>1. PICK b, own, c, other :
          /\ Occurs(u[0], b, own) /\ Occurs(Offense, c, other)
          /\ B = Overlay(b, RenameKeys(c, y)) /\ ivs = Overlay(own, RenameKeys(other, y))
    BY <1>3, <1>8
  <2>2. DOMAIN b = {} /\ DOMAIN own = {} /\ IsMap(RenameKeys(c, y)) /\ IsMap(RenameKeys(other, y))
    BY <1>4, <1>6, <2>1
  <2>3. B = RenameKeys(c, y) /\ ivs = RenameKeys(other, y)
    BY <1>5, <2>1, <2>2
  <2> QED BY <2>1, <2>3
<1> QED BY <1>1, <1>7, <1>8

\* An occurrence of the part that continues the last one makes one repetition more
LEMMA NextRun ==
  ASSUME EventVocabulary, TypeOK, EventsInOrder, RepeatAsked, Part(Offense), StageCount(Offense) >= 1,
         StageCount(Offense) \in Nat,
         NEW u, NEW k \in 1..Count, k + 1 <= Count, RepeatPart(u, k), RepeatNext(u, k + 1),
         PatternRenamed(Repetition(k + 1), Offense, Rep(k + 1)),
         NEW b, NEW own, NEW c, NEW other, RunEnd(u, k, b, own, c, other),
         NEW d, NEW o, Occurs(Offense, d, o), Continues(MatchAs(c, other), MatchAs(d, o))
  PROVE  RunEnd(u, k + 1, Overlay(b, RenameKeys(d, Rep(k + 1))), Overlay(own, RenameKeys(o, Rep(k + 1))), d, o)
<1> DEFINE y == Rep(k + 1)
           D == RenameKeys(d, y)
           O == RenameKeys(o, y)
           B == Overlay(b, D)
           ivs == Overlay(own, O)
           q == Repetition(k + 1)
<1>1. k \in Nat /\ k + 1 \in 1..Count /\ (k + 1) - 1 = k
  BY DEF RepeatAsked
<1>2. Earlier(own, O) /\ Agree(b, D)
  BY ContinuesLast
<1>3. Occurs(u[k], b, own)
  BY DEF RunEnd
<1>4. Occurs(u[k + 1], B, ivs)
  <2> HIDE DEF B, ivs
  <2>1. B = Overlay(b, RenameKeys(d, Rep(k + 1))) /\ ivs = Overlay(own, RenameKeys(o, Rep(k + 1)))
    BY DEF B, ivs
  <2>2. Earlier(own, RenameKeys(o, Rep(k + 1))) /\ Agree(b, RenameKeys(d, Rep(k + 1)))
    BY <1>2
  <2>3. Occurs(u[k + 1], B, ivs) <=>
          \E b2, own2, c2, other2 :
             /\ Occurs(u[k], b2, own2) /\ Occurs(Offense, c2, other2)
             /\ Earlier(own2, RenameKeys(other2, Rep(k + 1))) /\ Agree(b2, RenameKeys(c2, Rep(k + 1)))
             /\ B = Overlay(b2, RenameKeys(c2, Rep(k + 1))) /\ ivs = Overlay(own2, RenameKeys(other2, Rep(k + 1)))
    BY <1>1, OneMore
  <2> QED BY <1>3, <2>1, <2>2, <2>3
<1>5. /\ DOMAIN o = AnchorsOf(Offense, 1..StageCount(Offense)) /\ DOMAIN o \subseteq PatternVars(Offense)
      /\ DOMAIN own = AnchorsOf(u[k], 1..StageCount(u[k]))
  BY <1>3, OccursDomains
<1>6. Apart(PatternVars(Offense), y)
  BY <1>1 DEF RepeatAsked
<1>7. Apart(DOMAIN o, y)
  BY <1>5, <1>6 DEF Apart
<1>8. DOMAIN O = Renames(DOMAIN o, y) /\ Carries(O, o, y)
  BY <1>7, KeysRenamed
<1>9. DOMAIN own \cap DOMAIN O = {}
  <2>1. AnchorsOf(q, 1..StageCount(q)) = Renames(AnchorsOf(Offense, 1..StageCount(Offense)), y)
    BY RenamedVars
  <2>2. AnchorsOf(u[k], 1..StageCount(u[k])) \cap AnchorsOf(q, 1..StageCount(q)) = {}
    BY <1>1 DEF RepeatNext
  <2> HIDE DEF O, q, y
  <2> QED BY <1>5, <1>8, <2>1, <2>2
<1>10. (\A z \in DOMAIN own : own[z].start \in Int) /\ \A w \in DOMAIN o : o[w].start \in Int
  <2>1. OccursWithin(Offense, d, o) /\ OccursWithin(u[k], b, own)
    BY <1>3, OccursIs
  <2> QED BY <1>5, <2>1, OccursStarts
<1>11. PICK last : last \in DOMAIN o
  <2>1. 1 \in 1..StageCount(Offense)
    OBVIOUS
  <2>2. Offense.stages[1].anchor \in DOMAIN o
    BY <1>5, <2>1 DEF AnchorsOf
  <2> QED BY <2>2
<1> HIDE DEF O, D, y
<1>12. Extends(B, D) /\ Extends(ivs, O)
  <2>1. \A x \in DOMAIN b \cap DOMAIN D : b[x] = D[x]
    BY <1>2 DEF Agree
  <2>2. \A x \in DOMAIN own \cap DOMAIN O : own[x] = O[x]
    BY <1>9
  <2>3. Extends(Overlay(b, D), D)
    BY <2>1, OverlayExtends
  <2>4. Extends(Overlay(own, O), O)
    BY <2>2, OverlayExtends
  <2> QED BY <2>3, <2>4
<1>13. /\ DOMAIN ivs = DOMAIN own \cup DOMAIN O
       /\ \A x \in DOMAIN own : ivs[x] = own[x]
       /\ \A x \in DOMAIN O : ivs[x] = O[x]
  <2>1. /\ DOMAIN Overlay(own, O) = DOMAIN own \cup DOMAIN O
        /\ \A x \in DOMAIN own : Overlay(own, O)[x] = own[x]
        /\ \A x \in DOMAIN O : x \notin DOMAIN own => Overlay(own, O)[x] = O[x]
    BY OverlayIs
  <2>2. \A x \in DOMAIN O : x \notin DOMAIN own
    BY <1>9
  <2> QED BY <2>1, <2>2
<1> HIDE DEF B, ivs
<1>14. ASSUME NEW x \in DOMAIN ivs
       PROVE  \E z \in DOMAIN o : ivs[x].start <= o[z].start
  <2>1. CASE x \in DOMAIN own
    <3>1. Renamed(last, y, Shared) \in DOMAIN O /\ O[Renamed(last, y, Shared)] = o[last]
      BY <1>8, <1>11 DEF Carries
    <3>2. own[x].start < o[last].start
      BY <1>2, <2>1, <3>1 DEF Earlier
    <3>3. ivs[x].start <= o[last].start
      BY <1>10, <1>11, <1>13, <2>1, <3>2
    <3> QED BY <1>11, <3>3
  <2>2. CASE x \in DOMAIN O
    <3>1. PICK z \in DOMAIN o : x = Renamed(z, y, Shared)
      BY <1>8, <2>2 DEF Renames
    <3>2. ivs[x] = o[z]
      BY <1>8, <1>13, <2>2, <3>1 DEF Carries
    <3>3. ivs[x].start <= o[z].start
      BY <1>10, <3>2
    <3> QED BY <3>3
  <2> QED BY <1>13, <2>1, <2>2
<1>15. RunEnd(u, k + 1, B, ivs, d, o)
  BY <1>4, <1>12, <1>14 DEF RunEnd, D, O, y
<1> QED BY <1>15 DEF B, ivs, D, O, y

\* A run of k occurrences of the part
IsRun(r, k) == r \in Seq(Occurrences(Offense)) /\ Len(r) = k

\* The first k of run r make an occurrence of the first k repetitions
RunOf(u, r, k) ==
  \E b, own, c, other : /\ Along(r)[k] = MatchAs(b, own) /\ r[k] = MatchAs(c, other)
                        /\ RunEnd(u, k, b, own, c, other)

\* The runs of k are the occurrences of the first k repetitions
RunsShown(u, h, k) ==
  /\ \A r \in h[k] : IsRun(r, k) /\ RunOf(u, r, k)
  /\ \A B, ivs : Occurs(u[k], B, ivs) => \E r \in h[k] : Along(r)[k] = MatchAs(B, ivs)

\* What the first repetitions of a run make, and what one more does
LEMMA AlongIs ==
  ASSUME Count \in Nat \ {0}, NEW r
  PROVE  /\ Along(r)[1] = RenameMatch(r[1], Rep(1))
         /\ \A k \in 1..Count : k # 1 => Along(r)[k] = Both(Along(r)[k - 1], RenameMatch(r[k], Rep(k)))
<1> DEFINE f == Along(r)
<1>1. f = [j \in 1..Count |-> MadeOf(f, r, j)]
  BY AlongSteps
<1> HIDE DEF f
<1>2. \A j \in 1..Count : f[j] = MadeOf(f, r, j)
  BY <1>1
<1>3. 1 \in 1..Count
  OBVIOUS
<1>4. f[1] = RenameMatch(r[1], Rep(1))
  BY <1>2, <1>3, Zenon DEF MadeOf
<1>5. \A k \in 1..Count : k # 1 => f[k] = Both(f[k - 1], RenameMatch(r[k], Rep(k)))
  BY <1>2, Zenon DEF MadeOf
<1> QED BY <1>4, <1>5 DEF f

\* Runs of one are the occurrences of the part
LEMMA RunsFirst ==
  ASSUME EventVocabulary, TypeOK, EventsInOrder, RepeatAsked, Part(Offense), Registrable(Offense),
         NEW u, u[0] = Plain(<<"strikes">>, << >>), RepeatPart(u, 0), RepeatNext(u, 1),
         PatternRenamed(Repetition(1), Offense, Rep(1)),
         NEW h, h[1] = {<<m>> : m \in Occurrences(Offense)}
  PROVE  RunsShown(u, h, 1)
<1>0. Count \in Nat \ {0}
  BY DEF RepeatAsked
<1>1. \A z : z \in Occurrences(Offense) <=> \E B, ivs : z = MatchAs(B, ivs) /\ Occurs(Offense, B, ivs)
  BY OccurrencesAre DEF MatchAs
<1>2. \A b, own, x : RenameMatch(MatchAs(b, own), x) = MatchAs(RenameKeys(b, x), RenameKeys(own, x))
  BY DEF RenameMatch, MatchAs
<1>3. ASSUME NEW r \in h[1]
      PROVE  IsRun(r, 1) /\ RunOf(u, r, 1)
  <2>1. PICK m \in Occurrences(Offense) : r = <<m>>
    BY <1>3
  <2>2. IsRun(r, 1) /\ r[1] = m
    BY <2>1 DEF IsRun
  <2>3. PICK c, other : m = MatchAs(c, other) /\ Occurs(Offense, c, other)
    BY <1>1
  <2>4. RunEnd(u, 1, RenameKeys(c, Rep(1)), RenameKeys(other, Rep(1)), c, other)
    BY <2>3, FirstRun
  <2>5. Along(r)[1] = MatchAs(RenameKeys(c, Rep(1)), RenameKeys(other, Rep(1)))
    <3>1. Along(r)[1] = RenameMatch(MatchAs(c, other), Rep(1))
      BY <1>0, <2>2, <2>3, AlongIs
    <3> QED BY <1>2, <3>1
  <2> QED BY <2>2, <2>3, <2>4, <2>5, Zenon DEF RunOf
<1>4. ASSUME NEW B, NEW ivs, Occurs(u[1], B, ivs)
      PROVE  \E r \in h[1] : Along(r)[1] = MatchAs(B, ivs)
  <2>1. PICK c, other : Occurs(Offense, c, other) /\ B = RenameKeys(c, Rep(1)) /\ ivs = RenameKeys(other, Rep(1))
    BY <1>4, FirstRun
  <2>2. PICK m : m = MatchAs(c, other)
    OBVIOUS
  <2>3. m \in Occurrences(Offense)
    BY <1>1, <2>1, <2>2
  <2>4. PICK r : r = <<m>>
    OBVIOUS
  <2>5. r \in h[1] /\ r[1] = MatchAs(c, other)
    BY <2>2, <2>3, <2>4
  <2>6. Along(r)[1] = MatchAs(RenameKeys(c, Rep(1)), RenameKeys(other, Rep(1)))
    <3>1. Along(r)[1] = RenameMatch(MatchAs(c, other), Rep(1))
      BY <1>0, <2>5, AlongIs
    <3> QED BY <1>2, <3>1
  <2> QED BY <2>1, <2>5, <2>6
<1> QED BY <1>3, <1>4, Zenon DEF RunsShown

\* ... and those of one more continue them
LEMMA RunsNext ==
  ASSUME EventVocabulary, TypeOK, EventsInOrder, RepeatAsked, Part(Offense), Registrable(Offense),
         StageCount(Offense) \in Nat, StageCount(Offense) >= 1,
         NEW u, NEW k \in 1..Count, k + 1 <= Count, RepeatPart(u, k), RepeatNext(u, k + 1),
         PatternRenamed(Repetition(k + 1), Offense, Rep(k + 1)),
         NEW h, RunsShown(u, h, k),
         h[k + 1] = RunsOn(h, k + 1)
  PROVE  RunsShown(u, h, k + 1)
<1>0. Count \in Nat \ {0} /\ k \in Nat /\ k + 1 \in 1..Count /\ (k + 1) - 1 = k /\ k + 1 # 1
  BY DEF RepeatAsked
<1>1. \A z : z \in Occurrences(Offense) <=> \E B, ivs : z = MatchAs(B, ivs) /\ Occurs(Offense, B, ivs)
  BY OccurrencesAre DEF MatchAs
<1>2. \A b, own, c, other, x :
        Both(MatchAs(b, own), RenameMatch(MatchAs(c, other), x))
          = MatchAs(Overlay(b, RenameKeys(c, x)), Overlay(own, RenameKeys(other, x)))
  BY DEF Both, RenameMatch, MatchAs
<1>3. \A z : z \in h[k + 1] <=>
        \E r \in h[k], m \in Occurrences(Offense) : Continues(r[k], m) /\ z = Append(r, m)
  <2>1. PICK l : l = k + 1
    OBVIOUS
  <2>2. l # 1 /\ l - 1 = k /\ h[k + 1] = RunsOn(h, l)
    BY <1>0, <2>1
  <2>3. \A z : z \in RunsOn(h, l) <=>
          \E r \in h[l - 1], m \in Occurrences(Offense) : Continues(r[l - 1], m) /\ z = Append(r, m)
    BY <2>2 DEF RunsOn
  <2> QED BY <2>2, <2>3
\* a run of one more, and what it makes
<1> DEFINE Longer(z, r, m) == z = Append(r, m)
<1> HIDE DEF Longer
<1>4. ASSUME NEW r \in h[k], NEW m \in Occurrences(Offense), NEW z, Longer(z, r, m)
      PROVE  IsRun(z, k + 1) /\ z[k] = r[k] /\ z[k + 1] = m
             /\ Along(z)[k + 1] = Both(Along(r)[k], RenameMatch(m, Rep(k + 1)))
  <2>1. IsRun(r, k)
    BY DEF RunsShown
  <2>2. r \in Seq(Occurrences(Offense)) /\ Len(r) = k
    BY <2>1 DEF IsRun
  <2>3. /\ z \in Seq(Occurrences(Offense)) /\ Len(z) = k + 1
        /\ \A i \in 1..k : z[i] = r[i]
        /\ z[k + 1] = m
    BY <1>4, <2>2, AppendProperties DEF Longer
  <2>4. Along(z)[k] = Along(r)[k]
    BY <1>0, <2>3, AlongSame
  <2>5. Along(z)[k + 1] = Both(Along(z)[(k + 1) - 1], RenameMatch(z[k + 1], Rep(k + 1)))
    BY <1>0, AlongIs
  <2> QED BY <1>0, <2>3, <2>4, <2>5 DEF IsRun
<1>5. ASSUME NEW z \in h[k + 1]
      PROVE  IsRun(z, k + 1) /\ RunOf(u, z, k + 1)
  <2>1. PICK r \in h[k], m \in Occurrences(Offense) : Continues(r[k], m) /\ z = Append(r, m)
    BY <1>3
  <2>2. /\ IsRun(z, k + 1) /\ z[k + 1] = m
        /\ Along(z)[k + 1] = Both(Along(r)[k], RenameMatch(m, Rep(k + 1)))
    <3>1. Longer(z, r, m)
      BY <2>1 DEF Longer
    <3> QED BY <1>4, <3>1
  <2>3. RunOf(u, r, k)
    BY DEF RunsShown
  <2>4. PICK b, own, c, other : /\ Along(r)[k] = MatchAs(b, own) /\ r[k] = MatchAs(c, other)
                                /\ RunEnd(u, k, b, own, c, other)
    BY <2>3, Zenon DEF RunOf
  <2>5. PICK d, o : m = MatchAs(d, o) /\ Occurs(Offense, d, o)
    BY <1>1
  <2>6. Continues(MatchAs(c, other), MatchAs(d, o))
    BY <2>1, <2>4, <2>5
  <2>7. PICK B, ivs : /\ B = Overlay(b, RenameKeys(d, Rep(k + 1)))
                      /\ ivs = Overlay(own, RenameKeys(o, Rep(k + 1)))
    OBVIOUS
  <2>8. RunEnd(u, k + 1, B, ivs, d, o)
    BY <2>4, <2>5, <2>6, <2>7, NextRun
  <2>9. Along(z)[k + 1] = MatchAs(B, ivs)
    BY <1>2, <2>2, <2>4, <2>5, <2>7
  <2> QED BY <2>2, <2>5, <2>8, <2>9, Zenon DEF RunOf
<1>6. ASSUME NEW B, NEW ivs, Occurs(u[k + 1], B, ivs)
      PROVE  \E z \in h[k + 1] : Along(z)[k + 1] = MatchAs(B, ivs)
  <2>1. PICK b, own, d, o :
          /\ Occurs(u[k], b, own) /\ Occurs(Offense, d, o)
          /\ Earlier(own, RenameKeys(o, Rep(k + 1))) /\ Agree(b, RenameKeys(d, Rep(k + 1)))
          /\ B = Overlay(b, RenameKeys(d, Rep(k + 1))) /\ ivs = Overlay(own, RenameKeys(o, Rep(k + 1)))
    <3>1. Occurs(u[k + 1], B, ivs) <=>
            \E b, own, c, other :
               /\ Occurs(u[k], b, own) /\ Occurs(Offense, c, other)
               /\ Earlier(own, RenameKeys(other, Rep(k + 1))) /\ Agree(b, RenameKeys(c, Rep(k + 1)))
               /\ B = Overlay(b, RenameKeys(c, Rep(k + 1))) /\ ivs = Overlay(own, RenameKeys(other, Rep(k + 1)))
      BY <1>0, OneMore
    <3> QED BY <1>6, <3>1
  <2>2. PICK r \in h[k] : Along(r)[k] = MatchAs(b, own)
    BY <2>1 DEF RunsShown
  <2>3. RunOf(u, r, k)
    BY DEF RunsShown
  <2>4. PICK b2, own2, c, other : /\ Along(r)[k] = MatchAs(b2, own2) /\ r[k] = MatchAs(c, other)
                                  /\ RunEnd(u, k, b2, own2, c, other)
    BY <2>3, Zenon DEF RunOf
  <2>5. b2 = b /\ own2 = own
    BY <2>2, <2>4 DEF MatchAs
  <2>6. RunEnd(u, k, b, own, c, other)
    BY <2>4, <2>5
  <2>7. Continues(MatchAs(c, other), MatchAs(d, o))
    BY <2>1, <2>6, ContinuesLast
  <2>8. PICK m, z : m = MatchAs(d, o) /\ z = Append(r, m)
    OBVIOUS
  <2>9. m \in Occurrences(Offense) /\ z \in h[k + 1]
    <3>1. m \in Occurrences(Offense)
      BY <1>1, <2>1, <2>8
    <3>2. Continues(r[k], m)
      BY <2>4, <2>7, <2>8
    <3> QED BY <1>3, <2>8, <3>1, <3>2
  <2>10. Along(z)[k + 1] = MatchAs(B, ivs)
    <3>1. Along(z)[k + 1] = Both(Along(r)[k], RenameMatch(m, Rep(k + 1)))
      BY <1>4, <2>8, <2>9 DEF Longer
    <3> QED BY <1>2, <2>1, <2>2, <2>8, <3>1
  <2> QED BY <2>9, <2>10
<1> QED BY <1>5, <1>6, Zenon DEF RunsShown

\* The complete matches of the repetition are what it means
LEMMA RepeatIsMeant ==
  ASSUME BlockLibrary, EventVocabulary, StepwiseLibrary, RepeatAsked, Faithful(2)
  PROVE  RepeatMeansTimes
<1> SUFFICES ASSUME Pending = {}
             PROVE  CompletedMatches(2) = RepeatMeaning
  BY DEF RepeatMeansTimes
<1>1. /\ 2 \in DOMAIN Library /\ Registrable(Library[2]) /\ TypeOK /\ EventsInOrder
      /\ Part(Offense) /\ Registrable(Offense) /\ StageCount(Offense) \in Nat /\ StageCount(Offense) >= 1
      /\ \A k \in 1..Count : PatternRenamed(Repetition(k), Offense, Rep(k))
      /\ Count \in Nat \ {0} /\ Count >= 1
  BY RepeatParts DEF Faithful, Inv, RepeatAsked
<1>2. PICK u : /\ Library[2] = u[Count] /\ u[0] = Plain(<<"strikes">>, << >>)
               /\ \A k \in 0..Count : RepeatPart(u, k)
               /\ \A k \in 1..Count : RepeatNext(u, k)
  BY RepeatParts
<1>3. PICK h : h = [k \in 1..Count |-> RunsOn(h, k)] /\ Runs(Count) = h[Count]
  BY <1>1, RunsSteps
<1>4. \A k \in 1..Count : h[k] = RunsOn(h, k)
  BY <1>3
<1>5. \A k \in 1..Count : RunsShown(u, h, k)
  <2> DEFINE S == {k \in Nat : k \in 1..Count => RunsShown(u, h, k)}
  <2>1. RunsShown(u, h, 1)
    <3>1. 0 \in 0..Count /\ 1 \in 1..Count
      BY <1>1
    <3>2. h[1] = {<<m>> : m \in Occurrences(Offense)}
      BY <1>4, <3>1, Zenon DEF RunsOn
    <3>3. RepeatPart(u, 0) /\ RepeatNext(u, 1) /\ PatternRenamed(Repetition(1), Offense, Rep(1))
      BY <1>1, <1>2, <3>1
    <3> QED BY <1>1, <1>2, <3>2, <3>3, RunsFirst
  <2>2. 0 \in S
    OBVIOUS
  <2>3. ASSUME NEW k \in Nat, k \in S
        PROVE  k + 1 \in S
    <3> SUFFICES ASSUME k + 1 \in 1..Count
                 PROVE  RunsShown(u, h, k + 1)
      OBVIOUS
    <3>1. CASE k = 0
      BY <2>1, <3>1
    <3>2. CASE k # 0
      <4>1. k \in 1..Count /\ k \in 0..Count /\ k + 1 <= Count /\ (k + 1) - 1 = k /\ k + 1 # 1
        BY <1>1, <3>2
      <4>2. RunsShown(u, h, k)
        BY <2>3, <4>1
      <4>3. /\ RepeatPart(u, k) /\ RepeatNext(u, k + 1)
            /\ PatternRenamed(Repetition(k + 1), Offense, Rep(k + 1))
        BY <1>1, <1>2, <4>1
      <4>4. h[k + 1] = RunsOn(h, k + 1)
        BY <1>4
      <4> QED BY <1>1, <4>1, <4>2, <4>3, <4>4, RunsNext
    <3> QED BY <3>1, <3>2
  <2>4. Nat \subseteq S
    <3> HIDE DEF S
    <3> QED BY <2>2, <2>3, Induction
  <2> QED BY <2>4
<1>6. Count \in 1..Count
  BY <1>1
<1>7. RepeatMeaning = {Along(r)[Count] : r \in Runs(Count)}
  BY <1>1, AlongSteps
<1>8. \A B, ivs : MatchAs(B, ivs) \in CompletedMatches(2) <=> Occurs(Library[2], B, ivs)
  BY <1>1, CompletedAreOccurrences DEF MatchAs
<1>9. \A z \in CompletedMatches(2) : \E B, ivs : z = MatchAs(B, ivs)
  BY DEF CompletedMatches, MatchOf, MatchAs
<1>10. RunsShown(u, h, Count)
  BY <1>5, <1>6
<1>11. ASSUME NEW z \in CompletedMatches(2)
       PROVE  z \in RepeatMeaning
  <2>1. PICK B, ivs : z = MatchAs(B, ivs)
    BY <1>9
  <2>2. Occurs(u[Count], B, ivs)
    BY <1>2, <1>8, <2>1
  <2>3. PICK r \in h[Count] : Along(r)[Count] = MatchAs(B, ivs)
    BY <1>10, <2>2 DEF RunsShown
  <2> QED BY <1>3, <1>7, <2>1, <2>3
<1>12. ASSUME NEW z \in RepeatMeaning
       PROVE  z \in CompletedMatches(2)
  <2>1. PICK r \in h[Count] : z = Along(r)[Count]
    BY <1>3, <1>7
  <2>2. RunOf(u, r, Count)
    BY <1>10 DEF RunsShown
  <2>3. PICK b, own, c, other : Along(r)[Count] = MatchAs(b, own) /\ RunEnd(u, Count, b, own, c, other)
    BY <2>2, Zenon DEF RunOf
  <2>4. Occurs(Library[2], b, own)
    BY <1>2, <2>3 DEF RunEnd
  <2> QED BY <1>8, <2>1, <2>3, <2>4
<1> QED BY <1>11, <1>12

\* Offense * Count matches when and only when Count occurrences of it, of the
\* same shared entities, follow each other: on_edge_added completes just the
\* matches the repetition means, whatever Count is.
THEOREM RepeatMeansTimesAlways ==
  ASSUME BlockLibrary, AnchoredLibrary, OneEventEach, EventVocabulary, StepwiseLibrary,
         LastingLibrary, RepeatAsked
  PROVE  OrderedSpec => []RepeatMeansTimes
<1>1. 2 \in DOMAIN Library
  BY RepeatParts
<1>2. OrderedSpec => []AllFaithful
  BY OrderedFaithful
<1>3. AllFaithful => RepeatMeansTimes
  BY <1>1, RepeatIsMeant DEF AllFaithful
<1> QED BY <1>2, <1>3, PTL
=============================================================================
