----------------------------- MODULE StoryProofs -----------------------------
(***************************************************************************)
(* What holds of the engine when its caller ends every tick it begins:     *)
(* GameLoop's properties, for every library of patterns, every event and   *)
(* every number of ticks.                                                  *)
(*                                                                         *)
(* A loop is a behaviour of the engine, so the inductive invariant of      *)
(* SiftEngineProofs holds of it; the two properties of the loop are        *)
(* inductive relative to that.                                             *)
(*                                                                         *)
(* Then the loop with the trackers beside it (StoryLoop): what the thread  *)
(* tracker is told, a summary of names once a tick, keeps it in step with  *)
(* the engine's counters, and what a tick's score counts as a resolution.  *)
(***************************************************************************)
EXTENDS StoryLoop, SiftEngineProofs, NarrativeProofs

\* The loop takes no step the engine cannot
LEMMA LoopStepIsStep == [LoopNext]_vars => [Next]_vars
BY Zenon DEF LoopNext, Play, TickEnds, Next

\* What a step does that writes no match and does not end the tick
Drops == pms' \subseteq pms /\ acc' = acc /\ tick_counter' = tick_counter

\* The steps of the loop
LEMMA LoopSteps ==
  ASSUME [LoopNext]_vars
  PROVE  \/ Drops
         \/ \E i \in DOMAIN graph : Notify(i)
         \/ \E threshold \in StaleThresholds : EndTick(threshold)
<1>1. CASE Register
  BY <1>1 DEF Register, matches, Drops
<1>2. ASSUME NEW es \in Batches, Insert(es)
      PROVE  Drops
  BY <1>2 DEF Insert, matches, Drops
<1>3. ASSUME NEW i \in Pats, NEW on \in BOOLEAN, SetPatternEnabled(i, on)
      PROVE  Drops
  BY <1>3 DEF SetPatternEnabled, Drops
<1>4. ASSUME NEW node \in Nodes, KillPmsInvolving(node)
      PROVE  Drops
  BY <1>4 DEF KillPmsInvolving, Drops
<1>5. CASE DrainCompleted
  BY <1>5 DEF DrainCompleted, Active, Drops
<1>6. CASE UNCHANGED vars
  BY <1>6 DEF vars, matches, Drops
<1> QED BY <1>1, <1>2, <1>3, <1>4, <1>5, <1>6 DEF LoopNext, Play, TickEnds

\* A notification keeps the clock and writes good matches of named patterns
LEMMA NotifyWrites ==
  ASSUME Inv, NEW i \in DOMAIN graph, Notify(i), NEW pm \in pms', pm \notin pms
  PROVE  /\ GoodMatch(pm)
         /\ Library[pm.pattern_idx].name \in
              (IF pm.state = "Complete" THEN acc'.completed ELSE acc'.advanced)
<1> DEFINE new == NewMatches(MatchesMade(graph[i]))
           advanced == {m \in new : m.state = "Active"}
           completed == {m \in new : m.state = "Complete"}
<1>1. pms' = StoreAfter(graph[i], MatchesMade(graph[i]))
  BY DEF Notify, OnEdgeAdded
<1>2. pm \in new
  BY <1>1, StoreAfterParts
<1>3. GoodMatch(pm)
  BY <1>2, NewMatchFacts DEF Inv
<1>4. pm \in completed \/ (pm \in advanced /\ pm.state # "Complete")
  BY <1>2, <1>3 DEF GoodMatch, IsMatch
<1>5. acc' = Accumulated(advanced, completed, Killed(graph[i]))
  BY DEF Notify, OnEdgeAdded
<1>6. NamesOf(completed) \subseteq acc'.completed /\ NamesOf(advanced) \subseteq acc'.advanced
  BY <1>5, Zenon DEF Accumulated
<1>7. \A S : pm \in S => Library[pm.pattern_idx].name \in NamesOf(S)
  BY DEF NamesOf
<1> HIDE DEF new, advanced, completed
<1>8. CASE pm.state = "Complete"
  BY <1>3, <1>4, <1>6, <1>7, <1>8
<1>9. CASE pm.state # "Complete"
  <2>1. pm \in advanced
    BY <1>4, <1>9 DEF completed
  <2>2. Library[pm.pattern_idx].name \in acc'.advanced
    BY <1>6, <1>7, <2>1
  <2> QED BY <1>3, <1>9, <2>2
<1> QED BY <1>8, <1>9

\* ... and forgets nothing of the tick
LEMMA NotifyKeeps ==
  ASSUME NEW i, Notify(i)
  PROVE  /\ tick_counter' = tick_counter
         /\ acc.advanced \subseteq acc'.advanced /\ acc.completed \subseteq acc'.completed
BY DEF Notify, OnEdgeAdded, Accumulated

\* A match is of a registered pattern, and no clock of it is ahead
LEMMA StoredMatch ==
  ASSUME Inv, NEW pm \in pms
  PROVE  /\ pm.pattern_idx \in DOMAIN Library
         /\ pm.created_at_tick \in Nat /\ pm.last_advanced_tick \in Nat /\ tick_counter \in Nat
         /\ pm.last_advanced_tick <= tick_counter
<1>1. TypeOK /\ ClocksAgree
  BY DEF Inv
<1>2. /\ pm.pattern_idx \in Pats /\ pm.created_at_tick \in Nat /\ pm.last_advanced_tick \in Nat
      /\ registered \in Nat /\ tick_counter \in Nat /\ pm.pattern_idx \in DOMAIN Library
  BY <1>1, LibraryDomain, TickType DEF TypeOK, IsMatch, Pats
<1>3. FirstNamed(pm.pattern_idx) \in Pats
  BY <1>2, FirstNamedFacts
<1>4. /\ pm.last_advanced_tick <= metrics[FirstNamed(pm.pattern_idx)].last_advanced_tick
      /\ metrics[FirstNamed(pm.pattern_idx)].last_advanced_tick <= tick_counter
      /\ metrics[FirstNamed(pm.pattern_idx)].last_advanced_tick \in Nat
  BY <1>1, <1>3 DEF ClocksAgree, TypeOK
<1> QED BY <1>2, <1>4

-----------------------------------------------------------------------------
(* The two properties of the loop *)

\* The accumulators keep up with the store
LEMMA TickRememberedStep ==
  ASSUME Inv, TickRemembered, [LoopNext]_vars
  PROVE  TickRemembered'
<1>1. CASE Drops
  BY <1>1 DEF Drops, TickRemembered
<1>2. ASSUME NEW i \in DOMAIN graph, Notify(i)
      PROVE  TickRemembered'
  <2>1. ASSUME NEW pm \in pms', pm.last_advanced_tick = tick_counter'
        PROVE  Library[pm.pattern_idx].name \in
                 (IF pm.state = "Complete" THEN acc'.completed ELSE acc'.advanced)
    <3>1. CASE pm \in pms
      BY <1>2, <2>1, <3>1, NotifyKeeps DEF TickRemembered
    <3>2. CASE pm \notin pms
      BY <1>2, <3>2, NotifyWrites
    <3> QED BY <3>1, <3>2
  <2> QED BY <2>1 DEF TickRemembered
<1>3. ASSUME NEW threshold \in StaleThresholds, EndTick(threshold)
      PROVE  TickRemembered'
  <2>1. ASSUME NEW pm \in pms'
        PROVE  pm.last_advanced_tick # tick_counter'
    <3>1. pm \in pms /\ tick_counter' = tick_counter + 1
      BY <1>3 DEF EndTick
    <3> QED BY <3>1, StoredMatch
  <2> QED BY <2>1 DEF TickRemembered
<1> QED BY <1>1, <1>2, <1>3, LoopSteps

\* What end_tick keeps is within its pattern's limits
LEMMA KeptInTime ==
  ASSUME NEW t, NEW pm \in Active, pm \notin Expired(t), pm \notin Inactive(t)
  PROVE  /\ \A d \in Library[pm.pattern_idx].deadline_ticks : ~(t - pm.created_at_tick > d)
         /\ \A d \in Library[pm.pattern_idx].inactivity_threshold :
              ~(t - pm.last_advanced_tick >= d)
<1>1. \A d \in Library[pm.pattern_idx].deadline_ticks : ~(t - pm.created_at_tick > d)
  BY Zenon DEF Expired
<1>2. \A d \in Library[pm.pattern_idx].inactivity_threshold : ~(t - pm.last_advanced_tick >= d)
  BY Zenon DEF Inactive
<1> QED BY <1>1, <1>2

\* The deadlines and the inactivity thresholds hold
LEMMA NoneOverdueStep ==
  ASSUME Inv, NoneOverdue, [LoopNext]_vars
  PROVE  NoneOverdue'
<1>1. CASE Drops
  BY <1>1 DEF Drops, NoneOverdue, Active
<1>2. ASSUME NEW i \in DOMAIN graph, Notify(i)
      PROVE  NoneOverdue'
  <2>1. tick_counter' = tick_counter /\ tick_counter \in Nat
    BY <1>2, NotifyKeeps, TickType DEF Inv
  <2>2. ASSUME NEW pm \in pms', pm.state = "Active", pm \notin pms,
               NEW d \in Library[pm.pattern_idx].deadline_ticks
        PROVE  tick_counter - pm.created_at_tick <= d
    <3>1. GoodMatch(pm)
      BY <1>2, <2>2, NotifyWrites
    <3>2. CASE pm.created_at_tick = tick_counter
      <4>1. pm.pattern_idx \in DOMAIN Library
        BY <3>1, LibraryDomain DEF GoodMatch, IsMatch, Pats, Inv, TypeOK
      <4> QED BY <2>1, <3>2, <4>1, DeadlinesAssumption DEF DeadlinesAssumption
    <3>3. ASSUME NEW parent \in Active, pm.created_at_tick = parent.created_at_tick,
                 pm.pattern_idx = parent.pattern_idx
          PROVE  tick_counter - pm.created_at_tick <= d
      BY <3>3 DEF NoneOverdue
    <3> QED BY <3>1, <3>2, <3>3 DEF GoodMatch
  <2>3. ASSUME NEW pm \in pms', pm \notin pms
        PROVE  tick_counter = pm.last_advanced_tick
    BY <1>2, <2>3, NotifyWrites DEF GoodMatch
  <2> QED BY <2>1, <2>2, <2>3 DEF NoneOverdue, Active
<1>3. ASSUME NEW threshold \in StaleThresholds, EndTick(threshold)
      PROVE  NoneOverdue'
  <2>1. tick_counter' = tick_counter + 1
    BY <1>3 DEF EndTick
  <2>2. ASSUME NEW pm \in pms', pm.state = "Active"
        PROVE  /\ \A d \in Library[pm.pattern_idx].deadline_ticks :
                    tick_counter' - pm.created_at_tick <= d
               /\ \A d \in Library[pm.pattern_idx].inactivity_threshold :
                    tick_counter' - pm.last_advanced_tick < d
    <3>1. /\ pm \in Active /\ pm \in pms
          /\ pm \notin Expired(tick_counter + 1) /\ pm \notin Inactive(tick_counter + 1)
      BY <1>3, <2>2 DEF EndTick, Active
    <3>2. /\ pm.pattern_idx \in DOMAIN Library
          /\ pm.created_at_tick \in Nat /\ pm.last_advanced_tick \in Nat /\ tick_counter \in Nat
      BY <3>1, StoredMatch
    <3>3. /\ Library[pm.pattern_idx].deadline_ticks \subseteq Nat
          /\ Library[pm.pattern_idx].inactivity_threshold \subseteq Nat
      BY <3>2, DeadlinesAssumption DEF DeadlinesAssumption
    <3>4. ASSUME NEW d \in Library[pm.pattern_idx].deadline_ticks
          PROVE  tick_counter' - pm.created_at_tick <= d
      <4>1. ~((tick_counter + 1) - pm.created_at_tick > d)
        BY <3>1, KeptInTime, Zenon
      <4> QED BY <2>1, <3>2, <3>3, <4>1
    <3>5. ASSUME NEW d \in Library[pm.pattern_idx].inactivity_threshold
          PROVE  tick_counter' - pm.last_advanced_tick < d
      <4>1. ~((tick_counter + 1) - pm.last_advanced_tick >= d)
        BY <3>1, KeptInTime, Zenon
      <4> QED BY <2>1, <3>2, <3>3, <4>1
    <3> QED BY <3>4, <3>5
  <2> QED BY <2>2 DEF NoneOverdue, Active
<1> QED BY <1>1, <1>2, <1>3, LoopSteps

-----------------------------------------------------------------------------
(* The thread tracker beside the engine.  What the two have in common is   *)
(* names: the engine's counters are read through CountsOf, the tracker is  *)
(* told names once a tick.                                                 *)

Advanced(n)  == CountsOf(n).advancement_count
Completed(n) == CountsOf(n).completion_count

\* No pattern named n can complete with the stage it begins with
Longer(n) == \A k \in Named(n) : StageCount(Library[k]) > 1

\* The pattern that counts for the name n
Counter(n) == FirstNamed(CHOOSE i \in Named(n) : TRUE)

\* What is counted for a name depends on the counters and the names registered
LEMMA CountsSame ==
  ASSUME registered' = registered
  PROVE  \A n : /\ Named(n)' = Named(n) /\ Counter(n)' = Counter(n)
                /\ metrics' = metrics => CountsOf(n)' = CountsOf(n)
<1>1. \A n : Named(n)' = Named(n)
  BY DEF Named, Pats
<1>2. \A k : FirstNamed(k)' = FirstNamed(k)
  BY <1>1 DEF FirstNamed
<1>3. \A n : Counter(n)' = Counter(n)
  BY <1>1, <1>2 DEF Counter
<1>4. ASSUME NEW n, metrics' = metrics
      PROVE  CountsOf(n)' = CountsOf(n)
  <2>1. CountsOf(n) = IF Named(n) = {} THEN NewMetrics ELSE metrics[Counter(n)]
    BY DEF CountsOf, Counter
  <2>2. CountsOf(n)' = IF Named(n)' = {} THEN NewMetrics ELSE metrics'[Counter(n)']
    BY DEF CountsOf, Counter, NewMetrics
  <2> QED BY <1>1, <1>3, <1>4, <2>1, <2>2
<1> QED BY <1>1, <1>3, <1>4

\* CountsOf(n) is what is counted for the first pattern of that name
LEMMA CountsRead ==
  ASSUME TypeOK, NEW n
  PROVE  /\ CountsOf(n) \in MetricsType
         /\ Named(n) = {} => CountsOf(n) = NewMetrics
         /\ Named(n) # {} => /\ Counter(n) \in Pats /\ CountsOf(n) = metrics[Counter(n)]
                             /\ \A i \in Pats : FirstNamed(i) = Counter(n) <=> Library[i].name = n
<1>1. registered \in Nat /\ metrics \in [Pats -> MetricsType] /\ NewMetrics \in MetricsType
  BY LibraryDomain DEF TypeOK, MetricsType, NewMetrics
<1>2. CASE Named(n) = {}
  BY <1>1, <1>2 DEF CountsOf
<1>3. CASE Named(n) # {}
  <2> DEFINE c == CHOOSE i \in Named(n) : TRUE
             f == Counter(n)
  <2>1. c \in Named(n)
    BY <1>3
  <2>2. c \in Pats /\ Library[c].name = n
    BY <2>1 DEF Named
  <2>3. CountsOf(n) = metrics[f]
    BY <1>3 DEF CountsOf, Counter
  <2>9. f = FirstNamed(c)
    BY DEF Counter
  <2> HIDE DEF c, f
  <2>4. /\ f \in Pats /\ Library[f].name = n
        /\ \A k \in Pats : Library[k].name = n => f <= k
    BY <1>1, <2>2, <2>9, FirstNamedFacts
  <2>5. \A i \in Pats : FirstNamed(i) = f <=> Library[i].name = n
    <3>1. ASSUME NEW i \in Pats, Library[i].name = n
          PROVE  FirstNamed(i) = f
      BY <1>1, <2>4, <3>1, FirstNamedUnique
    <3>2. ASSUME NEW i \in Pats, FirstNamed(i) = f
          PROVE  Library[i].name = n
      BY <1>1, <2>4, <3>2, FirstNamedFacts
    <3> QED BY <3>1, <3>2
  <2> QED BY <1>1, <1>3, <2>3, <2>4, <2>5 DEF f
<1> QED BY <1>2, <1>3

\* A match that a call completes, of a pattern of several stages, grew from one
\* in progress
LEMMA CompletedGrew ==
  ASSUME Inv, NEW e, NEW m \in NewMatches(MatchesMade(e)), m.state = "Complete",
         StageCount(Library[m.pattern_idx]) > 1
  PROVE  \E pm \in Active : pm.pattern_idx = m.pattern_idx
<1>1. TypeOK /\ IdsUnique
  BY DEF Inv
<1>2. PICK k \in KeptOf(MatchesMade(e)) : m = [MatchesMade(e)[k] EXCEPT !.id = IdOf(MatchesMade(e), k)]
  BY <1>1, NewMatchFacts
<1>3. k \in Attempts(e) /\ MatchesMade(e)[k] = Made(e, k)
  BY <1>1, BornFacts
<1>4. m.pattern_idx = Made(e, k).pattern_idx /\ m.state = Made(e, k).state
  <2>1. IsMatch(Made(e, k))
    BY <1>1, <1>3, MadeIsMatch DEF GoodMatch
  <2> QED BY <1>2, <1>3, <2>1 DEF IsMatch, MatchFields
<1>5. CASE k \in Initiations(e)
  <2>1. PICK i \in Pats : /\ Library[i].stages # << >>
                          /\ \E s \in Segment(Library[i], 1) : k = <<0, i, s, 0>>
    BY <1>5, InitiationParts
  <2>2. PICK s \in Segment(Library[i], 1) : k = <<0, i, s, 0>>
    BY <2>1
  <2> DEFINE p == Library[i]
             next == NextStage(p, s, {})
  <2>3. Made(e, k) = Initiated(i, s, e)
    BY <2>2 DEF Made
  <2>4. Made(e, k).pattern_idx = i /\ (Made(e, k).state = "Complete" => PastEnd(i, next))
    BY <2>3 DEF Initiated
  <2>5. i \in DOMAIN Library /\ s \in 1..StageCount(p) /\ StageCount(p) \in Nat
    <3>1. i \in DOMAIN Library /\ s \in 1..StageCount(p)
      BY <1>1, <2>1, StartedStage
    <3> QED BY <3>1, StageFacts
  <2>6. SegmentEnd(p, s) > StageCount(p) /\ Segment(p, s) \subseteq {s}
    <3>1. next > StageCount(p)
      BY <1>4, <2>4 DEF PastEnd
    <3>2. next = SegmentStart(p, s) \/ (next = SegmentEnd(p, s) /\ Segment(p, s) \subseteq {s})
      BY DEF NextStage
    <3>3. SegmentStart(p, s) \in 1..s
      BY <2>5, StageFacts
    <3> HIDE DEF next, p
    <3> QED BY <2>5, <3>1, <3>2, <3>3
  <2>7. 1 \in Segment(p, s)
    <3>1. CASE InGroup(p, 1)
      BY <3>1 DEF Segment, InGroup, UnorderedGroup
    <3>2. CASE ~InGroup(p, 1)
      BY <3>2 DEF Segment
    <3> QED BY <3>1, <3>2
  <2>8. s = 1 /\ Segment(p, s) = {1}
    BY <2>6, <2>7
  <2>9. SegmentEnd(p, s) = 2
    BY <2>8 DEF SegmentEnd
  <2> QED BY <1>4, <2>4, <2>5, <2>6, <2>9
<1>6. CASE k \in Advances(e)
  <2>1. PICK pm \in Advancing(e) : \E s \in TryStages(pm, e) : \E br \in Branches(pm, s, e) :
               k = <<1, pm.id, s, br>> /\ Parent(k) = pm
    BY <1>1, <1>6, ParentOfAdvance
  <2>2. PICK s \in TryStages(pm, e) : \E br \in Branches(pm, s, e) :
               k = <<1, pm.id, s, br>> /\ Parent(k) = pm
    BY <2>1
  <2>0. PICK br \in Branches(pm, s, e) : k = <<1, pm.id, s, br>> /\ Parent(k) = pm
    BY <2>2
  <2>3. pm \in Active /\ s \in 1..StageCount(Library[pm.pattern_idx])
    BY <1>1, TriedStage
  <2>4. CASE br = 0
    <3>1. Made(e, k) = AdvancedMatch(pm, s, e)
      BY <2>0, <2>4 DEF Made
    <3> QED BY <1>1, <1>4, <2>3, <3>1, AdvancedIsMatch
  <2>5. CASE br # 0
    <3> DEFINE rr == CHOOSE r \in Library[pm.pattern_idx].repeat_range : TRUE
    <3>1. rr \in Library[pm.pattern_idx].repeat_range
      BY <2>5, BranchParts
    <3>2. Made(e, k) = LoopedMatch(Parent(k), k[3], e,
                                   CHOOSE r \in Library[Parent(k).pattern_idx].repeat_range : TRUE)
      BY <2>0, <2>5 DEF Made
    <3>3. Made(e, k) = LoopedMatch(pm, s, e, rr)
      BY <2>0, <3>2
    <3> HIDE DEF rr
    <3> QED BY <1>1, <1>4, <2>3, <3>1, <3>3, LoopedIsMatch
  <2> QED BY <2>4, <2>5
<1> QED BY <1>3, <1>5, <1>6 DEF Attempts

\* A step that counts an advance of every name of A, and of no other, and a
\* completion of every name of C
Tells(A, C) ==
  /\ acc'.advanced = acc.advanced \cup A /\ acc'.completed = acc.completed \cup C
  /\ \A n : /\ {Advanced(n), Advanced(n)', Completed(n), Completed(n)'} \subseteq Nat
            /\ Advanced(n) <= Advanced(n)' /\ (n \in A <=> Advanced(n) < Advanced(n)')
            /\ Completed(n) <= Completed(n)' /\ (n \in C <=> Completed(n) < Completed(n)')

\* Something is counted exactly for the names met
LEMMA CountedNames ==
  ASSUME TypeOK, NEW S, IsFiniteSet(S), \A pm \in S : pm.pattern_idx \in Pats,
         NEW n, Named(n) # {}
  PROVE  Counted(S, Counter(n)) \in Nat /\ (Counted(S, Counter(n)) > 0 <=> n \in NamesOf(S))
<1> DEFINE f == Counter(n)
<1>1. \A i \in Pats : FirstNamed(i) = f <=> Library[i].name = n
  BY CountsRead
<1> HIDE DEF f
<1>2. CASE n \in NamesOf(S)
  <2>1. PICK pm \in S : Library[pm.pattern_idx].name = n
    BY <1>2 DEF NamesOf
  <2> QED BY <1>1, <1>2, <2>1, CountedType DEF f
<1>3. CASE n \notin NamesOf(S)
  <2>1. {pm \in S : FirstNamed(pm.pattern_idx) = f} = {}
    BY <1>1, <1>3 DEF NamesOf
  <2> QED BY <1>3, <2>1, FS_EmptySet DEF Counted, f
<1> QED BY <1>2, <1>3

\* What a notification counts it tells the accumulators
LEMMA NotifyTells ==
  ASSUME Inv, NEW i \in DOMAIN graph, Notify(i)
  PROVE  \E A, C : /\ Tells(A, C)
                   /\ \A n \in C : Longer(n) => \E pm \in Active : Library[pm.pattern_idx].name = n
<1> DEFINE new == NewMatches(MatchesMade(graph[i]))
           advanced == {pm \in new : pm.state = "Active"}
           completed == {pm \in new : pm.state = "Complete"}
           A == NamesOf(advanced)
           C == NamesOf(completed)
<1>1. /\ metrics' = MetricsAfter(advanced, completed, Killed(graph[i]))
      /\ acc' = Accumulated(advanced, completed, Killed(graph[i])) /\ registered' = registered
  BY DEF Notify, OnEdgeAdded
<1>2. TypeOK /\ IdsUnique
  BY DEF Inv
<1>3. IsFiniteSet(new) /\ \A pm \in new : pm.pattern_idx \in Pats
  <2>1. IsFiniteSet(new)
    BY <1>2, NewMatchesFinite
  <2>2. \A pm \in new : GoodMatch(pm)
    BY <1>2, NewMatchFacts
  <2> QED BY <2>1, <2>2 DEF GoodMatch, IsMatch
<1>4. IsFiniteSet(advanced) /\ IsFiniteSet(completed)
  BY <1>3, FS_Subset
<1>5. acc'.advanced = acc.advanced \cup A /\ acc'.completed = acc.completed \cup C
  BY <1>1, Zenon DEF Accumulated
<1>6. \A n \in C : Longer(n) => \E pm \in Active : Library[pm.pattern_idx].name = n
  <2>1. SUFFICES ASSUME NEW n \in C, Longer(n)
                 PROVE  \E pm \in Active : Library[pm.pattern_idx].name = n
    OBVIOUS
  <2>2. PICK m \in new : m.state = "Complete" /\ Library[m.pattern_idx].name = n
    BY DEF NamesOf
  <2>3. m.pattern_idx \in Named(n)
    BY <1>3, <2>2 DEF Named
  <2>4. StageCount(Library[m.pattern_idx]) > 1
    BY <2>1, <2>3 DEF Longer
  <2>5. PICK pm \in Active : pm.pattern_idx = m.pattern_idx
    BY <2>2, <2>4, CompletedGrew
  <2> QED BY <2>2, <2>5
<1>7. ASSUME NEW n
      PROVE  /\ {Advanced(n), Advanced(n)', Completed(n), Completed(n)'} \subseteq Nat
             /\ Advanced(n) <= Advanced(n)' /\ (n \in A <=> Advanced(n) < Advanced(n)')
             /\ Completed(n) <= Completed(n)' /\ (n \in C <=> Completed(n) < Completed(n)')
  <2>1. CountsOf(n) \in MetricsType
    BY <1>2, CountsRead
  <2>2. Named(n)' = Named(n) /\ Counter(n)' = Counter(n)
    BY <1>1, CountsSame
  <2>3. CASE Named(n) = {}
    <3>1. CountsOf(n)' = CountsOf(n)
      BY <2>2, <2>3 DEF CountsOf
    <3>2. n \notin A /\ n \notin C
      BY <1>3, <2>3 DEF NamesOf, Named
    <3> HIDE DEF A, C
    <3> QED BY <2>1, <3>1, <3>2 DEF MetricsType, Advanced, Completed
  <2>4. CASE Named(n) # {}
    <3> DEFINE f == Counter(n)
    <3>1. f \in Pats /\ CountsOf(n) = metrics[f]
      BY <1>2, <2>4, CountsRead
    <3>2. CountsOf(n)' = metrics'[f]
      BY <2>2, <2>4 DEF CountsOf, Counter
    <3>3. /\ Counted(advanced, f) \in Nat /\ (Counted(advanced, f) > 0 <=> n \in A)
          /\ Counted(completed, f) \in Nat /\ (Counted(completed, f) > 0 <=> n \in C)
      BY <1>2, <1>3, <1>4, <2>4, CountedNames
    <3> HIDE DEF f, A, C, advanced, completed
    <3>4. /\ metrics'[f].advancement_count = metrics[f].advancement_count + Counted(advanced, f)
          /\ metrics'[f].completion_count = metrics[f].completion_count + Counted(completed, f)
      BY <1>1, <3>1 DEF MetricsAfter
    <3> QED BY <2>1, <3>1, <3>2, <3>3, <3>4 DEF MetricsType, Advanced, Completed
  <2> QED BY <2>3, <2>4
<1> HIDE DEF A, C
<1> QED BY <1>5, <1>6, <1>7 DEF Tells

-----------------------------------------------------------------------------
(* TrackerKeepsUp is not inductive by itself: what the accumulators hold   *)
(* has been counted, and a closing about to be told leaves room for it.    *)

\* What is told, and what is about to be, was counted
TellsTheTruth ==
  /\ \A n \in acc.advanced \cup delta.advanced : Advanced(n) > 0
  /\ \A n \in acc.completed \cup delta.completed : Completed(n) > 0

ThreadKept(t) ==
  /\ t.name \in Recorded(open_order) => Advanced(t.open) > 0
  /\ Advanced(t.open) > 0 /\ ~IsPrivate(t.open) =>
       t.name \in Recorded(open_order) \/ t.open \in acc.advanced
  /\ Times(close_order, t.name) + (IF t.close \in acc.completed THEN 1 ELSE 0) <= Completed(t.close)
  /\ Completed(t.close) > 0 /\ ~IsPrivate(t.close) =>
       Times(close_order, t.name) > 0 \/ t.close \in acc.completed

ThreadsKept == \A i \in DOMAIN Threads : ThreadKept(Threads[i])

\* A pattern of several stages advances before it completes
AdvancesFirst == \A n \in LibraryNames : Completed(n) > 0 /\ Longer(n) => Advanced(n) > 0

KeepsUp == OrdersTyped /\ TellsTheTruth /\ ThreadsKept /\ AdvancesFirst

\* Counters, in both states of a step, are numbers
LEMMA CountersAreNumbers ==
  ASSUME TypeOK, NEW n
  PROVE  Advanced(n) \in Nat /\ Completed(n) \in Nat
BY CountsRead DEF MetricsType, Advanced, Completed

\* A thread's name is written down a number of times
LEMMA TimesOfThread ==
  ASSUME OrdersTyped, NEW n
  PROVE  Times(close_order, n) \in Nat /\ (Times(close_order, n) > 0 <=> n \in Recorded(close_order))
BY TimesFinite DEF OrdersTyped

\* While a tick lasts the counters grow with the accumulators, and the tracker
\* waits
LEMMA PlayKeepsUp ==
  ASSUME KeepsUp, NEW A, NEW C, Tells(A, C), UNCHANGED threadVars, delta' = delta,
         \A n : (IsPrivate(n) => IsPrivate(n)') /\ (Longer(n)' => Longer(n)),
         \A n \in C : Longer(n) => Advanced(n) > 0
  PROVE  KeepsUp'
<1>1. ASSUME NEW n
      PROVE  /\ Advanced(n) \in Nat /\ Advanced(n)' \in Nat
             /\ Completed(n) \in Nat /\ Completed(n)' \in Nat
             /\ Advanced(n) <= Advanced(n)' /\ (n \in A <=> Advanced(n) < Advanced(n)')
             /\ Completed(n) <= Completed(n)' /\ (n \in C <=> Completed(n) < Completed(n)')
             /\ n \in acc'.advanced <=> n \in acc.advanced \/ n \in A
             /\ n \in acc'.completed <=> n \in acc.completed \/ n \in C
  BY Zenon DEF Tells
<1>2. open_order' = open_order /\ close_order' = close_order /\ delta' = delta
  BY DEF threadVars
<1>3. OrdersTyped'
  BY <1>2 DEF KeepsUp, OrdersTyped
<1>4. TellsTheTruth'
  <2>1. ASSUME NEW n \in acc'.advanced \cup delta'.advanced
        PROVE  Advanced(n)' > 0
    BY <1>1, <1>2, <2>1 DEF KeepsUp, TellsTheTruth
  <2>2. ASSUME NEW n \in acc'.completed \cup delta'.completed
        PROVE  Completed(n)' > 0
    BY <1>1, <1>2, <2>2 DEF KeepsUp, TellsTheTruth
  <2> QED BY <2>1, <2>2 DEF TellsTheTruth
<1>5. ASSUME NEW i \in DOMAIN Threads
      PROVE  ThreadKept(Threads[i])'
  <2> DEFINE t == Threads[i]
             open == t.open
             close == t.close
             seen == t.name \in Recorded(open_order)
             times == Times(close_order, t.name)
  <2>1. ThreadKept(t) /\ times \in Nat
    BY TimesOfThread DEF KeepsUp, ThreadsKept
  <2>2. /\ (t.name \in Recorded(open_order')) = seen
        /\ Times(close_order', t.name) = times
    BY <1>2
  <2>3. (IsPrivate(open) => IsPrivate(open)') /\ (IsPrivate(close) => IsPrivate(close)')
    OBVIOUS
  <2>4. /\ seen => Advanced(open) > 0
        /\ Advanced(open) > 0 /\ ~IsPrivate(open) => seen \/ open \in acc.advanced
        /\ times + (IF close \in acc.completed THEN 1 ELSE 0) <= Completed(close)
        /\ Completed(close) > 0 /\ ~IsPrivate(close) => times > 0 \/ close \in acc.completed
    BY <2>1 DEF ThreadKept
  <2>5. /\ Advanced(open) \in Nat /\ Advanced(open)' \in Nat
        /\ Completed(close) \in Nat /\ Completed(close)' \in Nat
        /\ Advanced(open) <= Advanced(open)' /\ (open \in A <=> Advanced(open) < Advanced(open)')
        /\ Completed(close) <= Completed(close)' /\ (close \in C <=> Completed(close) < Completed(close)')
        /\ open \in acc'.advanced <=> open \in acc.advanced \/ open \in A
        /\ close \in acc'.completed <=> close \in acc.completed \/ close \in C
    BY <1>1
  <2> HIDE DEF seen, times, t, open, close
  <2>6. /\ seen => Advanced(open)' > 0
        /\ Advanced(open)' > 0 /\ ~IsPrivate(open)' => seen \/ open \in acc'.advanced
        /\ times + (IF close \in acc'.completed THEN 1 ELSE 0) <= Completed(close)'
        /\ Completed(close)' > 0 /\ ~IsPrivate(close)' => times > 0 \/ close \in acc'.completed
    BY <2>1, <2>3, <2>4, <2>5
  <2> QED BY <2>2, <2>6, Zenon DEF ThreadKept, t, open, close, seen, times
<1>6. AdvancesFirst'
  <2>1. ASSUME NEW n \in LibraryNames, Completed(n)' > 0, Longer(n)'
        PROVE  Advanced(n)' > 0
    <3>1. Longer(n)
      BY <2>1
    <3>2. Advanced(n) > 0
      BY <1>1, <2>1, <3>1 DEF KeepsUp, AdvancesFirst
    <3> QED BY <1>1, <3>2
  <2> QED BY <2>1 DEF AdvancesFirst, LibraryNames
<1> QED BY <1>3, <1>4, <1>5, <1>6 DEF KeepsUp, ThreadsKept

\* The end of a tick empties the accumulators into the tracker
LEMMA TickKeepsUp ==
  ASSUME Inv, KeepsUp, NEW threshold, EndTick(threshold), ObserveDelta(delta')
  PROVE  KeepsUp'
<1>1. PICK d : /\ d = delta' /\ ObserveDelta(d)
               /\ d.advanced = Public(acc.advanced) /\ d.completed = Public(acc.completed)
  <2>1. delta'.advanced = Public(acc.advanced) /\ delta'.completed = Public(acc.completed)
    BY DEF EndTick
  <2> QED BY <2>1
<1>2. /\ acc'.advanced = {} /\ acc'.completed = {}
      /\ metrics' = metrics /\ registered' = registered
  BY DEF EndTick, NoEvents
<1>3. \A n : Named(n)' = Named(n) /\ CountsOf(n)' = CountsOf(n)
  BY <1>2, CountsSame
<1>4. ASSUME NEW n
      PROVE  /\ Advanced(n)' = Advanced(n) /\ Completed(n)' = Completed(n)
             /\ IsPrivate(n)' = IsPrivate(n) /\ Longer(n)' = Longer(n)
             /\ Advanced(n) \in Nat /\ Completed(n) \in Nat
             /\ n \in d.advanced <=> n \in acc.advanced /\ ~IsPrivate(n)
             /\ n \in d.completed <=> n \in acc.completed /\ ~IsPrivate(n)
  <2>1. Advanced(n)' = Advanced(n) /\ Completed(n)' = Completed(n)
    BY <1>3 DEF Advanced, Completed
  <2>2. IsPrivate(n)' = IsPrivate(n) /\ Longer(n)' = Longer(n)
    BY <1>3 DEF IsPrivate, Longer
  <2>3. Advanced(n) \in Nat /\ Completed(n) \in Nat
    BY CountersAreNumbers DEF Inv
  <2>4. n \in d.advanced <=> n \in acc.advanced /\ ~IsPrivate(n)
    BY <1>1 DEF Public
  <2>5. n \in d.completed <=> n \in acc.completed /\ ~IsPrivate(n)
    BY <1>1 DEF Public
  <2> QED BY <2>1, <2>2, <2>3, <2>4, <2>5
<1>5. /\ open_order' = AfterReport(d).open /\ close_order' = AfterReport(d).close
      /\ OrdersTyped
  BY <1>1 DEF ObserveDelta, KeepsUp
<1>6. OrdersTyped'
  BY <1>5, ReportFacts DEF OrdersTyped
<1>7. TellsTheTruth'
  <2>1. ASSUME NEW n \in acc'.completed \cup delta'.completed
        PROVE  Completed(n)' > 0
    BY <1>1, <1>2, <1>4, <2>1 DEF KeepsUp, TellsTheTruth
  <2>2. ASSUME NEW n \in acc'.advanced \cup delta'.advanced
        PROVE  Advanced(n)' > 0
    BY <1>1, <1>2, <1>4, <2>2 DEF KeepsUp, TellsTheTruth
  <2> QED BY <2>1, <2>2 DEF TellsTheTruth
<1>8. ASSUME NEW i \in DOMAIN Threads
      PROVE  ThreadKept(Threads[i])'
  <2> DEFINE t == Threads[i]
             open == t.open
             close == t.close
             seen == t.name \in Recorded(open_order)
             times == Times(close_order, t.name)
             seenNow == t.name \in Recorded(open_order')
             timesNow == Times(close_order', t.name)
  <2>1. ThreadKept(t) /\ times \in Nat
    BY TimesOfThread DEF KeepsUp, ThreadsKept
  <2>2. /\ Recorded(open_order') = Recorded(open_order)
             \cup {Threads[k].name : k \in {l \in DOMAIN Threads : Threads[l].open \in d.advanced}}
        /\ timesNow = times + (IF close \in d.completed THEN 1 ELSE 0)
    BY <1>5, ReportFacts
  <2>3. seenNow <=> seen \/ open \in d.advanced
    <3>1. ASSUME NEW k \in DOMAIN Threads, Threads[k].name = t.name
          PROVE  k = i
      BY <3>1, ThreadsAssumption DEF ThreadsAssumption
    <3> QED BY <2>2, <3>1
  <2>4. /\ seen => Advanced(open) > 0
        /\ Advanced(open) > 0 /\ ~IsPrivate(open) => seen \/ open \in acc.advanced
        /\ times + (IF close \in acc.completed THEN 1 ELSE 0) <= Completed(close)
        /\ Completed(close) > 0 /\ ~IsPrivate(close) => times > 0 \/ close \in acc.completed
    BY <2>1 DEF ThreadKept
  <2>5. /\ Advanced(open)' = Advanced(open) /\ Advanced(open) \in Nat
        /\ Completed(close)' = Completed(close) /\ Completed(close) \in Nat
        /\ IsPrivate(open)' = IsPrivate(open) /\ IsPrivate(close)' = IsPrivate(close)
        /\ open \in d.advanced <=> open \in acc.advanced /\ ~IsPrivate(open)
        /\ close \in d.completed <=> close \in acc.completed /\ ~IsPrivate(close)
    BY <1>4
  <2>6. open \in acc.advanced => Advanced(open) > 0
    BY DEF KeepsUp, TellsTheTruth
  <2>7. open \notin acc'.advanced /\ close \notin acc'.completed
    BY <1>2
  <2> HIDE DEF seen, times, seenNow, timesNow, t, open, close
  <2>8. /\ seenNow => Advanced(open) > 0
        /\ Advanced(open) > 0 /\ ~IsPrivate(open) => seenNow
        /\ timesNow <= Completed(close) /\ timesNow \in Nat
        /\ Completed(close) > 0 /\ ~IsPrivate(close) => timesNow > 0
    BY <2>1, <2>2, <2>3, <2>4, <2>5, <2>6
  <2>9. /\ seenNow => Advanced(open)' > 0
        /\ Advanced(open)' > 0 /\ ~IsPrivate(open)' => seenNow \/ open \in acc'.advanced
        /\ timesNow + (IF close \in acc'.completed THEN 1 ELSE 0) <= Completed(close)'
        /\ Completed(close)' > 0 /\ ~IsPrivate(close)' => timesNow > 0 \/ close \in acc'.completed
    BY <2>5, <2>7, <2>8
  <2> QED BY <2>9, Zenon DEF ThreadKept, t, open, close, seenNow, timesNow
<1>9. AdvancesFirst'
  BY <1>4 DEF KeepsUp, AdvancesFirst, LibraryNames
<1> QED BY <1>6, <1>7, <1>8, <1>9 DEF KeepsUp, ThreadsKept

\* What was asked for follows
LEMMA KeptUp ==
  ASSUME Inv, KeepsUp
  PROVE  TrackerKeepsUp
<1>1. SUFFICES ASSUME NEW i \in DOMAIN Threads
               PROVE  LET t == Threads[i]
                          opens == Advanced(t.open)
                          opened == t.name \in Recorded(open_order)
                          closings == Times(close_order, t.name)
                      IN  /\ opened => opens > 0
                          /\ opens > 0 /\ ~IsPrivate(t.open) => opened \/ t.open \in acc.advanced
                          /\ closings <= Completed(t.close)
                          /\ Completed(t.close) > 0 /\ ~IsPrivate(t.close) =>
                                closings > 0 \/ t.close \in acc.completed
                          /\ i \in ThreadsUnresolved /\ ~IsPrivate(t.open) /\ Longer(t.open) =>
                                opened \/ t.open \in acc.advanced
  BY DEF TrackerKeepsUp, Advanced, Completed, Longer
<1> DEFINE t == Threads[i]
<1>2. ThreadKept(t) /\ Times(close_order, t.name) \in Nat
  BY TimesOfThread DEF KeepsUp, ThreadsKept
<1>3. /\ Advanced(t.open) \in Nat /\ Completed(t.open) \in Nat /\ Completed(t.close) \in Nat
  BY CountersAreNumbers DEF Inv
<1>4. ASSUME i \in ThreadsUnresolved, Longer(t.open)
      PROVE  Advanced(t.open) > 0
  <2> DEFINE ms == [n \in LibraryNames |-> CountsOf(n)]
             active == [n \in LibraryNames |-> Cardinality({pm \in Active : Library[pm.pattern_idx].name = n})]
             Completions(n) == IF n \in DOMAIN ms THEN ms[n].completion_count ELSE 0
  <2>1. ThreadStatus(t, ms, active).unresolved
    <3>1. ThreadsUnresolved = UnresolvedThreads(ms, active)
      BY DEF ThreadsUnresolved
    <3> HIDE DEF ms, active
    <3> QED BY <1>4, <3>1 DEF UnresolvedThreads
  <2>2. Completions(t.open) > Completions(t.close)
    <3> HIDE DEF t, ms, active
    <3> QED BY <2>1 DEF ThreadStatus
  <2>3. Completions(t.close) \in Nat
    <3>1. Completions(t.close) = IF t.close \in LibraryNames THEN Completed(t.close) ELSE 0
      BY DEF Completed
    <3> QED BY <1>3, <3>1
  <2>4. t.open \in LibraryNames
    <3> HIDE DEF t
    <3> QED BY <2>2, <2>3
  <2>5. Completions(t.open) = Completed(t.open)
    BY <2>4 DEF Completed
  <2>6. Completed(t.open) > 0
    <3> HIDE DEF Completions, t
    <3> QED BY <1>3, <2>2, <2>3, <2>5
  <2> QED BY <1>4, <2>4, <2>6 DEF KeepsUp, AdvancesFirst
<1> QED BY <1>2, <1>3, <1>4 DEF ThreadKept

\* Registering one more pattern changes what is counted for no name
LEMMA RegisterTells ==
  ASSUME Inv, Register
  PROVE  /\ Tells({}, {})
         /\ \A n : (IsPrivate(n) => IsPrivate(n)') /\ (Longer(n)' => Longer(n))
<1>1. /\ registered \in Nat /\ registered' = registered + 1
      /\ \A i \in 1..registered : metrics'[i] = metrics[i]
      /\ metrics'[registered + 1] = NewMetrics
  BY RegisterMetrics DEF Inv
<1>2. \A n : Named(n) \subseteq Named(n)' /\ Named(n)' \subseteq Named(n) \cup {registered + 1}
  BY <1>1 DEF Named, Pats
<1>3. ASSUME NEW n
      PROVE  CountsOf(n)' = CountsOf(n)
  <2>1. CASE Named(n)' = {}
    <3>1. Named(n) = {}
      BY <1>2, <2>1
    <3> QED BY <2>1, <3>1 DEF CountsOf, NewMetrics
  <2>2. CASE Named(n) = {} /\ Named(n)' # {}
    <3>0. PICK last \in Nat : last = registered + 1
      BY <1>1
    <3>1. Named(n)' = {last}
      BY <1>2, <2>2, <3>0
    <3>2. Library[last].name = n
      BY <3>1 DEF Named
    <3>3. FirstNamed(last)' = last
      <4>1. FirstNamed(last)' = CHOOSE j \in Named(n)' : \A k \in Named(n)' : j <= k
        BY <3>2, Zenon DEF FirstNamed
      <4>2. \A j \in Named(n)' : j = last
        BY <3>1
      <4>3. \E j \in Named(n)' : \A k \in Named(n)' : j <= k
        BY <3>1, <3>0
      <4> QED BY <4>1, <4>2, <4>3
    <3>4. (CHOOSE i \in Named(n)' : TRUE) = last
      BY <3>1
    <3>5. Counter(n)' = last
      BY <3>3, <3>4 DEF Counter
    <3>6. CountsOf(n)' = metrics'[Counter(n)']
      BY <2>2 DEF CountsOf, Counter
    <3>7. CountsOf(n) = NewMetrics
      BY <2>2 DEF CountsOf
    <3> QED BY <1>1, <3>0, <3>5, <3>6, <3>7
  <2>3. CASE Named(n) # {}
    <3>1. PICK f \in Pats : /\ f = Counter(n) /\ CountsOf(n) = metrics[f] /\ Library[f].name = n
      <4>1. Counter(n) \in Pats /\ CountsOf(n) = metrics[Counter(n)]
        BY <2>3, CountsRead DEF Inv
      <4>2. PICK c \in Named(n) : c = CHOOSE i \in Named(n) : TRUE
        BY <2>3
      <4>3. c \in Pats /\ Library[c].name = n /\ Counter(n) = FirstNamed(c)
        BY <4>2 DEF Named, Counter
      <4>4. Library[Counter(n)].name = n
        BY <1>1, <4>3, FirstNamedFacts
      <4> QED BY <4>1, <4>4
    <3>2. f \in Named(n) /\ f \in Named(n)'
      BY <1>2, <3>1 DEF Named
    <3>3. PICK c \in Named(n)' : c = CHOOSE i \in Named(n)' : TRUE
      BY <3>2
    <3>4. Library[c].name = n
      BY <3>3 DEF Named
    <3>5. FirstNamed(c)' = FirstNamed(f)' /\ FirstNamed(f)' = FirstNamed(f)
      BY <3>1, <3>4, RegisterNames DEF Inv, FirstNamed
    <3>6. FirstNamed(f) = f
      BY <2>3, <3>1, CountsRead DEF Inv
    <3>7. CountsOf(n)' = metrics'[f]
      BY <3>2, <3>3, <3>5, <3>6 DEF CountsOf
    <3> QED BY <1>1, <3>1, <3>7 DEF Pats
  <2> QED BY <2>1, <2>2, <2>3
<1>4. acc' = acc
  BY DEF Register
<1>5. ASSUME NEW n
      PROVE  /\ {Advanced(n), Advanced(n)', Completed(n), Completed(n)'} \subseteq Nat
             /\ Advanced(n)' = Advanced(n) /\ Completed(n)' = Completed(n)
  BY <1>3, CountersAreNumbers DEF Inv, Advanced, Completed
<1>6. Tells({}, {})
  BY <1>4, <1>5 DEF Tells
<1>7. \A n : (IsPrivate(n) => IsPrivate(n)') /\ (Longer(n)' => Longer(n))
  BY <1>2 DEF IsPrivate, Longer
<1> QED BY <1>6, <1>7

\* Nothing else that happens while a tick lasts is counted
LEMMA QuietTells ==
  ASSUME Inv, UNCHANGED <<registered, metrics, acc>>
  PROVE  /\ Tells({}, {})
         /\ \A n : (IsPrivate(n) => IsPrivate(n)') /\ (Longer(n)' => Longer(n))
<1>1. \A n : Named(n)' = Named(n)
  BY CountsSame
<1>3. \A n : CountsOf(n)' = CountsOf(n)
  BY CountsSame
<1>4. ASSUME NEW n
      PROVE  /\ {Advanced(n), Advanced(n)', Completed(n), Completed(n)'} \subseteq Nat
             /\ Advanced(n)' = Advanced(n) /\ Completed(n)' = Completed(n)
  BY <1>3, CountersAreNumbers DEF Inv, Advanced, Completed
<1>5. Tells({}, {})
  BY <1>4 DEF Tells
<1> QED BY <1>1, <1>5 DEF IsPrivate, Longer

\* A match in progress was counted as an advance
LEMMA ActiveAdvanced ==
  ASSUME Inv, StoreCounted, NEW pm \in Active
  PROVE  Advanced(Library[pm.pattern_idx].name) > 0
<1> DEFINE n == Library[pm.pattern_idx].name
           f == Counter(n)
<1>1. IsFiniteSet(Active) /\ pm.pattern_idx \in Pats
  BY FS_Subset DEF Inv, TypeOK, Active, IsMatch
<1>2. Named(n) # {}
  BY <1>1 DEF Named
<1>3. f \in Pats /\ FirstNamed(pm.pattern_idx) = f /\ CountsOf(n) = metrics[f]
  BY <1>1, <1>2, CountsRead DEF Inv
<1>4. Advanced(n) \in Nat
  BY CountersAreNumbers DEF Inv
<1> HIDE DEF f, n
<1>5. Counted(Active, f) \in Nat /\ Counted(Active, f) > 0
  BY <1>1, <1>3, CountedType
<1> QED BY <1>3, <1>4, <1>5 DEF StoreCounted, Advanced, n

\* Every step of the game master's loop with the trackers attached
LEMMA StoryKeepsUp ==
  ASSUME Inv, StoreCounted, KeepsUp, [StoryNext]_storyVars
  PROVE  KeepsUp'
<1>1. CASE StoryTick
  <2>1. PICK threshold \in StaleThresholds : EndTick(threshold)
    BY <1>1 DEF StoryTick, TickEnds
  <2> QED BY <1>1, <2>1, TickKeepsUp DEF StoryTick
<1>2. ASSUME NEW i \in DOMAIN graph, Notify(i), UNCHANGED threadVars
      PROVE  KeepsUp'
  <2>1. PICK A, C : /\ Tells(A, C)
                    /\ \A n \in C : Longer(n) => \E pm \in Active : Library[pm.pattern_idx].name = n
    BY <1>2, NotifyTells
  <2>2. \A n \in C : Longer(n) => Advanced(n) > 0
    BY <2>1, ActiveAdvanced
  <2>3. delta' = delta /\ registered' = registered
    BY <1>2 DEF Notify
  <2>4. \A n : Named(n)' = Named(n)
    BY <2>3 DEF Named, Pats
  <2>5. \A n : (IsPrivate(n) => IsPrivate(n)') /\ (Longer(n)' => Longer(n))
    BY <2>4 DEF IsPrivate, Longer
  <2> QED BY <1>2, <2>1, <2>2, <2>3, <2>5, PlayKeepsUp
<1>3. CASE Register /\ UNCHANGED threadVars
  <2>1. delta' = delta
    BY <1>3 DEF Register
  <2> QED BY <1>3, <2>1, RegisterTells, PlayKeepsUp
<1>4. CASE UNCHANGED <<registered, metrics, acc, delta, threadVars>>
  <2>1. delta' = delta /\ UNCHANGED <<registered, metrics, acc>> /\ UNCHANGED threadVars
    BY <1>4
  <2> QED BY <2>1, QuietTells, PlayKeepsUp
<1>5. CASE Play /\ UNCHANGED threadVars
  <2>1. Register \/ (\E i \in DOMAIN graph : Notify(i)) \/ UNCHANGED <<registered, metrics, acc, delta>>
    BY <1>5 DEF Play, Insert, SetPatternEnabled, KillPmsInvolving, DrainCompleted
  <2> QED BY <1>2, <1>3, <1>4, <1>5, <2>1
<1>6. CASE UNCHANGED storyVars
  BY <1>4, <1>6 DEF storyVars, vars
<1> QED BY <1>1, <1>5, <1>6 DEF StoryNext

-----------------------------------------------------------------------------
(* What the score of a tick says                                           *)

\* The statuses of the pairs report the counters their patterns are counted by
LEMMA PayoffCounted ==
  ASSUME UniqueNames, TypeOK, NEW i \in Pats
  PROVE  Completed(Library[i].name) = metrics[i].completion_count
<1> DEFINE n == Library[i].name
<1>1. Named(n) # {}
  BY DEF Named
<1>2. /\ CountsOf(n) = metrics[Counter(n)]
      /\ \A j \in Pats : FirstNamed(j) = Counter(n) <=> Library[j].name = n
  BY <1>1, CountsRead
<1>3. FirstNamed(i) = i
  BY FirstNamedIsSelf
<1> HIDE DEF n
<1>4. FirstNamed(i) = Counter(n)
  BY <1>2 DEF n
<1>5. CountsOf(n) = metrics[i]
  BY <1>2, <1>3, <1>4
<1> QED BY <1>5 DEF Completed, n

\* A resolution rewarded is not punished as an unresolved plant
LEMMA Settled ==
  ASSUME UniqueNames, TypeOK, TellsTheTruth
  PROVE  ResolutionsSettle
<1>1. SUFFICES ASSUME NEW threshold \in StaleThresholds,
                      NEW p \in UnresolvedPairs(Statuses(threshold)),
                      p.payoff_pattern \in Resolved(delta, Statuses(threshold))
               PROVE  FALSE
  BY DEF ResolutionsSettle
<1>2. p \in Statuses(threshold) /\ p.payoff_completions = 0
  BY DEF UnresolvedPairs
<1>3. PICK pair \in Tracked : p = PlantStatus(pair, threshold)
  BY <1>2 DEF Statuses
<1>4. pair.payoff \in Pats
  BY DEF Tracked
<1>5. /\ p.payoff_pattern = Library[pair.payoff].name
      /\ p.payoff_completions = metrics[pair.payoff].completion_count
  BY <1>3 DEF PlantStatus
<1>6. p.payoff_pattern \in delta.completed
  BY <1>1 DEF Resolved
<1>7. Completed(p.payoff_pattern) > 0
  BY <1>6 DEF TellsTheTruth
<1>8. Completed(p.payoff_pattern) = 0
  BY <1>2, <1>4, <1>5, PayoffCounted
<1> QED BY <1>7, <1>8

\* Finitely many names are told
LEMMA TellsFew ==
  ASSUME TypeOK, TellsTheTruth
  PROVE  IsFiniteSet(delta.advanced) /\ IsFiniteSet(delta.completed)
<1> DEFINE f == [i \in DOMAIN Library |-> Library[i].name]
<1>1. IsFiniteSet(DOMAIN Library)
  BY LibraryDomain, FS_Interval
<1>2. f \in Surjection(DOMAIN Library, LibraryNames)
  BY DEF LibraryNames, Surjection
<1>3. IsFiniteSet(LibraryNames)
  BY <1>1, <1>2, FS_Surjection
<1>4. ASSUME NEW n, Advanced(n) > 0 \/ Completed(n) > 0
      PROVE  n \in LibraryNames
  <2>1. Named(n) # {}
    BY <1>4 DEF Advanced, Completed, CountsOf, NewMetrics
  <2>2. PICK i \in Pats : Library[i].name = n
    BY <2>1 DEF Named
  <2>3. i \in DOMAIN Library
    BY LibraryDomain DEF Pats, TypeOK
  <2> QED BY <2>2, <2>3 DEF LibraryNames
<1>5. delta.advanced \subseteq LibraryNames /\ delta.completed \subseteq LibraryNames
  BY <1>4 DEF TellsTheTruth
<1> QED BY <1>3, <1>5, FS_Subset

\* A weight of 1 for each name weighs as much as their number
LEMMA UnitWeights ==
  ASSUME NEW S, IsFiniteSet(S), NEW map, DOMAIN map = {}
  PROVE  Weighted(S, map) = One * Cardinality(S)
<1> DEFINE w == [n \in S |-> Weight(map, n)]
<1>1. \A n \in S : w[n] = One
  BY DEF Weight
<1> HIDE DEF w
<1>2. Total(S, w) = One * Cardinality(S)
  BY <1>1, TotalOfOnes
<1> QED BY <1>2 DEF Weighted, w

\* A weighted count that is the count is no other than the count
LEMMA WeightedIsCount ==
  ASSUME NEW c
  PROVE  WeightedOr(One * c, c) = One * c /\ WeightedOr(0, c) = One * c
BY DEF WeightedOr

\* Signals weighed by 1 throughout score as the plain ones do
LEMMA UnitSignals ==
  ASSUME NEW d, IsFiniteSet(d.advanced), IsFiniteSet(d.completed), NEW statuses,
         NEW violations, IsFiniteSet(violations), NEW measured, NEW filo, filo = Cardinality(violations),
         NEW all, DOMAIN all.pattern_importance = {}, DOMAIN all.thread_significance = {}, NEW w
  PROVE  Breakdown(AssembleSignals(d, statuses, filo, measured), w)
           = Breakdown(AssembleWithSignificance(d, statuses, violations, measured, all), w)
<1> DEFINE plain == AssembleSignals(d, statuses, filo, measured)
           weighed == AssembleWithSignificance(d, statuses, violations, measured, all)
           resolved == Resolved(d, statuses)
<1>1. IsFiniteSet(resolved)
  <2>1. resolved \subseteq d.completed
    BY DEF Resolved
  <2> QED BY <2>1, FS_Subset
<1>2. Total(violations, [v \in violations |-> Weight(all.thread_significance, v.closed_thread)])
        = One * filo
  <2> DEFINE u == [v \in violations |-> Weight(all.thread_significance, v.closed_thread)]
  <2>1. \A v \in violations : u[v] = One
    BY DEF Weight
  <2> HIDE DEF u
  <2>2. Total(violations, u) = One * Cardinality(violations)
    BY <2>1, TotalOfOnes
  <2> QED BY <2>2 DEF u
<1>3. /\ Weighted(d.advanced, all.pattern_importance) = One * Cardinality(d.advanced)
      /\ Weighted(d.completed, all.pattern_importance) = One * Cardinality(d.completed)
      /\ Weighted(resolved, all.pattern_importance) = One * Cardinality(resolved)
  BY <1>1, UnitWeights
<1>4. /\ weighed.weighted_advancements = One * plain.advancements
      /\ weighed.weighted_completions = One * plain.completions
      /\ weighed.weighted_filo_violations = One * plain.filo_violations
      /\ weighed.weighted_resolutions = One * plain.resolutions
  <2> HIDE DEF resolved
  <2>1. weighed.weighted_advancements = Weighted(d.advanced, all.pattern_importance)
    BY DEF AssembleSignals, AssembleSignalsWeighted, AssembleWithSignificance
  <2>2. weighed.weighted_completions = Weighted(d.completed, all.pattern_importance)
    BY DEF AssembleSignals, AssembleSignalsWeighted, AssembleWithSignificance
  <2>3. weighed.weighted_filo_violations
          = Total(violations, [v \in violations |-> Weight(all.thread_significance, v.closed_thread)])
    BY DEF AssembleSignals, AssembleSignalsWeighted, AssembleWithSignificance
  <2>4. weighed.weighted_resolutions = Weighted(resolved, all.pattern_importance)
    BY DEF AssembleSignals, AssembleSignalsWeighted, AssembleWithSignificance, resolved
  <2>5. /\ plain.advancements = Cardinality(d.advanced) /\ plain.completions = Cardinality(d.completed)
        /\ plain.filo_violations = filo /\ plain.resolutions = Cardinality(resolved)
    BY DEF AssembleSignals, resolved
  <2> HIDE DEF plain, weighed
  <2> QED BY <1>2, <1>3, <2>1, <2>2, <2>3, <2>4, <2>5
<1>5. /\ plain.weighted_advancements = 0 /\ plain.weighted_completions = 0
      /\ plain.weighted_filo_violations = 0 /\ plain.weighted_resolutions = 0
  BY DEF AssembleSignals
<1>6. /\ weighed.advancements = plain.advancements /\ weighed.completions = plain.completions
      /\ weighed.stalled = plain.stalled /\ weighed.unresolved_plants = plain.unresolved_plants
      /\ weighed.resolutions = plain.resolutions /\ weighed.filo_violations = plain.filo_violations
      /\ weighed.tension_fit = plain.tension_fit /\ weighed.pivot_magnitude = plain.pivot_magnitude
      /\ weighed.surprise = plain.surprise /\ weighed.sequential_surprise = plain.sequential_surprise
  BY DEF AssembleSignals, AssembleSignalsWeighted, AssembleWithSignificance
<1> HIDE DEF plain, weighed
<1>7. /\ WeightedOr(weighed.weighted_advancements, weighed.advancements)
            = WeightedOr(plain.weighted_advancements, plain.advancements)
      /\ WeightedOr(weighed.weighted_completions, weighed.completions)
            = WeightedOr(plain.weighted_completions, plain.completions)
      /\ WeightedOr(weighed.weighted_filo_violations, weighed.filo_violations)
            = WeightedOr(plain.weighted_filo_violations, plain.filo_violations)
      /\ WeightedOr(weighed.weighted_resolutions, weighed.resolutions)
            = WeightedOr(plain.weighted_resolutions, plain.resolutions)
  BY <1>4, <1>5, <1>6, WeightedIsCount
<1>8. Breakdown(plain, w) = Breakdown(weighed, w)
  BY <1>6, <1>7, Zenon DEF Breakdown
<1> QED BY <1>8 DEF plain, weighed

\* The score of a tick, of what was truly told, tells of it
LEMMA ScoreTells ==
  ASSUME UniqueNames, Inv, KeepsUp, OpenedOnce
  PROVE  ScoreTellsTheTick
<1>1. ResolutionsSettle
  BY Settled DEF Inv, KeepsUp
<1>2. UnitWeightsWeighNothing
  <2> DEFINE none == [n \in {} |-> One]
             measured == [ tension_fit |-> TensionFit("Rising", "Falling"), pivot_magnitude |-> 1,
                           surprise |-> 1, sequential_surprise |-> 1 ]
             all == [pattern_importance |-> none, thread_significance |-> none]
  <2>1. DOMAIN all.pattern_importance = {} /\ DOMAIN all.thread_significance = {}
    OBVIOUS
  <2>2. /\ IsFiniteSet(delta.advanced) /\ IsFiniteSet(delta.completed)
        /\ IsFiniteSet(Violations) /\ Cardinality(CheckFilo) = Cardinality(Violations)
    BY TellsFew, ViolationsCounted DEF Inv, KeepsUp
  <2> HIDE DEF all, measured
  <2>3. ASSUME NEW threshold \in StaleThresholds
        PROVE  LET plain   == AssembleSignals(delta, Statuses(threshold), Cardinality(CheckFilo), measured)
                   weighed == AssembleWithSignificance(delta, Statuses(threshold), Violations, measured, all)
               IN  Breakdown(plain, DefaultWeights) = Breakdown(weighed, DefaultWeights)
    BY <2>1, <2>2, UnitSignals
  <2>4. ASSUME NEW a, NEW b, Breakdown(a, DefaultWeights) = Breakdown(b, DefaultWeights)
        PROVE  TotalScore(a, DefaultWeights) = TotalScore(b, DefaultWeights)
    BY <2>4, Zenon DEF TotalScore
  <2> QED BY <2>3, <2>4, Zenon DEF UnitWeightsWeighNothing, all, measured
<1> QED BY <1>1, <1>2 DEF ScoreTellsTheTick

(***************************************************************************)
(* The theorems                                                            *)
(***************************************************************************)

\* The engine's invariant holds of the host's loop, whose steps are steps of the
\* engine: registering, inserting, notifying, switching, killing, draining and
\* ending ticks.  The loop commits no fork.
LEMMA LoopInvariance == LoopSpec => []Inv
<1>1. Init => Inv
  BY InitInv
<1>2. Inv /\ [LoopNext]_vars => Inv'
  BY LoopStepIsStep, NextInv
<1> QED BY <1>1, <1>2, PTL DEF LoopSpec

\* When every tick is ended by end_tick, each match written or completed since
\* the last one and still stored has its pattern named in the accumulators the
\* next TickDelta is made of (engine/mod.rs, end_tick).
THEOREM DeltaForgetsNothing == LoopSpec => []TickRemembered
<1>1. Init => TickRemembered
  BY DEF Init, TickRemembered
<1>2. Inv /\ TickRemembered /\ [LoopNext]_vars => TickRemembered'
  BY TickRememberedStep
<1> QED BY <1>1, <1>2, LoopInvariance, PTL DEF LoopSpec

\* Between end_ticks no match in progress is past its pattern's deadline, which
\* advances and loops inherit from the match they grow from, nor has it idled
\* for the pattern's inactivity threshold (the retain of end_tick).
THEOREM DeadlinesHold == LoopSpec => []NoneOverdue
<1>1. Init => NoneOverdue
  BY DEF Init, NoneOverdue, Active
<1>2. Inv /\ NoneOverdue /\ [LoopNext]_vars => NoneOverdue'
  BY NoneOverdueStep
<1> QED BY <1>1, <1>2, LoopInvariance, PTL DEF LoopSpec

\* plant_status calls a plant stale exactly when stale_patterns does, though
\* only the latter asks whether the pattern is enabled: at any time, whatever
\* the engine's caller did.
THEOREM StaleReportsMeet == Spec => []StaleReportsAgree
<1>1. ASSUME Inv
      PROVE  StaleReportsAgree
  <2>1. ASSUME NEW pair \in Tracked, NEW threshold \in StaleThresholds
        PROVE  PlantStatus(pair, threshold).stale
                 <=> pair.plant \in StalePatterns(pms, tick_counter, threshold)
    <3>1. pair.plant \in Pats
      BY DEF Tracked
    <3>2. (\E pm \in pms : pm.pattern_idx = pair.plant /\ pm.state = "Active")
            => enabled[pair.plant]
      BY <1>1 DEF Inv, DisabledPatternsQuiet, Active
    <3>3. PlantStatus(pair, threshold).stale
            <=> /\ {pm \in Active : pm.pattern_idx = pair.plant} # {}
                /\ tick_counter - metrics[pair.plant].last_advanced_tick >= threshold
      BY DEF PlantStatus
    <3> QED BY <3>1, <3>2, <3>3 DEF StalePatterns, Active
  <2> QED BY <2>1 DEF StaleReportsAgree
<1> QED BY <1>1, Invariance, PTL

\* The loop with the trackers is a behaviour of the engine
LEMMA StoryStepIsStep == [StoryNext]_storyVars => [Next]_vars
<1>1. [StoryNext]_storyVars => [LoopNext]_vars
  BY DEF StoryNext, StoryTick, LoopNext, storyVars
<1> QED BY <1>1, LoopStepIsStep

\* The engine's invariant, its books and what KeepsUp adds hold of a loop with
\* the trackers attached.
LEMMA StoryInvariance == StorySpec => [](Inv /\ StoreCounted /\ KeepsUp /\ OpenedOnce)
<1>1. StoryInit => Inv /\ StoreCounted
  BY InitInv, InitCounts DEF StoryInit
<1>2. StoryInit => KeepsUp
  <2> SUFFICES ASSUME StoryInit
               PROVE  KeepsUp
    OBVIOUS
  <2>1. /\ open_order = << >> /\ close_order = << >> /\ acc = NoEvents
        /\ delta.advanced = {} /\ delta.completed = {} /\ registered = 0
    BY DEF StoryInit, ThreadInit, Init
  <2>2. \A n : Advanced(n) = 0 /\ Completed(n) = 0
    BY <2>1 DEF Advanced, Completed, CountsOf, Named, Pats, NewMetrics
  <2>3. OrdersTyped
    BY <2>1 DEF OrdersTyped
  <2>4. TellsTheTruth
    BY <2>1 DEF TellsTheTruth, NoEvents
  <2>5. \A n : Times(close_order, n) = 0 /\ n \notin Recorded(open_order)
    <3>1. DOMAIN close_order = {} /\ DOMAIN open_order = {}
      BY <2>1
    <3> QED BY <3>1, FS_EmptySet DEF Times, Recorded
  <2>6. ThreadsKept
    BY <2>1, <2>2, <2>5 DEF ThreadsKept, ThreadKept, NoEvents
  <2>7. AdvancesFirst
    BY <2>2 DEF AdvancesFirst
  <2> QED BY <2>3, <2>4, <2>6, <2>7 DEF KeepsUp
<1>3. StoryInit => OpenedOnce
  BY DEF StoryInit, ThreadInit, OpenedOnce
<1>4. Inv /\ StoreCounted /\ KeepsUp /\ [StoryNext]_storyVars
        => (Inv /\ StoreCounted /\ KeepsUp)'
  BY StoryStepIsStep, NextInv, NextCounts, StoryKeepsUp
<1>5. KeepsUp /\ OpenedOnce /\ [StoryNext]_storyVars => OpenedOnce'
  <2> SUFFICES ASSUME KeepsUp, OpenedOnce, [StoryNext]_storyVars
               PROVE  OpenedOnce'
    OBVIOUS
  <2>1. (\E d : ObserveDelta(d)) \/ UNCHANGED threadVars
    BY DEF StoryNext, StoryTick, storyVars
  <2> QED BY <2>1, ThreadCalls DEF KeepsUp
<1> QED BY <1>1, <1>2, <1>3, <1>4, <1>5, PTL DEF StorySpec

\* The thread tracker, which is told names once a tick, keeps up with the
\* engine's counters when no fork is committed: a thread is opened only if its
\* opening pattern advanced, and is opened if a public one did and the tick is
\* over; it is closed no more often than its closing pattern completed, and at
\* least once if a public one did and the tick is over (observe_delta of
\* thread.rs, fed with what end_tick returns).
THEOREM TrackerInStep == StorySpec => []TrackerKeepsUp
<1>1. Inv /\ KeepsUp => TrackerKeepsUp
  BY KeptUp
<1> QED BY <1>1, StoryInvariance, PTL

\* When the names of the patterns differ: a payoff the score of a tick rewards
\* as a resolution belongs to no pair it punishes as unresolved, whatever was
\* completed and forgotten since, and weighing everything as 1 is not weighing
\* (plant_status of engine/mod.rs, assemble_signals_with_significance and score
\* of scorer.rs).
THEOREM TheScoreTells ==
  ASSUME UniqueNames
  PROVE  StorySpec => []ScoreTellsTheTick
<1>1. Inv /\ KeepsUp /\ OpenedOnce => ScoreTellsTheTick
  BY ScoreTells
<1> QED BY <1>1, StoryInvariance, PTL
=============================================================================
