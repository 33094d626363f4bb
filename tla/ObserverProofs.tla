--------------------------- MODULE ObserverProofs ----------------------------
(***************************************************************************)
(* What the trackers and scorers report of what they were told, for every  *)
(* sequence of calls, resets included, and without the bounds of a run     *)
(* other than those Observers names.                                       *)
(*                                                                         *)
(* One observer is watched in a behaviour, so the invariant of each is     *)
(* inductive by itself: the steps of the others leave its variables as     *)
(* they are.  The scorers of properties fold over the properties of a      *)
(* match, and the tension tracker over the samples of its window; what is  *)
(* said of a fold is shown of the loop it stands for, place by place.      *)
(***************************************************************************)
EXTENDS Observers, NarrativeProofs

\* Some places, of finitely many, have a last
LEMMA LastOfPlaces ==
  ASSUME NEW n \in Nat, NEW S \in SUBSET (1..n), S # {}
  PROVE  LastOf(S) \in S /\ \A k \in S : k <= LastOf(S)
<1> DEFINE T == {n - x : x \in S}
<1>1. T \in SUBSET Nat /\ T # {}
  <2>1. \A x \in S : n - x \in Nat
    OBVIOUS
  <2> QED BY <2>1
<1>2. PICK y \in T : \A z \in T : y <= z
  <2> HIDE DEF T
  <2> QED BY <1>1, FirstOfPlaces
<1>3. PICK x \in S : y = n - x
  BY <1>2
<1>4. \A k \in S : n - k \in T
  OBVIOUS
<1>5. \A k \in S : k <= x
  <2>1. \A k \in S : n - x <= n - k
    BY <1>2, <1>3, <1>4
  <2>2. S \subseteq Nat /\ x \in Nat
    OBVIOUS
  <2> QED BY <2>1, <2>2
<1> QED BY <1>3, <1>5 DEF LastOf

-----------------------------------------------------------------------------
(* The pivot detector *)

Distributions == UNION {[S -> Nat] : S \in SUBSET EventTypes}

Marks == {"zero", "some", "most", "infinite"}

\* What end_tick is to record of the i-th tick
MarkOf(metric, i) ==
  IF past[i] = NoCounts \/ Eventful(i) = {} THEN "zero"
  ELSE Distance(metric, past[LastOf(Eventful(i))], past[i])

\* ... and it can: it remembers the last tick with events
PivotInv(metric) ==
  /\ past \in Seq(Distributions) /\ current_counts \in Distributions
  /\ history \in Seq(Marks) /\ Len(history) = Len(past)
  /\ prev_distribution = IF Eventful(Len(past) + 1) = {} THEN NoCounts
                         ELSE past[LastOf(Eventful(Len(past) + 1))]
  /\ \A i \in DOMAIN past : history[i] = MarkOf(metric, i)

\* Events, the end of a tick and a reset keep what is remembered of the ticks
LEMMA PivotStep ==
  ASSUME NEW metric, PivotInv(metric), PivotNext(metric)
  PROVE  PivotInv(metric)'
<1>0. NoCounts \in Distributions
  BY DEF Distributions, NoCounts
<1>1. ASSUME NEW k \in EventTypes, PushEvent(k), UNCHANGED <<past, watched>>
      PROVE  PivotInv(metric)'
  <2>1. current_counts' \in Distributions
    <3>1. PICK S \in SUBSET EventTypes : current_counts \in [S -> Nat]
      BY DEF PivotInv, Distributions
    <3>2. current_counts' \in [S \cup {k} -> Nat]
      BY <1>1, <3>1 DEF PushEvent, Count
    <3> QED BY <3>2 DEF Distributions
  <2> QED BY <1>1, <2>1 DEF PushEvent, PivotInv, Eventful, MarkOf
<1>2. CASE EndPivotTick(metric) /\ Told(current_counts)
  <2>0. PICK n \in Nat : n = Len(past)
    BY DEF PivotInv
  <2>1. /\ past' = Append(past, current_counts) /\ n \in Nat /\ DOMAIN past = 1..n
        /\ Len(past') = n + 1 /\ past'[n + 1] = current_counts
        /\ \A i \in 1..n : past'[i] = past[i]
        /\ past' \in Seq(Distributions) /\ DOMAIN past' = 1..(n + 1)
    BY <1>2, <2>0 DEF Told, PivotInv
  <2>2. \A i \in 1..(n + 1) : Eventful(i)' = Eventful(i)
    BY <2>1 DEF Eventful
  <2>3. \A i \in 1..(n + 1) : Eventful(i) # {} =>
          LastOf(Eventful(i)) \in Eventful(i) /\ LastOf(Eventful(i)) \in 1..n
    <3>1. ASSUME NEW i \in 1..(n + 1), Eventful(i) # {}
          PROVE  LastOf(Eventful(i)) \in Eventful(i) /\ LastOf(Eventful(i)) \in 1..n
      <4>1. Eventful(i) \in SUBSET (1..n)
        BY <2>1 DEF Eventful
      <4> QED BY <2>1, <3>1, <4>1, LastOfPlaces
    <3> QED BY <3>1
  <2>4. \A i \in 1..n : MarkOf(metric, i)' = MarkOf(metric, i)
    <3>1. ASSUME NEW i \in 1..n
          PROVE  MarkOf(metric, i)' = MarkOf(metric, i)
      <4>1. i \in 1..(n + 1)
        BY <2>1
      <4>2. past'[i] = past[i] /\ Eventful(i)' = Eventful(i)
        BY <2>1, <2>2, <4>1
      <4>3. Eventful(i) # {} => past'[LastOf(Eventful(i))] = past[LastOf(Eventful(i))]
        BY <2>1, <2>3, <4>1
      <4>4. Distance(metric, past[LastOf(Eventful(i))], past[i])' =
            Distance(metric, past'[LastOf(Eventful(i)')], past'[i])
        OBVIOUS
      <4> QED BY <4>2, <4>3, <4>4 DEF MarkOf
    <3> QED BY <3>1
  <2> DEFINE mark == IF NoCounts \in {prev_distribution, current_counts} THEN "zero"
                     ELSE Distance(metric, prev_distribution, current_counts)
  <2>5. /\ history' = Append(history, mark) /\ mark \in Marks
        /\ prev_distribution' = OfLastEventful(prev_distribution, current_counts)
        /\ current_counts' = NoCounts
    BY <1>2 DEF EndPivotTick, Distance, Divergence, Bounded, Marks
  <2>6. prev_distribution = IF Eventful(n + 1) = {} THEN NoCounts ELSE past[LastOf(Eventful(n + 1))]
    BY <2>0 DEF PivotInv
  <2>7. n + 1 \in 1..(n + 1)
    BY <2>1
  <2>8. Eventful(n + 1) # {} => past[LastOf(Eventful(n + 1))] # NoCounts
    BY <2>3, <2>7 DEF Eventful
  <2>9. mark = MarkOf(metric, n + 1)'
    <3>1. past'[n + 1] = current_counts /\ Eventful(n + 1)' = Eventful(n + 1)
      BY <2>1, <2>2, <2>7
    <3>2. Eventful(n + 1) # {} => past'[LastOf(Eventful(n + 1))] = prev_distribution
      BY <2>1, <2>3, <2>6, <2>7
    <3>3. NoCounts \in {prev_distribution, current_counts} <=>
            current_counts = NoCounts \/ Eventful(n + 1) = {}
      BY <2>6, <2>8
    <3> QED BY <3>1, <3>2, <3>3 DEF MarkOf
  <2> HIDE DEF mark
  <2>10. /\ history' \in Seq(Marks) /\ Len(history') = n + 1
         /\ \A i \in 1..(n + 1) : history'[i] = MarkOf(metric, i)'
    <3>1. /\ history \in Seq(Marks) /\ Len(history) = n /\ \A i \in 1..n : history[i] = MarkOf(metric, i)
      BY <2>0, <2>1 DEF PivotInv
    <3>2. /\ history' \in Seq(Marks) /\ Len(history') = n + 1
          /\ \A i \in 1..n : history'[i] = history[i]
          /\ history'[n + 1] = mark
      BY <2>1, <2>5, <3>1
    <3>3. \A i \in 1..(n + 1) : i \in 1..n \/ i = n + 1
      BY <2>1
    <3> QED BY <2>4, <2>9, <3>1, <3>2, <3>3
  <2>11. prev_distribution' = IF Eventful(n + 2)' = {} THEN NoCounts
                              ELSE past'[LastOf(Eventful(n + 2)')]
    <3>1. CASE current_counts = NoCounts
      <4>1. Eventful(n + 2)' = Eventful(n + 1)
        BY <2>1, <3>1 DEF Eventful
      <4>2. prev_distribution' = prev_distribution
        BY <2>5, <3>1 DEF OfLastEventful
      <4>3. Eventful(n + 1) # {} =>
              past'[LastOf(Eventful(n + 1))] = past[LastOf(Eventful(n + 1))]
        BY <2>1, <2>3, <2>7
      <4> QED BY <2>6, <4>1, <4>2, <4>3
    <3>2. CASE current_counts # NoCounts
      <4>1. /\ Eventful(n + 2)' \in SUBSET (1..(n + 1)) /\ n + 1 \in Eventful(n + 2)'
        BY <2>1, <3>2 DEF Eventful
      <4>2. LastOf(Eventful(n + 2)') = n + 1
        <5>1. n + 1 \in Nat
          BY <2>1
        <5>2. LastOf(Eventful(n + 2)') \in Eventful(n + 2)' /\ n + 1 <= LastOf(Eventful(n + 2)')
          BY <4>1, <5>1, LastOfPlaces
        <5> QED BY <2>1, <4>1, <5>2
      <4>3. prev_distribution' = current_counts
        BY <2>5, <3>2 DEF OfLastEventful
      <4> QED BY <2>1, <4>1, <4>2, <4>3
    <3> QED BY <3>1, <3>2
  <2>12. Len(past') + 1 = n + 2
    BY <2>1
  <2> QED BY <1>0, <2>1, <2>5, <2>10, <2>11, <2>12 DEF PivotInv
<1>3. CASE PivotReset /\ StartedAfresh
  <2>1. past' = << >> /\ history' = << >> /\ current_counts' = NoCounts /\ prev_distribution' = NoCounts
    BY <1>3 DEF PivotReset, StartedAfresh
  <2>2. Eventful(1)' = {}
    BY DEF Eventful
  <2> QED BY <1>0, <2>1, <2>2 DEF PivotInv
<1> QED BY <1>1, <1>2, <1>3 DEF PivotNext

PivotHolds ==
  /\ watched = "pivot"      => PivotInv("JensenShannon")
  /\ watched = "divergence" => PivotInv("KullbackLeibler")

\* Whoever is watched
LEMMA PivotHoldsStep ==
  ASSUME PivotHolds, [ObserversNext]_observers
  PROVE  PivotHolds'
<1>1. watched' = watched
  BY DEF ObserversNext, ThreadsNext, TensionNext, PivotNext, PropertiesNext, BatchNext,
         IncrementalNext, SequentialNext, Told, StartedAfresh, observers
<1>2. CASE UNCHANGED observers
  BY <1>2 DEF observers, pivotVars, PivotHolds, PivotInv, MarkOf, Eventful
<1>3. CASE watched = "pivot" /\ ObserversNext
  <2>1. PivotNext("JensenShannon")
    BY <1>3 DEF ObserversNext
  <2> QED BY <1>1, <1>3, <2>1, PivotStep DEF PivotHolds
<1>4. CASE watched = "divergence" /\ ObserversNext
  <2>1. PivotNext("KullbackLeibler")
    BY <1>4 DEF ObserversNext
  <2> QED BY <1>1, <1>4, <2>1, PivotStep DEF PivotHolds
<1> QED BY <1>1, <1>2, <1>3, <1>4 DEF PivotHolds

-----------------------------------------------------------------------------
(* The surprise scorer, fed round by round or event by event               *)

NamesAt(k) == IF watched = "batch" THEN past[k] ELSE past[k].names

\* The rounds in which the i-th pattern matched, and the rounds that are over
With(i) == {k \in DOMAIN past : \E n \in ToSet(NamesAt(k)) : i \in IndexOf(n)}
Over    == IF watched = "batch" THEN DOMAIN past ELSE {k \in DOMAIN past : ~past[k].open}

Entries == Rounds \cup [open : BOOLEAN, names : Rounds]

\* What the calls have left in past, and what was counted meanwhile
RoundsKept ==
  /\ past \in Seq(Entries)
  /\ watched = "incremental" =>
       \A k \in DOMAIN past : /\ past[k] \in [open : BOOLEAN, names : Rounds]
                              /\ k < Len(past) => ~past[k].open
  /\ total_rounds = Cardinality(Over)
  /\ \A i \in DOMAIN PatternNames : Entry(counts, i, 0) = Cardinality(With(i))
  /\ \A i \in DOMAIN baselines : i \in DOMAIN PatternNames /\ baselines[i] = <<1, 2>>

RoundsInv == watched \in {"batch", "incremental"} => RoundsKept

\* One more place is counted once
LEMMA PlaceAdded ==
  ASSUME NEW n \in Nat, NEW S, S \subseteq 1..n
  PROVE  /\ IsFiniteSet(S) /\ Cardinality(S) \in Nat
         /\ Cardinality(S \cup {n + 1}) = Cardinality(S) + 1
<1>0. IsFiniteSet(1..n)
  BY FS_Interval
<1>1. IsFiniteSet(S)
  BY <1>0, FS_Subset
<1>2. n + 1 \notin S
  OBVIOUS
<1> QED BY <1>1, <1>2, FS_AddElement, FS_CardinalityType

\* What a round adds to the counts, however its matches are reported
LEMMA RoundCounted ==
  ASSUME NEW names \in Rounds, Observe(names) \/ (ObserveEvents(names) /\ IsInjective(names)),
         NEW i \in DOMAIN PatternNames, Entry(counts, i, 0) \in Nat
  PROVE  Entry(counts', i, 0) = Entry(counts, i, 0) +
           (IF \E n \in ToSet(names) : i \in IndexOf(n) THEN 1 ELSE 0)
<1> DEFINE seen == UNION {IndexOf(names[k]) : k \in DOMAIN names}
           places == {k \in DOMAIN names : i \in IndexOf(names[k])}
           named == \E n \in ToSet(names) : i \in IndexOf(n)
<1>1. named <=> places # {}
  BY DEF ToSet
<1>2. i \in seen <=> places # {}
  OBVIOUS
<1>3. CASE Observe(names)
  <2>1. counts' = [j \in DOMAIN counts \cup seen |-> Entry(counts, j, 0) + OncePerRound(names, j)]
    BY <1>3 DEF Observe
  <2>2. OncePerRound(names, i) = IF places # {} THEN 1 ELSE 0
    BY DEF OncePerRound
  <2>3. CASE i \in DOMAIN counts \cup seen
    <3>1. counts'[i] = Entry(counts, i, 0) + OncePerRound(names, i) /\ i \in DOMAIN counts'
      BY <2>1, <2>3
    <3> HIDE DEF seen, places, named
    <3> QED BY <1>1, <2>2, <3>1 DEF Entry, named
  <2>4. CASE i \notin DOMAIN counts \cup seen
    <3> HIDE DEF seen, places, named
    <3> QED BY <1>1, <1>2, <2>1, <2>4 DEF Entry, named
  <2> QED BY <2>3, <2>4
<1>4. CASE ObserveEvents(names) /\ IsInjective(names)
  <2>1. counts' = [j \in DOMAIN counts \cup seen |->
                     Entry(counts, j, 0) + Cardinality({k \in DOMAIN names : j \in IndexOf(names[k])})]
    BY <1>4 DEF ObserveEvents
  <2>2. Cardinality(places) = IF places # {} THEN 1 ELSE 0
    <3>1. \A k, l \in places : k = l
      <4>1. \A k, l \in places : names[k] = names[l]
        BY DEF IndexOf
      <4> QED BY <1>4, <4>1 DEF IsInjective
    <3>2. places = {} \/ \E k : places = {k}
      <4> HIDE DEF places
      <4> QED BY <3>1
    <3> HIDE DEF places
    <3> QED BY <3>2, FS_EmptySet, FS_Singleton
  <2>3. CASE i \in DOMAIN counts \cup seen
    <3>1. counts'[i] = Entry(counts, i, 0) + Cardinality(places) /\ i \in DOMAIN counts'
      BY <2>1, <2>3
    <3> HIDE DEF seen, places, named
    <3> QED BY <1>1, <2>2, <3>1 DEF Entry, named
  <2>4. CASE i \notin DOMAIN counts \cup seen
    <3> HIDE DEF seen, places, named
    <3> QED BY <1>1, <1>2, <2>1, <2>4 DEF Entry, named
  <2> QED BY <2>3, <2>4
<1> QED BY <1>3, <1>4

\* A round that is told is counted where it was seen
LEMMA RoundTold ==
  ASSUME RoundsKept, watched \in {"batch", "incremental"}, NEW names \in Rounds,
         Observe(names) \/ (ObserveEvents(names) /\ IsInjective(names)),
         NEW x \in Entries, past' = Append(past, x), watched' = watched,
         names = IF watched = "batch" THEN x ELSE x.names
  PROVE  \A i \in DOMAIN PatternNames : Entry(counts', i, 0) = Cardinality(With(i)')
<1>1. PICK n \in Nat : n = Len(past) /\ DOMAIN past = 1..n
  BY DEF RoundsKept
<1>2. /\ DOMAIN past' = 1..(n + 1) /\ past'[n + 1] = x
      /\ \A k \in 1..n : past'[k] = past[k]
  BY <1>1 DEF RoundsKept
<1>3. ASSUME NEW i \in DOMAIN PatternNames
      PROVE  Entry(counts', i, 0) = Cardinality(With(i)')
  <2> DEFINE named == \E m \in ToSet(names) : i \in IndexOf(m)
  <2>1. With(i) \subseteq 1..n
    BY <1>1 DEF With
  <2>2. With(i)' = IF named THEN With(i) \cup {n + 1} ELSE With(i)
    <3>1. NamesAt(n + 1)' = names /\ \A k \in 1..n : NamesAt(k)' = NamesAt(k)
      BY <1>2 DEF NamesAt
    <3>2. \A k \in 1..(n + 1) : k \in 1..n \/ k = n + 1
      OBVIOUS
    <3>3. With(i)' = {k \in 1..(n + 1) : \E m \in ToSet(NamesAt(k)') : i \in IndexOf(m)}
      BY <1>2 DEF With
    <3>4. With(i) = {k \in 1..n : \E m \in ToSet(NamesAt(k)) : i \in IndexOf(m)}
      BY <1>1 DEF With
    <3> QED BY <3>1, <3>2, <3>3, <3>4
  <2>3. Entry(counts, i, 0) = Cardinality(With(i))
    BY DEF RoundsKept
  <2>4. /\ Cardinality(With(i)) \in Nat
        /\ Cardinality(With(i) \cup {n + 1}) = Cardinality(With(i)) + 1
    BY <2>1, PlaceAdded
  <2>5. Entry(counts', i, 0) = Entry(counts, i, 0) + (IF named THEN 1 ELSE 0)
    BY <2>3, <2>4, RoundCounted
  <2> HIDE DEF named
  <2> QED BY <2>2, <2>3, <2>4, <2>5
<1> QED BY <1>3

\* A scorer that is reset has counted nothing
LEMMA ScorerEmptied ==
  ASSUME RoundsKept, ResetCounts /\ StartedAfresh
  PROVE  RoundsKept'
<1>1. past' = << >> /\ total_rounds' = 0 /\ counts' = NoEntry /\ baselines' = baselines
  BY DEF ResetCounts, StartedAfresh
<1>2. Over' = {} /\ \A i : With(i)' = {}
  BY <1>1 DEF Over, With
<1>3. \A i : Entry(counts', i, 0) = 0
  BY <1>1 DEF Entry, NoEntry
<1>4. past' \in Seq(Entries) /\ DOMAIN past' = {} /\ Cardinality({}) = 0
  BY <1>1, FS_EmptySet
<1>5. \A i \in DOMAIN baselines' : i \in DOMAIN PatternNames /\ baselines'[i] = <<1, 2>>
  BY <1>1 DEF RoundsKept
<1>6. total_rounds' = Cardinality(Over')
  BY <1>1, <1>2, <1>4
<1>7. \A i \in DOMAIN PatternNames : Entry(counts', i, 0) = Cardinality(With(i)')
  BY <1>2, <1>3, <1>4
<1> QED BY <1>4, <1>5, <1>6, <1>7 DEF RoundsKept

\* Every call of the scorer fed in batches
LEMMA BatchStep ==
  ASSUME RoundsKept, watched = "batch", watched' = watched, BatchNext
  PROVE  RoundsKept'
<1>1. PICK n \in Nat : n = Len(past) /\ DOMAIN past = 1..n /\ past \in Seq(Entries)
  BY DEF RoundsKept
<1>2. ASSUME NEW names \in Rounds, Observe(names), Told(names)
      PROVE  RoundsKept'
  <2>1. /\ past' = Append(past, names) /\ baselines' = baselines /\ total_rounds' = total_rounds + 1
        /\ names \in Entries
    BY <1>2 DEF Told, Observe, Entries
  <2>2. past' \in Seq(Entries) /\ DOMAIN past' = 1..(n + 1)
    BY <1>1, <2>1
  <2>3. \A i \in DOMAIN PatternNames : Entry(counts', i, 0) = Cardinality(With(i)')
    BY <1>2, <2>1, RoundTold
  <2>4. total_rounds' = Cardinality(Over')
    <3>1. Over = 1..n /\ Over' = 1..(n + 1)
      BY <1>1, <2>2 DEF Over
    <3>2. Cardinality(1..n) = n /\ Cardinality(1..(n + 1)) = n + 1
      BY FS_Interval
    <3> QED BY <2>1, <3>1, <3>2 DEF RoundsKept
  <2> QED BY <2>1, <2>2, <2>3, <2>4 DEF RoundsKept
<1>3. ASSUME NEW i \in DOMAIN PatternNames, SetBaseline(i, <<1, 2>>), UNCHANGED <<past, watched>>
      PROVE  RoundsKept'
  <2>1. /\ baselines' = SetEntry(baselines, i, <<1, 2>>) /\ counts' = counts
        /\ total_rounds' = total_rounds /\ past' = past
    BY <1>3 DEF SetBaseline
  <2>2. \A j : With(j)' = With(j)
    BY <2>1 DEF With, NamesAt
  <2>3. Over' = Over
    BY <2>1 DEF Over
  <2>4. \A j \in DOMAIN baselines' : j \in DOMAIN PatternNames /\ baselines'[j] = <<1, 2>>
    BY <2>1 DEF SetEntry, RoundsKept
  <2> QED BY <2>1, <2>2, <2>3, <2>4 DEF RoundsKept
<1>4. CASE ResetCounts /\ StartedAfresh
  BY <1>4, ScorerEmptied
<1> QED BY <1>2, <1>3, <1>4 DEF BatchNext

\* Every call of the scorer fed with events
LEMMA IncrementalStep ==
  ASSUME RoundsKept, watched = "incremental", watched' = watched, IncrementalNext
  PROVE  RoundsKept'
<1>1. PICK n \in Nat : n = Len(past) /\ DOMAIN past = 1..n /\ past \in Seq(Entries)
  BY DEF RoundsKept
<1> DEFINE R == [open : BOOLEAN, names : Rounds]
<1>0. \A k \in 1..n : past[k] \in R /\ (k < n => ~past[k].open)
  BY <1>1 DEF RoundsKept
<1>2. past # << >> => n \in 1..n /\ Last(past) = past[n]
  BY <1>1 DEF Last
<1>3. Over \subseteq 1..n
  BY <1>1 DEF Over
<1>4. ASSUME NEW names \in Rounds, ~(past # << >> /\ Last(past).open), IsInjective(names),
             ObserveEvents(names), Told([open |-> TRUE, names |-> names])
      PROVE  RoundsKept'
  <2> DEFINE x == [open |-> TRUE, names |-> names]
  <2>1. /\ past' = Append(past, x) /\ baselines' = baselines /\ total_rounds' = total_rounds
        /\ x \in Entries /\ x.names = names /\ x.open /\ x \in R
    BY <1>4 DEF Told, ObserveEvents, Entries
  <2> HIDE DEF x
  <2>2. /\ past' \in Seq(Entries) /\ DOMAIN past' = 1..(n + 1) /\ Len(past') = n + 1
        /\ past'[n + 1] = x /\ \A k \in 1..n : past'[k] = past[k]
    BY <1>1, <2>1
  <2>3. \A i \in DOMAIN PatternNames : Entry(counts', i, 0) = Cardinality(With(i)')
    BY <1>4, <2>1, RoundTold
  <2>4. \A k \in 1..(n + 1) : k \in 1..n \/ k = n + 1
    OBVIOUS
  <2>5. Over' = Over
    BY <1>1, <2>1, <2>2, <2>4 DEF Over
  <2>6. \A k \in 1..n : ~past[k].open
    <3>1. CASE past = << >>
      BY <1>1, <3>1
    <3>2. CASE past # << >>
      <4>1. ~past[n].open
        BY <1>2, <1>4, <3>2
      <4>2. \A k \in 1..n : k < n \/ k = n
        OBVIOUS
      <4> QED BY <1>0, <4>1, <4>2
    <3> QED BY <3>1, <3>2
  <2>7. \A k \in DOMAIN past' : past'[k] \in R /\ (k < Len(past') => ~past'[k].open)
    <3>1. \A k \in 1..n : past'[k] \in R /\ ~past'[k].open
      BY <1>0, <2>2, <2>6
    <3>2. past'[n + 1] \in R
      BY <2>1, <2>2
    <3> HIDE DEF R
    <3> QED BY <2>2, <2>4, <3>1, <3>2
  <2> QED BY <2>1, <2>2, <2>3, <2>5, <2>7 DEF RoundsKept
<1>5. CASE /\ past # << >> /\ Last(past).open
           /\ TickRound /\ past' = [past EXCEPT ![Len(past)].open = FALSE]
  <2>1. /\ past' = [past EXCEPT ![n] = [past[n] EXCEPT !.open = FALSE]]
        /\ baselines' = baselines /\ counts' = counts /\ total_rounds' = total_rounds + 1
        /\ past[n].open /\ n \in 1..n
    BY <1>1, <1>2, <1>5 DEF TickRound
  <2>2. [past[n] EXCEPT !.open = FALSE] \in R
    BY <1>0, <2>1
  <2>3. /\ DOMAIN past' = 1..n /\ past'[n] \in R /\ ~past'[n].open /\ past'[n].names = past[n].names
        /\ \A k \in 1..n : k # n => past'[k] = past[k]
    <3>1. past'[n] = [past[n] EXCEPT !.open = FALSE]
      BY <1>1, <2>1
    <3>2. past[n] \in R
      BY <1>0, <2>1
    <3> QED BY <1>1, <2>1, <2>2, <3>1, <3>2
  <2>4. past' \in Seq(Entries) /\ Len(past') = n
    <3>1. \A k \in 1..n : past'[k] \in Entries
      <4>1. past'[n] \in Entries
        BY <2>3 DEF Entries
      <4>2. \A k \in 1..n : past[k] \in Entries
        BY <1>1
      <4> QED BY <2>3, <4>1, <4>2
    <3>2. past' \in [1..n -> Entries]
      BY <1>1, <2>1, <2>3, <3>1
    <3> QED BY <3>2
  <2>5. \A i : With(i)' = With(i)
    <3>1. \A k \in 1..n : NamesAt(k)' = NamesAt(k)
      BY <2>3 DEF NamesAt
    <3> QED BY <1>1, <2>3, <3>1 DEF With
  <2>6. total_rounds' = Cardinality(Over')
    <3>1. Over = 1..(n - 1)
      BY <1>0, <1>1, <2>1 DEF Over
    <3>2. Over' = 1..n
      <4>1. \A k \in 1..n : ~past'[k].open
        <5>1. ASSUME NEW k \in 1..n, k # n
              PROVE  ~past'[k].open
          BY <1>0, <2>3, <5>1
        <5> QED BY <2>3, <5>1
      <4> QED BY <2>3, <4>1 DEF Over
    <3>3. Cardinality(1..(n - 1)) = n - 1 /\ Cardinality(1..n) = n
      BY <2>1, FS_Interval
    <3> QED BY <2>1, <3>1, <3>2, <3>3 DEF RoundsKept
  <2>7. \A k \in DOMAIN past' : past'[k] \in R /\ (k < Len(past') => ~past'[k].open)
    <3>1. ASSUME NEW k \in 1..n
          PROVE  past'[k] \in R /\ (k < n => ~past'[k].open)
      BY <1>0, <2>3
    <3> HIDE DEF R
    <3> QED BY <2>3, <2>4, <3>1
  <2> QED BY <2>1, <2>4, <2>5, <2>6, <2>7 DEF RoundsKept
<1>6. CASE ResetCounts /\ StartedAfresh
  BY <1>6, ScorerEmptied
<1> QED BY <1>4, <1>5, <1>6 DEF IncrementalNext

\* Every call of any observer
LEMMA RoundsStep ==
  ASSUME RoundsInv, [ObserversNext]_observers
  PROVE  RoundsInv'
<1>1. watched' = watched
  BY DEF ObserversNext, ThreadsNext, TensionNext, PivotNext, PropertiesNext, BatchNext,
         IncrementalNext, SequentialNext, Told, StartedAfresh, observers
<1>2. CASE UNCHANGED observers
  <2>1. /\ past' = past /\ watched' = watched /\ baselines' = baselines /\ counts' = counts
        /\ total_rounds' = total_rounds
    BY <1>2 DEF observers, surpriseVars
  <2>2. Over' = Over /\ \A i : With(i)' = With(i)
    BY <2>1 DEF Over, With, NamesAt
  <2> QED BY <2>1, <2>2 DEF RoundsInv, RoundsKept
<1>3. CASE watched = "batch" /\ ObserversNext
  <2>1. BatchNext
    BY <1>3 DEF ObserversNext
  <2> QED BY <1>1, <1>3, <2>1, BatchStep DEF RoundsInv
<1>4. CASE watched = "incremental" /\ ObserversNext
  <2>1. IncrementalNext
    BY <1>4 DEF ObserversNext
  <2> QED BY <1>1, <1>4, <2>1, IncrementalStep DEF RoundsInv
<1> QED BY <1>1, <1>2, <1>3, <1>4 DEF RoundsInv

\* The counts are counts of rounds, and shares of their number
LEMMA RoundsLaw ==
  ASSUME RoundsInv
  PROVE  CountsRounds
<1>1. SUFFICES ASSUME watched \in {"batch", "incremental"}
               PROVE  /\ total_rounds = Cardinality(Over)
                      /\ \A i \in DOMAIN PatternNames : Entry(counts, i, 0) = Cardinality(With(i))
                      /\ Over = DOMAIN past =>
                           \A i \in DOMAIN baselines : \A p \in SurpriseFor(i) :
                             p[1] * baselines[i][1] <= p[2] * baselines[i][2]
  <2>1. ASSUME NEW i
        PROVE  With(i) = {k \in DOMAIN past :
                 \E n \in (IF watched = "batch" THEN ToSet(past[k]) ELSE ToSet(past[k].names)) :
                   i \in IndexOf(n)}
    BY DEF With, NamesAt
  <2> QED BY <2>1, Zenon DEF CountsRounds, Over
<1>2. RoundsKept
  BY <1>1 DEF RoundsInv
<1>3. ASSUME Over = DOMAIN past, NEW i \in DOMAIN baselines, NEW p \in SurpriseFor(i)
      PROVE  p[1] * baselines[i][1] <= p[2] * baselines[i][2]
  <2>1. PICK n \in Nat : n = Len(past) /\ DOMAIN past = 1..n
    BY <1>2 DEF RoundsKept
  <2>2. With(i) \subseteq 1..n
    BY <2>1 DEF With
  <2>3. /\ IsFiniteSet(1..n) /\ Cardinality(1..n) = n
        /\ Cardinality(With(i)) \in Nat
    <3>1. IsFiniteSet(1..n) /\ Cardinality(1..n) = n
      BY FS_Interval
    <3>2. Cardinality(With(i)) \in Nat
      BY <2>2, PlaceAdded
    <3> QED BY <3>1, <3>2
  <2>4. Cardinality(With(i)) <= n
    BY <2>2, <2>3, FS_Subset
  <2>5. PICK c \in Nat : c = Entry(counts, i, 0) /\ c <= n
    BY <1>2, <2>3, <2>4 DEF RoundsKept
  <2>6. total_rounds = n
    BY <1>2, <1>3, <2>1, <2>3 DEF RoundsKept
  <2>7. baselines[i] = <<1, 2>>
    BY <1>2 DEF RoundsKept
  <2>8. Probability(i) = <<c + 1, n + 1>>
    BY <2>5, <2>6 DEF Probability
  <2>9. p = <<(c + 1) * 2, (n + 1) * 1>>
    <3>1. PICK j \in DOMAIN baselines \cap {i} :
            p = <<Probability(i)[1] * baselines[j][2], Probability(i)[2] * baselines[j][1]>>
      BY DEF SurpriseFor
    <3>2. j = i
      BY <3>1
    <3> QED BY <2>7, <2>8, <3>1, <3>2
  <2> QED BY <2>5, <2>7, <2>9
<1> QED BY <1>2, <1>3 DEF RoundsKept

-----------------------------------------------------------------------------
(* The sequential scorer *)

\* A row's total is that of its successors
RowAddsUp(r) ==
  /\ IsFiniteSet(DOMAIN r.successors)
  /\ \A q \in DOMAIN r.successors : r.successors[q] \in Nat
  /\ r.total = Total(DOMAIN r.successors, r.successors)

RowsInv == \A p \in DOMAIN rows : RowAddsUp(rows[p])

\* One more transition keeps it so
LEMMA FollowAddsUp ==
  ASSUME NEW r, RowAddsUp(r), NEW next
  PROVE  RowAddsUp(Follow(r, next))
<1> DEFINE D == DOMAIN r.successors
           s == r.successors
           E == D \cup {next}
           t == SetEntry(s, next, Entry(s, next, 0) + 1)
           rest == E \ {next}
<1>1. /\ IsFiniteSet(D) /\ IsFiniteSet(E) /\ IsFiniteSet(rest) /\ rest \subseteq D /\ next \notin rest
      /\ rest = D \ {next}
  <2>1. IsFiniteSet(D)
    BY DEF RowAddsUp
  <2>2. IsFiniteSet(E)
    BY <2>1, FS_AddElement
  <2>3. rest \subseteq D /\ next \notin rest /\ rest = D \ {next}
    OBVIOUS
  <2> HIDE DEF D, E, rest
  <2> QED BY <2>1, <2>2, <2>3, FS_Subset
<1>2. /\ \A q \in D : s[q] \in Nat
      /\ r.total = Total(D, s)
  BY DEF RowAddsUp
<1>3. /\ DOMAIN t = E /\ t[next] = Entry(s, next, 0) + 1
      /\ \A q \in rest : t[q] = s[q]
      /\ Entry(s, next, 0) \in Nat
  BY <1>2 DEF SetEntry, Entry
<1>4. \A q \in E : t[q] \in Nat
  <2>1. \A q \in E : q = next \/ q \in rest
    OBVIOUS
  <2> HIDE DEF t, E, rest, s
  <2> QED BY <1>1, <1>2, <1>3, <2>1
<1>5. Follow(r, next) = [total |-> r.total + 1, successors |-> t]
  BY DEF Follow
<1>6. t[next] = (IF next \in D THEN s[next] ELSE 0) + 1
  BY <1>3 DEF Entry
<1> HIDE DEF D, s, t
<1>7. Total(E, t) = Total(D, s) + 1
  BY <1>1, <1>2, <1>3, <1>6, TotalGrows
<1> QED BY <1>1, <1>2, <1>3, <1>4, <1>5, <1>7 DEF RowAddsUp

\* Every call of any observer
LEMMA RowsStep ==
  ASSUME RowsInv, [ObserversNext]_observers
  PROVE  RowsInv'
<1>1. ASSUME NEW p, NEW q, ObserveTransition(p, q)
      PROVE  RowsInv'
  <2> DEFINE r == Entry(rows, p, [total |-> 0, successors |-> NoEntry])
  <2>1. rows' = SetEntry(rows, p, Follow(r, q))
    BY <1>1 DEF ObserveTransition
  <2>2. RowAddsUp(r)
    <3>1. CASE p \in DOMAIN rows
      BY <3>1 DEF RowsInv, Entry
    <3>2. CASE p \notin DOMAIN rows
      <4>1. r = [total |-> 0, successors |-> NoEntry] /\ DOMAIN NoEntry = {}
        BY <3>2 DEF Entry, NoEntry
      <4>2. Total({}, NoEntry) = 0 /\ IsFiniteSet({})
        BY FS_EmptySet, TotalFacts
      <4> HIDE DEF r
      <4> QED BY <4>1, <4>2 DEF RowAddsUp
    <3> QED BY <3>1, <3>2
  <2> HIDE DEF r
  <2>3. RowAddsUp(Follow(r, q))
    BY <2>2, FollowAddsUp
  <2>4. \A x \in DOMAIN rows' : rows'[x] = Follow(r, q) \/ (x \in DOMAIN rows /\ rows'[x] = rows[x])
    BY <2>1 DEF SetEntry
  <2>5. ASSUME NEW x \in DOMAIN rows'
        PROVE  RowAddsUp(rows'[x])
    BY <2>3, <2>4, <2>5 DEF RowsInv
  <2> QED BY <2>5 DEF RowsInv
<1>2. CASE ResetRows
  BY <1>2 DEF ResetRows, RowsInv, NoEntry
<1>3. CASE rows' = rows
  BY <1>3 DEF RowsInv
<1>4. (\E p, q : ObserveTransition(p, q)) \/ ResetRows \/ rows' = rows
  BY DEF ObserversNext, SequentialNext, observers
<1> QED BY <1>1, <1>2, <1>3, <1>4

\* A row that adds up gives shares of one whole
LEMMA RowsLaw ==
  ASSUME RowsInv
  PROVE  SuccessorsSumToOne
<1> SUFFICES ASSUME NEW p \in DOMAIN rows
             PROVE  LET succ   == DOMAIN rows[p].successors
                        shares == [q \in succ |-> TransitionProbability(p, q)[1]]
                    IN  Total(succ, shares) = TransitionProbability(p, CHOOSE q \in succ : TRUE)[2]
  BY Zenon DEF SuccessorsSumToOne, Total
<1> DEFINE succ   == DOMAIN rows[p].successors
           s      == rows[p].successors
           shares == [q \in succ |-> TransitionProbability(p, q)[1]]
<1>1. /\ IsFiniteSet(succ) /\ \A q \in succ : s[q] \in Nat
      /\ rows[p].total = Total(succ, s)
  BY DEF RowsInv, RowAddsUp
<1>2. \A q \in succ : shares[q] = s[q] + 1
  BY DEF TransitionProbability, Entry
<1>3. \A q : TransitionProbability(p, q)[2] = rows[p].total + Cardinality(succ)
  BY DEF TransitionProbability
<1> HIDE DEF succ, s, shares
<1>4. Total(succ, shares) = Total(succ, s) + Cardinality(succ)
  BY <1>1, <1>2, TotalOneMore
<1>5. Total(succ, shares) = rows[p].total + Cardinality(succ)
  BY <1>1, <1>4
<1>6. Total(succ, shares) = TransitionProbability(p, CHOOSE q \in succ : TRUE)[2]
  BY <1>3, <1>5
<1> QED BY <1>6 DEF succ, shares

-----------------------------------------------------------------------------
(***************************************************************************)
(* The scorers of properties.  Their loops are folds over the places of a  *)
(* sequence; what is true before the first place and is kept at each, is   *)
(* true after the last.                                                    *)
(***************************************************************************)

\* Places have a greatest
LEMMA MaxOfPlaces ==
  ASSUME NEW n \in Nat, NEW S \in SUBSET (1..n), S # {}
  PROVE  Max(S) \in S
<1>1. PICK x \in S : \A k \in S : x >= k
  BY LastOfPlaces
<1> QED BY ONLY <1>1, Zenon DEF Max

\* What holds before the first place and is kept by each holds after the last
LEMMA FoldInduction ==
  ASSUME NEW n \in Nat, NEW P, {} \in P,
         \A s \in SUBSET (1..n) : s # {} /\ s \ {Max(s)} \in P => s \in P
  PROVE  1..n \in P
<1>1. IsFiniteSet(1..n)
  BY FS_Interval
<1>2. \A s \in SUBSET (1..n) : (\A x \in s : s \ {x} \in P) => s \in P
  <2> SUFFICES ASSUME NEW s \in SUBSET (1..n), \A x \in s : s \ {x} \in P, s # {}
               PROVE  s \in P
    OBVIOUS
  <2>1. Max(s) \in s
    BY MaxOfPlaces
  <2> QED BY <2>1
<1>3. PICK S : S = 1..n
  OBVIOUS
<1>4. IsFiniteSet(S) /\ \A s \in SUBSET S : (\A x \in s : s \ {x} \in P) => s \in P
  BY <1>1, <1>2, <1>3
<1>5. SUBSET S \subseteq P
  BY ONLY <1>4, OneByOne
<1> QED BY <1>3, <1>5

\* The round of a loop for the place i, by what the loop is for, from the
\* result y of the earlier rounds
RoundOf(a, i, y) ==
  CASE a.of = "unique"  -> IF Contains(y, a.props[i]) THEN y ELSE Append(y, a.props[i])
    [] a.of = "row"     -> IF a.row < i THEN CorrectPair(a.t, a.props, y, a.row, i) ELSE y
    [] a.of = "rows"    -> CorrectedRow(a.t, a.props, y, i)
    [] a.of = "product" -> <<y[1] * a.f[i][1], y[2] * a.f[i][2]>>
    [] a.of = "sum"     -> <<y[1] * a.f[i][2] + a.f[i][1] * y[2], y[2] * a.f[i][2]>>
    [] a.of = "plain"   -> y + a.f[i]

Loop(h, D, base, a) ==
  h = [s \in D |-> IF s = {} THEN base ELSE RoundOf(a, Max(s), h[s \ {Max(s)}])]

\* A loop over places comes to an end
LEMMA LoopsExist ==
  ASSUME NEW n \in Nat, NEW base, NEW a
  PROVE  \E h : Loop(h, SUBSET (1..n), base, a)
<1> DEFINE Small(m) == {s \in SUBSET (1..n) : Cardinality(s) <= m}
           Good == {m \in Nat : \E h : Loop(h, Small(m), base, a)}
<1>0. IsFiniteSet(1..n)
  BY FS_Interval
<1>1. \A s \in SUBSET (1..n) : IsFiniteSet(s) /\ Cardinality(s) \in Nat
  BY <1>0, FS_Subset, FS_CardinalityType
<1>2. 0 \in Good
  <2> DEFINE h == [s \in Small(0) |-> base]
  <2>1. \A s \in Small(0) : s = {}
    BY <1>1, FS_EmptySet
  <2>2. \A s \in Small(0) : base = IF s = {} THEN base ELSE RoundOf(a, Max(s), h[s \ {Max(s)}])
    BY <2>1
  <2> HIDE DEF Small
  <2>3. h = [s \in Small(0) |-> IF s = {} THEN base ELSE RoundOf(a, Max(s), h[s \ {Max(s)}])]
    BY <2>2, Zenon
  <2>4. Loop(h, Small(0), base, a)
    BY <2>3 DEF Loop
  <2> QED BY <2>4
<1>3. ASSUME NEW m \in Nat, m \in Good
      PROVE  m + 1 \in Good
  <2>1. PICK h : Loop(h, Small(m), base, a)
    BY <1>3
  <2> DEFINE g == [s \in Small(m + 1) |-> IF s = {} THEN base ELSE RoundOf(a, Max(s), h[s \ {Max(s)}])]
  <2>2. \A s \in Small(m) : s \in Small(m + 1) /\ g[s] = h[s]
    <3>1. \A s \in Small(m) : s \in Small(m + 1)
      BY <1>1
    <3> HIDE DEF Small
    <3>2. \A s \in Small(m) : h[s] = IF s = {} THEN base ELSE RoundOf(a, Max(s), h[s \ {Max(s)}])
      BY <2>1, Zenon DEF Loop
    <3> QED BY <3>1, <3>2
  <2>3. \A s \in Small(m + 1) : s # {} => s \ {Max(s)} \in Small(m)
    <3>1. ASSUME NEW s \in Small(m + 1), s # {}
          PROVE  s \ {Max(s)} \in Small(m)
      <4>1. Max(s) \in s
        BY <3>1, MaxOfPlaces
      <4>2. s \in SUBSET (1..n) /\ IsFiniteSet(s) /\ Cardinality(s) <= m + 1
        BY <1>1
      <4>3. PICK x \in s : x = Max(s)
        BY <4>1
      <4>4. /\ Cardinality(s \ {x}) \in Nat /\ Cardinality(s) = Cardinality(s \ {x}) + 1
        BY <4>2, OneLess
      <4>5. s \ {x} \in SUBSET (1..n) /\ Cardinality(s \ {x}) <= m
        BY <4>2, <4>4
      <4> QED BY <4>3, <4>5
    <3> QED BY <3>1
  <2>4. \A s \in Small(m + 1) : s # {} => g[s \ {Max(s)}] = h[s \ {Max(s)}]
    BY <2>2, <2>3
  <2> HIDE DEF Small
  <2>5. Loop(g, Small(m + 1), base, a)
    BY <2>4 DEF Loop
  <2> QED BY <2>5
<1> HIDE DEF Good
<1>4. \A m \in Nat : m \in Good
  <2>1. ASSUME NEW m \in Nat
        PROVE  m \in Good
    <3>1. 0..m \subseteq Good
      BY <1>2, <1>3, PrefixInduction
    <3> QED BY <3>1
  <2> QED BY <2>1
<1>5. Small(Cardinality(1..n)) = SUBSET (1..n)
  BY <1>0, FS_Subset
<1>6. Cardinality(1..n) \in Nat
  BY <1>0, FS_CardinalityType
<1> QED BY <1>4, <1>5, <1>6 DEF Good

\* Round by round
RoundByRound(h, n, base, a) ==
  /\ h[{}] = base
  /\ \A s \in SUBSET (1..n) : s # {} =>
       /\ Max(s) \in 1..n /\ s \ {Max(s)} \in SUBSET (1..n)
       /\ h[s] = RoundOf(a, Max(s), h[s \ {Max(s)}])

\* What the rounds of a loop are
LEMMA LoopRounds ==
  ASSUME NEW n \in Nat, NEW base, NEW a, NEW h, Loop(h, SUBSET (1..n), base, a)
  PROVE  RoundByRound(h, n, base, a)
<1>1. \A s \in SUBSET (1..n) : h[s] = IF s = {} THEN base ELSE RoundOf(a, Max(s), h[s \ {Max(s)}])
  BY Zenon DEF Loop
<1>2. \A s \in SUBSET (1..n) : s # {} => Max(s) \in 1..n
  BY MaxOfPlaces
<1> QED BY <1>1, <1>2 DEF RoundByRound

\* The rounds of a loop over n places stay in a set
Keeps(a, n, Good) == \A i \in 1..n, y \in Good : RoundOf(a, i, y) \in Good

(* The loops of the scorer, each as the loop it is *)

ProductLoop(h, D, f) ==
  h = [s \in D |-> IF s = {} THEN <<1, 1>>
                   ELSE <<h[s \ {Max(s)}][1] * f[Max(s)][1], h[s \ {Max(s)}][2] * f[Max(s)][2]>>]

\* Product multiplies place by place
LEMMA ProductRounds ==
  ASSUME NEW n \in Nat, NEW f, DOMAIN f = 1..n
  PROVE  \E h, a : /\ Loop(h, SUBSET (1..n), <<1, 1>>, a)
                   /\ \A i, y : RoundOf(a, i, y) = <<y[1] * f[i][1], y[2] * f[i][2]>>
                   /\ Product(f) = h[1..n]
<1> DEFINE a == [of |-> "product", f |-> f]
           g == CHOOSE h : ProductLoop(h, SUBSET (1..n), f)
<1>1. \A i, y : RoundOf(a, i, y) = <<y[1] * f[i][1], y[2] * f[i][2]>>
  BY DEF RoundOf
<1> HIDE DEF a, g
<1>2. \A h : Loop(h, SUBSET (1..n), <<1, 1>>, a) <=> ProductLoop(h, SUBSET (1..n), f)
  BY <1>1, Zenon DEF Loop, ProductLoop
<1>3. \E h : ProductLoop(h, SUBSET (1..n), f)
  BY <1>2, LoopsExist
<1>4. ProductLoop(g, SUBSET (1..n), f)
  BY <1>3 DEF g
<1>5. Product(f) = g[1..n]
  BY DEF Product, FoldLeft, MapThenFoldSet, ProductLoop, g
<1> QED BY <1>1, <1>2, <1>4, <1>5

SumLoop(h, D, f) ==
  h = [s \in D |-> IF s = {} THEN <<0, 1>>
                   ELSE << h[s \ {Max(s)}][1] * f[Max(s)][2] + f[Max(s)][1] * h[s \ {Max(s)}][2],
                           h[s \ {Max(s)}][2] * f[Max(s)][2] >>]

\* FractionSum adds place by place
LEMMA SumRounds ==
  ASSUME NEW n \in Nat, NEW f, DOMAIN f = 1..n
  PROVE  \E h, a : /\ Loop(h, SUBSET (1..n), <<0, 1>>, a)
                   /\ \A i, y : RoundOf(a, i, y) = <<y[1] * f[i][2] + f[i][1] * y[2], y[2] * f[i][2]>>
                   /\ FractionSum(f) = h[1..n]
<1> DEFINE a == [of |-> "sum", f |-> f]
           g == CHOOSE h : SumLoop(h, SUBSET (1..n), f)
<1>1. \A i, y : RoundOf(a, i, y) = <<y[1] * f[i][2] + f[i][1] * y[2], y[2] * f[i][2]>>
  BY DEF RoundOf
<1> HIDE DEF a, g
<1>2. \A h : Loop(h, SUBSET (1..n), <<0, 1>>, a) <=> SumLoop(h, SUBSET (1..n), f)
  BY <1>1, Zenon DEF Loop, SumLoop
<1>3. \E h : SumLoop(h, SUBSET (1..n), f)
  BY <1>2, LoopsExist
<1>4. SumLoop(g, SUBSET (1..n), f)
  BY <1>3 DEF g
<1>5. FractionSum(f) = g[1..n]
  BY DEF FractionSum, FoldLeft, MapThenFoldSet, SumLoop, g
<1> QED BY <1>1, <1>2, <1>4, <1>5

\* A round of a loop adds a property if it is new
AddsNew(a, props) ==
  \A i, y : RoundOf(a, i, y) = IF Contains(y, props[i]) THEN y ELSE Append(y, props[i])

UniqueLoop(h, D, props) ==
  h = [s \in D |-> IF s = {} THEN << >>
                   ELSE IF Contains(h[s \ {Max(s)}], props[Max(s)]) THEN h[s \ {Max(s)}]
                        ELSE Append(h[s \ {Max(s)}], props[Max(s)])]

\* Unique looks at place after place
LEMMA UniqueRounds ==
  ASSUME NEW n \in Nat, NEW props, DOMAIN props = 1..n
  PROVE  \E h, a : /\ Loop(h, SUBSET (1..n), << >>, a)
                   /\ AddsNew(a, props)
                   /\ Unique(props) = h[1..n]
<1> DEFINE a == [of |-> "unique", props |-> props]
           g == CHOOSE h : UniqueLoop(h, SUBSET (1..n), props)
<1>1. \A i, y : RoundOf(a, i, y) = IF Contains(y, props[i]) THEN y ELSE Append(y, props[i])
  BY DEF RoundOf
<1> HIDE DEF a, g
<1>2. \A h : Loop(h, SUBSET (1..n), << >>, a) <=> UniqueLoop(h, SUBSET (1..n), props)
  BY <1>1, Zenon DEF Loop, UniqueLoop
<1>3. \E h : UniqueLoop(h, SUBSET (1..n), props)
  BY <1>2, LoopsExist
<1>4. UniqueLoop(g, SUBSET (1..n), props)
  BY <1>3 DEF g
<1>5. Unique(props) = g[1..n]
  BY DEF Unique, FoldLeft, MapThenFoldSet, UniqueLoop, g
<1> QED BY <1>1, <1>2, <1>4, <1>5 DEF AddsNew

\* The places of a sequence, as a sequence
Places(s) == [i \in DOMAIN s |-> i]

\* A round of a loop corrects the pair of a later place with i
CorrectsRow(a, t, props, i) ==
  \A j, y : RoundOf(a, j, y) = IF i < j THEN CorrectPair(t, props, y, i, j) ELSE y

\* CorrectedRow is a loop of such rounds
RowIsLoop(n, t, props, f, i) ==
  \E h, a : /\ Loop(h, SUBSET (1..n), f, a)
            /\ CorrectsRow(a, t, props, i)
            /\ CorrectedRow(t, props, f, i) = h[1..n]

RowLoop(h, D, t, props, f, i) ==
  h = [s \in D |-> IF s = {} THEN f
                   ELSE IF i < Places(props)[Max(s)]
                        THEN CorrectPair(t, props, h[s \ {Max(s)}], i, Places(props)[Max(s)])
                        ELSE h[s \ {Max(s)}]]

\* The inner loop over the pairs
LEMMA RowRounds ==
  ASSUME NEW n \in Nat, NEW props, DOMAIN props = 1..n, NEW t, NEW f, NEW i
  PROVE  RowIsLoop(n, t, props, f, i)
<1> DEFINE a == [of |-> "row", t |-> t, props |-> props, row |-> i]
           g == CHOOSE h : RowLoop(h, SUBSET (DOMAIN Places(props)), t, props, f, i)
<1>1. \A j, y : RoundOf(a, j, y) = IF i < j THEN CorrectPair(t, props, y, i, j) ELSE y
  BY DEF RoundOf
<1>0. DOMAIN Places(props) = 1..n /\ \A j \in 1..n : Places(props)[j] = j
  BY DEF Places
<1> HIDE DEF a, g
<1>2. \A h : Loop(h, SUBSET (1..n), f, a) <=> RowLoop(h, SUBSET (1..n), t, props, f, i)
  <2>1. \A s \in SUBSET (1..n) : s # {} => Max(s) \in 1..n
    BY MaxOfPlaces
  <2>2. ASSUME NEW h, NEW s \in SUBSET (1..n)
        PROVE  (IF s = {} THEN f ELSE RoundOf(a, Max(s), h[s \ {Max(s)}]))
                 = IF s = {} THEN f
                   ELSE IF i < Places(props)[Max(s)]
                        THEN CorrectPair(t, props, h[s \ {Max(s)}], i, Places(props)[Max(s)])
                        ELSE h[s \ {Max(s)}]
    <3>1. CASE s = {}
      BY <3>1
    <3>2. CASE s # {}
      <4>1. Places(props)[Max(s)] = Max(s)
        BY <1>0, <2>1, <3>2
      <4> QED BY ONLY <1>1, <3>2, <4>1, Zenon
    <3> QED BY <3>1, <3>2
  <2> QED BY <2>2, Zenon DEF Loop, RowLoop
<1>3. \E h : RowLoop(h, SUBSET (DOMAIN Places(props)), t, props, f, i)
  BY <1>0, <1>2, LoopsExist
<1>4. RowLoop(g, SUBSET (DOMAIN Places(props)), t, props, f, i)
  BY <1>3, Zenon DEF g
<1>5. CorrectedRow(t, props, f, i) = g[DOMAIN Places(props)]
  BY DEF CorrectedRow, FoldLeftDomain, FoldLeft, MapThenFoldSet, RowLoop, g, Places
<1> QED BY <1>1, <1>0, <1>2, <1>4, <1>5 DEF CorrectsRow, RowIsLoop

RowsLoop(h, D, t, props, f) ==
  h = [s \in D |-> IF s = {} THEN f
                   ELSE CorrectedRow(t, props, h[s \ {Max(s)}], Places(props)[Max(s)])]

\* The outer loop
LEMMA RowsRounds ==
  ASSUME NEW n \in Nat, NEW props, DOMAIN props = 1..n, NEW t, PmiCorrection
  PROVE  \E h, a : /\ Loop(h, SUBSET (1..n), Frequencies(t, props), a)
                   /\ \A j, y : RoundOf(a, j, y) = CorrectedRow(t, props, y, j)
                   /\ CorrectedFrequencies(t, props) = h[1..n]
<1> DEFINE a == [of |-> "rows", t |-> t, props |-> props]
           f == Frequencies(t, props)
           g == CHOOSE h : RowsLoop(h, SUBSET (DOMAIN Places(props)), t, props, Frequencies(t, props))
<1>1. \A j, y : RoundOf(a, j, y) = CorrectedRow(t, props, y, j)
  BY DEF RoundOf
<1>0. DOMAIN Places(props) = 1..n /\ \A j \in 1..n : Places(props)[j] = j
  BY DEF Places
<1> HIDE DEF a, g, f
<1>2. \A h : Loop(h, SUBSET (1..n), f, a) <=> RowsLoop(h, SUBSET (1..n), t, props, f)
  <2>1. \A s \in SUBSET (1..n) : s # {} => Max(s) \in 1..n
    BY MaxOfPlaces
  <2>2. ASSUME NEW h, NEW s \in SUBSET (1..n)
        PROVE  (IF s = {} THEN f ELSE RoundOf(a, Max(s), h[s \ {Max(s)}]))
                 = IF s = {} THEN f
                   ELSE CorrectedRow(t, props, h[s \ {Max(s)}], Places(props)[Max(s)])
    <3>1. CASE s = {}
      BY <3>1
    <3>2. CASE s # {}
      <4>1. Places(props)[Max(s)] = Max(s)
        BY <1>0, <2>1, <3>2
      <4> QED BY ONLY <1>1, <3>2, <4>1, Zenon
    <3> QED BY <3>1, <3>2
  <2> QED BY <2>2, Zenon DEF Loop, RowsLoop
<1>3. \E h : RowsLoop(h, SUBSET (DOMAIN Places(props)), t, props, f)
  BY <1>0, <1>2, LoopsExist
<1>4. RowsLoop(g, SUBSET (DOMAIN Places(props)), t, props, f)
  BY <1>3, Zenon DEF g, f
<1>5. CorrectedFrequencies(t, props) = g[DOMAIN Places(props)]
  BY DEF CorrectedFrequencies, FoldLeftDomain, FoldLeft, MapThenFoldSet, RowsLoop, g, Places
<1> QED BY <1>1, <1>0, <1>2, <1>4, <1>5 DEF f

\* The result of a loop, and that it is of a round when there were rounds
EndsIn(h, n, a, Good) ==
  /\ h[1..n] \in Good
  /\ n > 0 => \E i \in 1..n, y \in Good : h[1..n] = RoundOf(a, i, y)

\* What is true before a loop and kept by its rounds is true after it; and the
\* result of a loop with rounds is that of a round
LEMMA LoopKeeps ==
  ASSUME NEW n \in Nat, NEW base, NEW a, NEW h, Loop(h, SUBSET (1..n), base, a),
         NEW Good, base \in Good, Keeps(a, n, Good)
  PROVE  EndsIn(h, n, a, Good)
<1> DEFINE P == {s \in SUBSET (1..n) : /\ h[s] \in Good
                                       /\ s # {} => \E i \in 1..n, y \in Good : h[s] = RoundOf(a, i, y)}
<1>1. RoundByRound(h, n, base, a)
  BY LoopRounds
<1>2. {} \in P
  BY <1>1 DEF RoundByRound
<1>3. ASSUME NEW s \in SUBSET (1..n), s # {}, s \ {Max(s)} \in P
      PROVE  s \in P
  BY <1>1, <1>3 DEF RoundByRound, Keeps
<1>4. 1..n \in P
  <2> HIDE DEF P
  <2> QED BY <1>2, <1>3, FoldInduction
<1>5. n > 0 => 1..n # {}
  OBVIOUS
<1> QED BY <1>4, <1>5 DEF EndsIn

\* Frequencies: fractions of at most one
Parts == {x \in Nat \X Nat : x[2] > 0 /\ x[1] <= x[2]}

\* Two frequencies multiplied
LEMMA PartsMultiply ==
  ASSUME NEW x \in Parts, NEW y \in Parts
  PROVE  <<x[1] * y[1], x[2] * y[2]>> \in Parts
<1>1. /\ x[1] \in Nat /\ x[2] \in Nat /\ x[2] > 0 /\ x[1] <= x[2]
      /\ y[1] \in Nat /\ y[2] \in Nat /\ y[2] > 0 /\ y[1] <= y[2]
  BY DEF Parts
<1>2. ASSUME NEW p \in Nat, NEW q \in Nat, NEW r \in Nat, NEW s \in Nat, q > 0, p <= q, s > 0, r <= s
      PROVE  p * r \in Nat /\ q * s \in Nat /\ q * s > 0 /\ p * r <= q * s
  <2>1. p * r <= q * r
    BY <1>2
  <2>2. q * r <= q * s
    BY <1>2
  <2>3. p * r \in Nat /\ q * s \in Nat /\ q * r \in Nat
    OBVIOUS
  <2>4. q * s > 0
    BY <1>2
  <2> QED BY <2>1, <2>2, <2>3, <2>4
<1> HIDE DEF Parts
<1>3. x[1] * y[1] \in Nat /\ x[2] * y[2] \in Nat /\ x[2] * y[2] > 0 /\ x[1] * y[1] <= x[2] * y[2]
  BY <1>1, <1>2
<1>4. PICK u, v : u = x[1] * y[1] /\ v = x[2] * y[2]
  OBVIOUS
<1>5. <<u, v>> \in Parts
  BY <1>3, <1>4 DEF Parts
<1> QED BY <1>4, <1>5

\* A product of frequencies
LEMMA ProductOfParts ==
  ASSUME NEW n \in Nat, NEW f \in [1..n -> Parts]
  PROVE  Product(f) \in Parts
<1>1. PICK h, a : /\ Loop(h, SUBSET (1..n), <<1, 1>>, a)
                  /\ \A i, y : RoundOf(a, i, y) = <<y[1] * f[i][1], y[2] * f[i][2]>>
                  /\ Product(f) = h[1..n]
  BY ProductRounds
<1>2. <<1, 1>> \in Parts
  BY DEF Parts
<1>3. Keeps(a, n, Parts)
  BY <1>1, PartsMultiply DEF Keeps
<1>4. EndsIn(h, n, a, Parts)
  BY <1>1, <1>2, <1>3, LoopKeeps
<1> QED BY <1>1, <1>4 DEF EndsIn

\* At most m as a fraction
UpTo(x, m) == x[1] \in Nat /\ x[2] \in Nat /\ x[2] > 0 /\ x[1] <= m * x[2]

\* One frequency more adds at most one
LEMMA PartsAdd ==
  ASSUME NEW x, NEW m \in Nat, UpTo(x, m), NEW y \in Parts
  PROVE  UpTo(<<x[1] * y[2] + y[1] * x[2], x[2] * y[2]>>, m + 1)
<1>1. /\ x[1] \in Nat /\ x[2] \in Nat /\ x[2] > 0 /\ x[1] <= m * x[2]
      /\ y[1] \in Nat /\ y[2] \in Nat /\ y[2] > 0 /\ y[1] <= y[2]
  BY DEF Parts, UpTo
<1>2. ASSUME NEW p \in Nat, NEW q \in Nat, NEW r \in Nat, NEW s \in Nat, q > 0, p <= m * q, s > 0, r <= s
      PROVE  /\ p * s + r * q \in Nat /\ q * s \in Nat /\ q * s > 0
             /\ p * s + r * q <= (m + 1) * (q * s)
  <2>1. p * s <= (m * q) * s
    BY <1>2
  <2>2. r * q <= s * q
    BY <1>2
  <2>3. (m + 1) * (q * s) = (m * q) * s + s * q
    OBVIOUS
  <2>4. p * s \in Nat /\ r * q \in Nat /\ q * s \in Nat /\ s * q \in Nat /\ (m * q) * s \in Nat
    OBVIOUS
  <2>5. q * s > 0
    BY <1>2
  <2> QED BY <2>1, <2>2, <2>3, <2>4, <2>5
<1> HIDE DEF Parts
<1>3. /\ x[1] * y[2] + y[1] * x[2] \in Nat /\ x[2] * y[2] \in Nat /\ x[2] * y[2] > 0
      /\ x[1] * y[2] + y[1] * x[2] <= (m + 1) * (x[2] * y[2])
  BY <1>1, <1>2
<1> QED BY <1>3 DEF UpTo

\* A sum of n frequencies is at most n
LEMMA SumOfParts ==
  ASSUME NEW n \in Nat, NEW f \in [1..n -> Parts]
  PROVE  UpTo(FractionSum(f), n)
<1>1. PICK h, a : /\ Loop(h, SUBSET (1..n), <<0, 1>>, a)
                  /\ \A i, y : RoundOf(a, i, y) = <<y[1] * f[i][2] + f[i][1] * y[2], y[2] * f[i][2]>>
                  /\ FractionSum(f) = h[1..n]
  BY SumRounds
<1>4. RoundByRound(h, n, <<0, 1>>, a)
  BY <1>1, LoopRounds
<1> DEFINE P == {s \in SUBSET (1..n) : UpTo(h[s], Cardinality(s))}
<1>5. {} \in P
  <2>1. h[{}] = <<0, 1>>
    BY <1>4 DEF RoundByRound
  <2>2. Cardinality({}) = 0
    BY FS_EmptySet
  <2> QED BY <2>1, <2>2 DEF UpTo
<1>6. ASSUME NEW s \in SUBSET (1..n), s # {}, s \ {Max(s)} \in P
      PROVE  s \in P
  <2>1. PICK x : x = Max(s)
    OBVIOUS
  <2>2. x \in s /\ x \in 1..n
    BY <1>6, <2>1, MaxOfPlaces
  <2>3. h[s] = <<h[s \ {x}][1] * f[x][2] + f[x][1] * h[s \ {x}][2], h[s \ {x}][2] * f[x][2]>>
    BY <1>1, <1>4, <1>6, <2>1 DEF RoundByRound
  <2>4. IsFiniteSet(s)
    <3>1. IsFiniteSet(1..n)
      BY FS_Interval
    <3> QED BY <3>1, FS_Subset
  <2>5. Cardinality(s \ {x}) \in Nat /\ Cardinality(s) = Cardinality(s \ {x}) + 1
    BY <2>2, <2>4, OneLess
  <2>6. UpTo(h[s \ {x}], Cardinality(s \ {x})) /\ f[x] \in Parts
    BY <1>6, <2>1, <2>2
  <2>7. UpTo(h[s], Cardinality(s))
    BY <2>3, <2>5, <2>6, PartsAdd
  <2> QED BY <2>7
<1>7. 1..n \in P
  <2> HIDE DEF P
  <2> QED BY <1>5, <1>6, FoldInduction
<1>8. Cardinality(1..n) = n
  BY FS_Interval
<1> QED BY <1>1, <1>7, <1>8

\* What is not less than a fraction, nor that than a third, is not less than the third
LEMMA NotLessTransitive ==
  ASSUME NEW x \in Parts, NEW y \in Parts, NEW z \in Parts, ~Less(y, x), ~Less(z, y)
  PROVE  ~Less(z, x)
<1>1. /\ x[1] \in Nat /\ x[2] \in Nat /\ x[2] > 0
      /\ y[1] \in Nat /\ y[2] \in Nat /\ y[2] > 0
      /\ z[1] \in Nat /\ z[2] \in Nat /\ z[2] > 0
  BY DEF Parts
<1>2. x[1] * y[2] <= y[1] * x[2] /\ y[1] * z[2] <= z[1] * y[2]
  BY <1>1 DEF Less
<1>3. ASSUME NEW p \in Nat, NEW q \in Nat, NEW r \in Nat, NEW s \in Nat, NEW t \in Nat, NEW u \in Nat,
             q > 0, s > 0, u > 0, p * s <= r * q, r * u <= t * s
      PROVE  p * u <= t * q
  <2>1. (p * s) * u <= (r * q) * u
    BY <1>3
  <2>2. (r * u) * q <= (t * s) * q
    BY <1>3
  <2>3. (p * u) * s <= (t * q) * s
    BY <2>1, <2>2
  <2>4. p * u \in Nat /\ t * q \in Nat
    OBVIOUS
  <2>5. ASSUME NEW v \in Nat, NEW w \in Nat, v * s <= w * s
        PROVE  v <= w
    BY <1>3, <2>5
  <2> QED BY <2>3, <2>4, <2>5
<1>4. x[1] * z[2] <= z[1] * x[2]
  BY <1>1, <1>2, <1>3
<1> QED BY <1>1, <1>4 DEF Less

\* Of frequencies at places, one is least
LEMMA LeastOfParts ==
  ASSUME NEW n \in Nat, n > 0, NEW f \in [1..n -> Parts]
  PROVE  \E i \in 1..n : \A j \in 1..n : ~Less(f[j], f[i])
<1> DEFINE S == {k \in Nat : k \in 1..n => \E i \in 1..k : \A j \in 1..k : ~Less(f[j], f[i])}
<1>1. \A i \in 1..n : f[i] \in Parts /\ ~Less(f[i], f[i])
  BY DEF Parts, Less
<1>2. 0 \in S
  OBVIOUS
<1>3. ASSUME NEW k \in Nat, k < n, k \in S
      PROVE  k + 1 \in S
  <2>1. CASE k = 0
    <3>1. \A j \in 1..1 : j = 1
      OBVIOUS
    <3> QED BY <1>1, <1>3, <2>1, <3>1
  <2>2. CASE k # 0
    <3>1. PICK i \in 1..k : \A j \in 1..k : ~Less(f[j], f[i])
      BY <1>3, <2>2
    <3>2. i \in 1..(k + 1) /\ k + 1 \in 1..(k + 1) /\ i \in 1..n /\ k + 1 \in 1..n
      BY <1>3
    <3>3. \A j \in 1..(k + 1) : j \in 1..k \/ j = k + 1
      OBVIOUS
    <3>4. CASE Less(f[k + 1], f[i])
      <4>1. ~Less(f[i], f[k + 1])
        BY <1>1, <3>2, <3>4 DEF Less, Parts
      <4>2. \A j \in 1..k : j \in 1..n
        BY <1>3
      <4>3. \A j \in 1..k : ~Less(f[j], f[k + 1])
        BY <1>1, <3>1, <3>2, <4>1, <4>2, NotLessTransitive
      <4>4. \A j \in 1..(k + 1) : ~Less(f[j], f[k + 1])
        BY <1>1, <3>2, <3>3, <4>3
      <4> QED BY <3>2, <4>4
    <3>5. CASE ~Less(f[k + 1], f[i])
      <4>1. \A j \in 1..(k + 1) : ~Less(f[j], f[i])
        BY <3>1, <3>3, <3>5
      <4> QED BY <3>2, <4>1
    <3> QED BY <3>4, <3>5
  <2> QED BY <2>1, <2>2
<1>4. 0..n \subseteq S
  <2> HIDE DEF S
  <2> QED BY <1>2, <1>3, PrefixInduction
<1>5. n \in S
  <2>1. n \in 0..n
    OBVIOUS
  <2> HIDE DEF S
  <2> QED BY <1>4, <2>1
<1> QED BY <1>5

\* A fraction of at most one
AtMostOne(s) == s[1] \in Nat /\ s[2] \in Nat /\ s[1] <= s[2]

\* However frequencies are aggregated, the outcome is at most one
LEMMA AggregateBounded ==
  ASSUME NEW n \in Nat, n > 0, NEW f \in [1..n -> Parts]
  PROVE  AtMostOne(Aggregate(f))
<1>1. CASE Aggregation = "ArithmeticMean"
  <2>1. Len(f) = n
    OBVIOUS
  <2>2. Aggregate(f) = <<FractionSum(f)[1], n * FractionSum(f)[2]>>
    BY <1>1, <2>1 DEF Aggregate
  <2>3. PICK a, b : a = FractionSum(f)[1] /\ b = FractionSum(f)[2]
    OBVIOUS
  <2>4. a \in Nat /\ b \in Nat /\ a <= n * b
    BY <2>3, SumOfParts DEF UpTo
  <2>5. n * b \in Nat
    BY <2>4
  <2> QED BY <2>2, <2>3, <2>4, <2>5 DEF AtMostOne
<1>2. CASE Aggregation = "Min"
  <2>1. PICK i \in 1..n : \A j \in 1..n : ~Less(f[j], f[i])
    BY LeastOfParts
  <2>2. \E m \in ToSet(f) : \A x \in ToSet(f) : ~Less(x, m)
    BY <2>1 DEF ToSet
  <2>3. Aggregate(f) = CHOOSE m \in ToSet(f) : \A x \in ToSet(f) : ~Less(x, m)
    BY <1>2 DEF Aggregate
  <2>4. Aggregate(f) \in ToSet(f)
    BY <2>2, <2>3
  <2>5. Aggregate(f) \in Parts
    BY <2>4 DEF ToSet
  <2> QED BY <2>5 DEF Parts, AtMostOne
<1>3. CASE Aggregation \in {"TfIdf", "GeometricMean"}
  <2>1. Aggregate(f) = Product(f)
    BY <1>3 DEF Aggregate
  <2>2. Product(f) \in Parts
    BY ProductOfParts
  <2> QED BY <2>1, <2>2 DEF Parts, AtMostOne
<1> QED BY <1>1, <1>2, <1>3, ScorerAssumption

\* Attenuation keeps it at most one
LEMMA AttenuatedBounded ==
  ASSUME NEW t, t.total_matches \in Nat, NEW s, AtMostOne(s)
  PROVE  AtMostOne(Attenuated(t, s))
<1>1. PICK m \in Nat : m = t.total_matches
  OBVIOUS
<1>2. PICK a \in Nat, b \in Nat : a = s[1] /\ b = s[2] /\ a <= b
  BY DEF AtMostOne
<1>3. Attenuated(t, s) = <<b + m * a, (m + 1) * b>>
  BY <1>1, <1>2 DEF Attenuated
<1>4. b + m * a \in Nat /\ (m + 1) * b \in Nat /\ b + m * a <= (m + 1) * b
  <2>1. m * a <= m * b
    BY <1>2
  <2>2. (m + 1) * b = m * b + b
    OBVIOUS
  <2> QED BY <2>1, <2>2
<1> QED BY <1>3, <1>4 DEF AtMostOne

\* The properties that are scored, some when some are listed
LEMMA UniqueFacts ==
  ASSUME NEW T, NEW props \in Seq(T)
  PROVE  /\ Unique(props) \in Seq(T)
         /\ props # << >> => Unique(props) # << >>
<1>1. PICK n \in Nat : n = Len(props) /\ DOMAIN props = 1..n /\ \A i \in 1..n : props[i] \in T
  OBVIOUS
<1>2. PICK h, a, e : /\ e = << >> /\ Loop(h, SUBSET (1..n), e, a)
                     /\ AddsNew(a, props)
                     /\ Unique(props) = h[1..n]
  BY <1>1, UniqueRounds
<1>3. ASSUME NEW i \in 1..n, NEW y \in Seq(T)
      PROVE  RoundOf(a, i, y) \in Seq(T) /\ RoundOf(a, i, y) # << >>
  <2>1. props[i] \in T
    BY <1>1
  <2>2. CASE Contains(y, props[i])
    <3>1. y # << >>
      BY <2>2 DEF Contains
    <3> QED BY <1>2, <2>2, <3>1 DEF AddsNew
  <2>3. CASE ~Contains(y, props[i])
    <3>1. Append(y, props[i]) \in Seq(T) /\ Append(y, props[i]) # << >>
      BY <2>1
    <3> QED BY <1>2, <2>3, <3>1 DEF AddsNew
  <2> QED BY <2>2, <2>3
<1>4. PICK S : S = Seq(T)
  OBVIOUS
<1>5. Keeps(a, n, S)
  BY <1>3, <1>4 DEF Keeps
<1>6. e \in S /\ Loop(h, SUBSET (1..n), e, a)
  BY <1>2, <1>4
<1>7. EndsIn(h, n, a, S)
  BY ONLY n \in Nat, <1>5, <1>6, LoopKeeps
<1>8. props # << >> => n > 0
  BY <1>1
<1> QED BY <1>2, <1>3, <1>4, <1>7, <1>8 DEF EndsIn

-----------------------------------------------------------------------------
(* Tables and the frequencies they give *)

\* A table's books: nothing was seen oftener than matches, and no pair oftener
\* than either of the two
WellKept(t) ==
  /\ t.total_matches \in Nat
  /\ IsFiniteSet(DOMAIN t.property_counts)
  /\ \A p \in DOMAIN t.property_counts :
       t.property_counts[p] \in Nat /\ t.property_counts[p] <= t.total_matches
  /\ \A k \in DOMAIN t.pair_counts :
       /\ t.pair_counts[k] \in Nat /\ k \subseteq DOMAIN t.property_counts
       /\ \A p \in k : t.pair_counts[k] <= t.property_counts[p]

\* Smoothed, whether or not the property was seen
LEMMA FrequencyIsPart ==
  ASSUME NEW t, WellKept(t), t.total_matches > 0, NEW p
  PROVE  Frequency(t, p) \in Parts
<1> DEFINE D == DOMAIN t.property_counts
<1>1. IsFiniteSet(D) /\ Cardinality(D) \in Nat
  BY FS_CardinalityType DEF WellKept
<1>2. PICK m \in Nat : m = t.total_matches /\ m > 0
  BY DEF WellKept
<1>3. At(t.property_counts, p, 0) \in Nat /\ At(t.property_counts, p, 0) + 1 <= m + Cardinality(D)
  <2>1. CASE p \in D
    <3>1. D # {}
      BY <2>1
    <3>2. Cardinality(D) > 0
      BY <1>1, <3>1, FS_EmptySet
    <3>3. t.property_counts[p] \in Nat /\ t.property_counts[p] <= m
      BY <1>2, <2>1 DEF WellKept
    <3>4. At(t.property_counts, p, 0) = t.property_counts[p]
      BY <2>1 DEF At
    <3> HIDE DEF D
    <3> QED BY <1>1, <3>2, <3>3, <3>4
  <2>2. CASE p \notin D
    <3>1. At(t.property_counts, p, 0) = 0
      BY <2>2 DEF At
    <3> QED BY <1>1, <1>2, <3>1
  <2> QED BY <2>1, <2>2
<1>4. PICK a \in Nat, c \in Nat : a = At(t.property_counts, p, 0) /\ c = Cardinality(D)
  BY <1>1, <1>3
<1>5. Frequency(t, p) = <<a + 1, m + c>>
  BY <1>2, <1>4 DEF Frequency
<1>6. a + 1 <= m + c
  BY <1>3, <1>4
<1> QED BY <1>2, <1>5, <1>6 DEF Parts

\* What one property says of a correlated one, as a frequency, is not less than
\* the smoothed frequency of that
LEMMA CorrectionRaises ==
  ASSUME NEW t, WellKept(t), t.total_matches > 0, NEW p, NEW q, Correlated(t, p, q)
  PROVE  /\ <<t.pair_counts[{p, q}], t.property_counts[q]>> \in Parts
         /\ ~Less(<<t.pair_counts[{p, q}], t.property_counts[q]>>, Frequency(t, p))
<1> DEFINE D == DOMAIN t.property_counts
<1>1. {p, q} \in DOMAIN t.pair_counts /\ t.pair_counts[{p, q}] > 0
  BY DEF Correlated, At
<1>2. /\ t.pair_counts[{p, q}] \in Nat /\ p \in D /\ q \in D
      /\ t.pair_counts[{p, q}] <= t.property_counts[p]
      /\ t.pair_counts[{p, q}] <= t.property_counts[q]
  BY <1>1 DEF WellKept
<1>3. PICK c \in Nat : c = Cardinality(D)
  BY FS_CardinalityType DEF WellKept
<1>4. PICK a \in Nat, b \in Nat, m \in Nat, k \in Nat :
        /\ a = t.property_counts[p] /\ b = t.property_counts[q] /\ m = t.total_matches
        /\ k = t.pair_counts[{p, q}]
  BY <1>2 DEF WellKept
<1>5. k > 0 /\ k <= a /\ k <= b /\ k * m > 2 * a * b
  BY <1>1, <1>2, <1>4 DEF Correlated
<1>6. Frequency(t, p) = <<a + 1, m + c>>
  BY <1>2, <1>3, <1>4 DEF Frequency, At
<1>7. (a + 1) * b <= k * (m + c)
  <2>1. b <= a * b
    BY <1>5
  <2>2. k * (m + c) = k * m + k * c
    OBVIOUS
  <2>3. (a + 1) * b = a * b + b /\ 2 * a * b = a * b + a * b
    OBVIOUS
  <2>4. k * c \in Nat /\ k * m \in Nat /\ a * b \in Nat
    OBVIOUS
  <2> QED BY <1>5, <2>1, <2>2, <2>3, <2>4
<1>8. <<k, b>> \in Parts
  BY <1>5 DEF Parts
<1>9. ~Less(<<k, b>>, <<a + 1, m + c>>)
  <2>1. Less(<<k, b>>, <<a + 1, m + c>>) <=> k * (m + c) < (a + 1) * b
    BY DEF Less
  <2>2. k * (m + c) \in Nat /\ (a + 1) * b \in Nat
    OBVIOUS
  <2> QED BY <1>7, <2>1, <2>2
<1> QED BY <1>4, <1>6, <1>8, <1>9

\* Frequencies none of which is less than the smoothed one of its property
NoneBelow(t, props, n) ==
  {f \in [1..n -> Parts] : \A i \in 1..n : ~Less(f[i], Frequency(t, props[i]))}

\* A correlated pair is corrected upwards
LEMMA CorrectPairKeeps ==
  ASSUME NEW t, WellKept(t), t.total_matches > 0, NEW n \in Nat, NEW props,
         NEW f \in NoneBelow(t, props, n), NEW i \in 1..n, NEW j \in 1..n
  PROVE  CorrectPair(t, props, f, i, j) \in NoneBelow(t, props, n)
<1> DEFINE a == props[i]
           b == props[j]
           x == <<t.pair_counts[{a, b}], t.property_counts[b]>>
           y == <<t.pair_counts[{a, b}], t.property_counts[a]>>
<1>1. f \in [1..n -> Parts] /\ \A k \in 1..n : ~Less(f[k], Frequency(t, props[k]))
  BY DEF NoneBelow
<1>2. /\ Correlated(t, a, b) => x \in Parts /\ ~Less(x, Frequency(t, a))
      /\ Correlated(t, a, b) => y \in Parts /\ ~Less(y, Frequency(t, b))
  <2>1. {a, b} = {b, a}
    OBVIOUS
  <2>2. Correlated(t, a, b) => Correlated(t, b, a)
    <3> SUFFICES ASSUME Correlated(t, a, b) PROVE Correlated(t, b, a)
      OBVIOUS
    <3>2. {a, b} \in DOMAIN t.pair_counts
      BY DEF Correlated, At
    <3>3. t.property_counts[a] \in Nat /\ t.property_counts[b] \in Nat
      BY <3>2 DEF WellKept
    <3>4. PICK u \in Nat, v \in Nat : u = t.property_counts[a] /\ v = t.property_counts[b]
      BY <3>3
    <3>5. 2 * u * v = 2 * v * u
      OBVIOUS
    <3>6. PICK p : p = {a, b} /\ p = {b, a}
      BY <2>1
    <3>7. At(t.pair_counts, p, 0) > 0 /\ t.pair_counts[p] * t.total_matches > 2 * u * v
      BY <3>4, <3>6 DEF Correlated
    <3> HIDE DEF a, b
    <3>8. At(t.pair_counts, p, 0) > 0 /\ t.pair_counts[p] * t.total_matches > 2 * v * u
      BY ONLY <3>5, <3>7
    <3> QED BY <3>4, <3>6, <3>8 DEF Correlated
  <2>3. Correlated(t, b, a) => /\ <<t.pair_counts[{b, a}], t.property_counts[a]>> \in Parts
                               /\ ~Less(<<t.pair_counts[{b, a}], t.property_counts[a]>>, Frequency(t, b))
    BY CorrectionRaises
  <2>4. Correlated(t, a, b) => x \in Parts /\ ~Less(x, Frequency(t, a))
    BY CorrectionRaises
  <2> HIDE DEF a, b
  <2> QED BY <2>1, <2>2, <2>3, <2>4
<1>3. \/ CorrectPair(t, props, f, i, j) = f
      \/ Correlated(t, a, b) /\ CorrectPair(t, props, f, i, j) = [f EXCEPT ![i] = x]
      \/ Correlated(t, a, b) /\ CorrectPair(t, props, f, i, j) = [f EXCEPT ![j] = y]
  BY DEF CorrectPair
<1> HIDE DEF x, y, NoneBelow
<1>4. ASSUME NEW l \in 1..n, NEW z \in Parts, ~Less(z, Frequency(t, props[l]))
      PROVE  [f EXCEPT ![l] = z] \in NoneBelow(t, props, n)
  <2> DEFINE g == [f EXCEPT ![l] = z]
  <2>1. g \in [1..n -> Parts] /\ g[l] = z /\ \A k \in 1..n : k # l => g[k] = f[k]
    BY <1>1
  <2> HIDE DEF g
  <2>2. \A k \in 1..n : ~Less(g[k], Frequency(t, props[k]))
    BY <1>1, <1>4, <2>1
  <2>3. g \in NoneBelow(t, props, n)
    BY <2>1, <2>2 DEF NoneBelow
  <2> QED BY <2>3 DEF g
<1> QED BY <1>2, <1>3, <1>4

\* The row of a property keeps it so
LEMMA CorrectedRowKeeps ==
  ASSUME NEW t, WellKept(t), t.total_matches > 0, NEW n \in Nat, NEW props, DOMAIN props = 1..n,
         NEW f \in NoneBelow(t, props, n), NEW i \in 1..n
  PROVE  CorrectedRow(t, props, f, i) \in NoneBelow(t, props, n)
<1>1. PICK h, a : /\ Loop(h, SUBSET (1..n), f, a)
                  /\ CorrectsRow(a, t, props, i)
                  /\ CorrectedRow(t, props, f, i) = h[1..n]
  <2>1. RowIsLoop(n, t, props, f, i)
    BY RowRounds
  <2> QED BY <2>1 DEF RowIsLoop
<1>2. PICK S : S = NoneBelow(t, props, n)
  OBVIOUS
<1>3. Keeps(a, n, S)
  BY <1>1, <1>2, CorrectPairKeeps DEF Keeps, CorrectsRow
<1>4. EndsIn(h, n, a, S)
  BY <1>1, <1>2, <1>3, LoopKeeps
<1> QED BY <1>1, <1>2, <1>4 DEF EndsIn

\* Correction makes nothing rarer, and needs no clamping
LEMMA CorrectedKeeps ==
  ASSUME NEW t, WellKept(t), t.total_matches > 0, NEW n \in Nat, NEW props, DOMAIN props = 1..n
  PROVE  CorrectedFrequencies(t, props) \in NoneBelow(t, props, n)
<1>1. Frequencies(t, props) \in NoneBelow(t, props, n)
  <2>1. ASSUME NEW i \in 1..n
        PROVE  Frequency(t, props[i]) \in Parts /\ ~Less(Frequency(t, props[i]), Frequency(t, props[i]))
    <3>1. PICK x \in Parts : x = Frequency(t, props[i])
      BY FrequencyIsPart
    <3> QED BY <3>1 DEF Less, Parts
  <2> HIDE DEF Parts
  <2> QED BY <2>1, Zenon DEF Frequencies, NoneBelow
<1>2. CASE PmiCorrection
  <2>1. PICK h, a, f : /\ f = Frequencies(t, props) /\ Loop(h, SUBSET (1..n), f, a)
                       /\ \A j, y : RoundOf(a, j, y) = CorrectedRow(t, props, y, j)
                       /\ CorrectedFrequencies(t, props) = h[1..n]
    BY <1>2, RowsRounds
  <2>2. PICK S : S = NoneBelow(t, props, n)
    OBVIOUS
  <2>3. Keeps(a, n, S)
    BY <2>1, <2>2, CorrectedRowKeeps DEF Keeps
  <2>4. f \in S
    BY <1>1, <2>1, <2>2
  <2>5. EndsIn(h, n, a, S)
    BY <2>1, <2>3, <2>4, LoopKeeps
  <2> QED BY <2>1, <2>2, <2>5 DEF EndsIn
<1>3. CASE ~PmiCorrection
  BY <1>1, <1>3 DEF CorrectedFrequencies
<1> QED BY <1>2, <1>3

\* OneMore counts presence
LEMMA OneMoreFacts ==
  ASSUME NEW f, NEW S
  PROVE  /\ DOMAIN OneMore(f, S) = DOMAIN f \cup S
         /\ \A k : At(OneMore(f, S), k, 0) = (IF k \in S THEN At(f, k, 0) + 1
                                              ELSE IF k \in DOMAIN f THEN f[k] + 0 ELSE 0)
<1> DEFINE g == OneMore(f, S)
<1>1. DOMAIN g = DOMAIN f \cup S
  BY DEF OneMore
<1>2. \A k \in DOMAIN f \cup S : g[k] = At(f, k, 0) + (IF k \in S THEN 1 ELSE 0)
  BY DEF OneMore
<1> HIDE DEF g
<1>3. \A k : At(g, k, 0) = (IF k \in S THEN At(f, k, 0) + 1
                            ELSE IF k \in DOMAIN f THEN f[k] + 0 ELSE 0)
  BY <1>1, <1>2 DEF At
<1> QED BY <1>1, <1>3 DEF g

\* A match keeps a table's books
LEMMA ObservedKept ==
  ASSUME NEW t, WellKept(t), NEW T, NEW props \in Seq(T), NEW pairs \in SUBSET (SUBSET ToSet(props))
  PROVE  /\ WellKept(Observed(t, props, pairs))
         /\ Observed(t, props, pairs).total_matches = t.total_matches + 1
         /\ \A p : At(Observed(t, props, pairs).property_counts, p, 0)
                     = At(t.property_counts, p, 0) + (IF p \in ToSet(props) THEN 1 ELSE 0)
<1> DEFINE S == ToSet(props)
           o == Observed(t, props, pairs)
           pc == t.property_counts
           qc == OneMore(pc, S)
           pr == t.pair_counts
           qr == OneMore(pr, pairs)
<1>1. o.total_matches = t.total_matches + 1 /\ o.property_counts = qc /\ o.pair_counts = qr
  BY DEF Observed
<1>2. PICK m \in Nat : m = t.total_matches
  BY DEF WellKept
<1>3. /\ IsFiniteSet(DOMAIN pc) /\ \A p \in DOMAIN pc : pc[p] \in Nat /\ pc[p] <= m
      /\ \A k \in DOMAIN pr : /\ pr[k] \in Nat /\ k \subseteq DOMAIN pc
                              /\ \A p \in k : pr[k] <= pc[p]
  BY <1>2 DEF WellKept
<1>4. IsFiniteSet(S)
  <2>1. PICK n \in Nat : DOMAIN props = 1..n
    OBVIOUS
  <2>2. IsFiniteSet(1..n)
    BY FS_Interval
  <2>3. props \in [1..n -> S]
    BY <2>1 DEF ToSet
  <2>4. props \in Surjection(1..n, S)
    BY <2>1, <2>3 DEF Surjection, ToSet
  <2> HIDE DEF S
  <2> QED BY <2>2, <2>4, FS_Surjection
<1>5. pairs \in SUBSET (SUBSET S)
  OBVIOUS
<1> HIDE DEF S, o, pc, pr
<1>6. /\ DOMAIN qc = DOMAIN pc \cup S
      /\ \A k : At(qc, k, 0) = (IF k \in S THEN At(pc, k, 0) + 1 ELSE IF k \in DOMAIN pc THEN pc[k] + 0 ELSE 0)
  BY OneMoreFacts
<1>7. /\ DOMAIN qr = DOMAIN pr \cup pairs
      /\ \A k : At(qr, k, 0) = (IF k \in pairs THEN At(pr, k, 0) + 1 ELSE IF k \in DOMAIN pr THEN pr[k] + 0 ELSE 0)
  BY OneMoreFacts
<1> HIDE DEF qc, qr
<1>8. \A p : At(pc, p, 0) \in Nat /\ At(pc, p, 0) <= m
  BY <1>2, <1>3 DEF At
<1>9. \A p : At(qc, p, 0) = At(pc, p, 0) + (IF p \in S THEN 1 ELSE 0)
  <2>1. \A p : p \in DOMAIN pc => pc[p] = At(pc, p, 0)
    BY DEF At
  <2>2. \A p : p \notin DOMAIN pc => At(pc, p, 0) = 0
    BY DEF At
  <2> QED BY <1>6, <1>8, <2>1, <2>2
<1>10. IsFiniteSet(DOMAIN qc)
  <2>1. PICK A : A = DOMAIN pc
    OBVIOUS
  <2>2. IsFiniteSet(A) /\ IsFiniteSet(S)
    BY <1>3, <1>4, <2>1
  <2>3. IsFiniteSet(A \cup S)
    BY ONLY <2>2, FS_Union
  <2> QED BY <1>6, <2>1, <2>3
<1>11. \A p \in DOMAIN qc : qc[p] = At(qc, p, 0)
  BY DEF At
<1>12. \A p \in DOMAIN qc : qc[p] \in Nat /\ qc[p] <= m + 1
  BY <1>8, <1>9, <1>11
<1>13. ASSUME NEW k \in DOMAIN qr
       PROVE  /\ qr[k] \in Nat /\ k \subseteq DOMAIN qc
              /\ \A p \in k : qr[k] <= qc[p]
  <2>1. qr[k] = At(qr, k, 0)
    BY <1>13 DEF At
  <2>2. k \in pairs => k \subseteq S
    BY <1>5
  <2>3. k \in DOMAIN pr => pr[k] = At(pr, k, 0)
    BY DEF At
  <2>4. k \notin DOMAIN pr => At(pr, k, 0) = 0
    BY DEF At
  <2>5. At(pr, k, 0) \in Nat /\ (k \in DOMAIN pr => k \subseteq DOMAIN pc)
    BY <1>3, <2>3, <2>4
  <2>6. \A p \in k : At(pr, k, 0) <= At(pc, p, 0)
    BY <1>3, <1>8, <2>3, <2>4 DEF At
  <2>7. qr[k] \in Nat /\ k \subseteq DOMAIN qc
    BY <1>6, <1>7, <1>13, <2>1, <2>2, <2>3, <2>5
  <2>8. ASSUME NEW p \in k
        PROVE  qr[k] <= qc[p]
    <3>1. qc[p] = At(pc, p, 0) + (IF p \in S THEN 1 ELSE 0)
      BY <1>9, <1>11, <2>7
    <3>2. qr[k] = At(pr, k, 0) + (IF k \in pairs THEN 1 ELSE 0)
      BY <1>7, <1>13, <2>1, <2>3, <2>5
    <3>3. k \in pairs => p \in S
      BY <2>2
    <3>4. At(pr, k, 0) <= At(pc, p, 0) /\ At(pr, k, 0) \in Nat /\ At(pc, p, 0) \in Nat
      BY <1>8, <2>5, <2>6
    <3> QED BY <3>1, <3>2, <3>3, <3>4
  <2> QED BY <2>7, <2>8
<1>14. WellKept(o)
  BY <1>1, <1>2, <1>10, <1>12, <1>13 DEF WellKept
<1> QED BY <1>1, <1>9, <1>14 DEF o, pc, S

-----------------------------------------------------------------------------
(* Both scorers beside each other *)

Roles(n)        == {k \in DOMAIN role_tables : k[1] = n}
Matches(n)      == [k \in Roles(n) |-> role_tables[k].total_matches]
Sightings(n, p) == [k \in Roles(n) |-> At(role_tables[k].property_counts, p, 0)]

\* A table's books are those of its roles, added up
SumOfRoles(n, t) ==
  /\ Total(Roles(n), Matches(n)) = t.total_matches
  /\ \A p : Total(Roles(n), Sightings(n, p)) = At(t.property_counts, p, 0)

InUse(t) == WellKept(t) /\ t.total_matches > 0

\* The tables of the two scorers are in use, well kept, and of the same matches
TablesInv ==
  /\ IsFiniteSet(DOMAIN role_tables)
  /\ \A n \in DOMAIN tables : InUse(tables[n]) /\ SumOfRoles(n, tables[n])
  /\ \A k \in DOMAIN role_tables : k[1] \in DOMAIN tables /\ InUse(role_tables[k])

\* The table of a pattern not yet seen
LEMMA NewIsKept == WellKept(NewTable) /\ NewTable.total_matches = 0 /\ \A p : At(NewTable.property_counts, p, 0) = 0
<1>1. DOMAIN NoneYet = {}
  BY DEF NoneYet
<1>2. NewTable.total_matches = 0 /\ NewTable.property_counts = NoneYet /\ NewTable.pair_counts = NoneYet
  BY DEF NewTable
<1>3. IsFiniteSet({})
  BY FS_EmptySet
<1> HIDE DEF NoneYet, NewTable
<1> QED BY <1>1, <1>2, <1>3 DEF WellKept, At

\* Nothing was counted of a pattern not yet seen, in any role
LEMMA RolesBefore ==
  ASSUME TablesInv, NEW n
  PROVE  WellKept(At(tables, n, NewTable)) /\ SumOfRoles(n, At(tables, n, NewTable))
<1>1. CASE n \in DOMAIN tables
  BY <1>1 DEF TablesInv, InUse, At
<1>2. CASE n \notin DOMAIN tables
  <2>1. At(tables, n, NewTable) = NewTable
    BY <1>2 DEF At
  <2>2. Roles(n) = {}
    BY <1>2 DEF TablesInv, Roles
  <2>3. IsFiniteSet({})
    BY FS_EmptySet
  <2>4. \A w : Total({}, w) = 0
    <3> TAKE w
    <3>1. \A x \in {} : w[x] \in Int
      OBVIOUS
    <3> QED BY <2>3, <3>1, TotalFacts
  <2> QED BY <2>1, <2>2, <2>4, NewIsKept DEF SumOfRoles
<1> QED BY <1>1, <1>2

\* A role's table before the match
LEMMA RoleBefore ==
  ASSUME TablesInv, NEW k
  PROVE  WellKept(At(role_tables, k, NewTable))
<1>1. CASE k \in DOMAIN role_tables
  BY <1>1 DEF TablesInv, InUse, At
<1>2. CASE k \notin DOMAIN role_tables
  BY <1>2, NewIsKept DEF At
<1> QED BY <1>1, <1>2

\* A match keeps the books of both
LEMMA MatchKeepsTables ==
  ASSUME TablesInv, NEW n, NEW r, NEW T, NEW props \in Seq(T), ObserveMatch(n, r, props)
  PROVE  TablesInv'
<1> DEFINE key == <<n, r>>
           t == At(tables, n, NewTable)
           u == At(role_tables, key, NewTable)
           S == ToSet(props)
<1>1. PICK o : o = Observed(t, props, PairsOf(props))
  OBVIOUS
<1>2. PICK v : v = Observed(u, props, {})
  OBVIOUS
<1>3. /\ DOMAIN tables' = DOMAIN tables \cup {n} /\ tables'[n] = o
      /\ \A m \in DOMAIN tables : m # n => tables'[m] = tables[m]
  BY <1>1 DEF ObserveMatch, Updated
<1>4. /\ DOMAIN role_tables' = DOMAIN role_tables \cup {key} /\ role_tables'[key] = v
      /\ \A k \in DOMAIN role_tables : k # key => role_tables'[k] = role_tables[k]
  BY <1>2 DEF ObserveMatch, Updated
<1>5. key[1] = n
  OBVIOUS
<1>6. PairsOf(props) \in SUBSET (SUBSET S) /\ {} \in SUBSET (SUBSET S)
  BY DEF PairsOf, kSubset
<1>7. /\ WellKept(o) /\ o.total_matches = t.total_matches + 1
      /\ \A p : At(o.property_counts, p, 0) = At(t.property_counts, p, 0) + (IF p \in S THEN 1 ELSE 0)
  BY <1>1, <1>6, RolesBefore, ObservedKept
<1>8. /\ WellKept(v) /\ v.total_matches = u.total_matches + 1
      /\ \A p : At(v.property_counts, p, 0) = At(u.property_counts, p, 0) + (IF p \in S THEN 1 ELSE 0)
  BY <1>2, <1>6, RoleBefore, ObservedKept
<1>9. SumOfRoles(n, t) /\ WellKept(t) /\ WellKept(u)
  BY RolesBefore, RoleBefore
<1>10. key \notin DOMAIN role_tables => u.total_matches = 0 /\ \A p : At(u.property_counts, p, 0) = 0
  BY NewIsKept DEF At
<1>11. key \in DOMAIN role_tables => u = role_tables[key]
  BY DEF At
<1>12. IsFiniteSet(DOMAIN role_tables) /\ IsFiniteSet(DOMAIN role_tables')
  <2>1. PICK A : A = DOMAIN role_tables
    OBVIOUS
  <2>2. IsFiniteSet(A)
    BY <2>1 DEF TablesInv
  <2>3. IsFiniteSet(A \cup {key})
    BY <2>2, FS_AddElement
  <2> QED BY <1>4, <2>1, <2>2, <2>3
<1> HIDE DEF key, t, u, S
<1>13. InUse(o) /\ InUse(v)
  <2>1. t.total_matches \in Nat /\ u.total_matches \in Nat
    BY <1>9 DEF WellKept
  <2> QED BY <1>7, <1>8, <2>1 DEF InUse
<1>14. \A k \in DOMAIN role_tables' : k[1] \in DOMAIN tables' /\ InUse(role_tables'[k])
  BY <1>3, <1>4, <1>5, <1>13 DEF TablesInv
<1>15. \A m : IsFiniteSet(Roles(m))
  BY <1>12, FS_Subset DEF Roles
<1>16. ASSUME NEW m \in DOMAIN tables, m # n
       PROVE  InUse(tables'[m]) /\ SumOfRoles(m, tables[m])'
  <2>1. Roles(m)' = Roles(m)
    BY <1>4, <1>5, <1>16 DEF Roles
  <2>2. \A k \in Roles(m) : role_tables'[k] = role_tables[k]
    BY <1>4, <1>5, <1>16 DEF Roles
  <2>3. Matches(m)' = Matches(m) /\ \A p : Sightings(m, p)' = Sightings(m, p)
    BY <2>1, <2>2 DEF Matches, Sightings
  <2>4. tables'[m] = tables[m]
    BY <1>3, <1>16
  <2>5. InUse(tables[m]) /\ SumOfRoles(m, tables[m])
    BY <1>16 DEF TablesInv
  <2> QED BY <2>1, <2>3, <2>4, <2>5 DEF SumOfRoles
<1>17. SumOfRoles(n, tables[n])'
  <2>1. PICK R : R = Roles(n) /\ IsFiniteSet(R)
    BY <1>15
  <2>2. Roles(n)' = R \cup {key}
    BY <1>4, <1>5, <2>1 DEF Roles
  <2>3. key \in R <=> key \in DOMAIN role_tables
    BY <1>5, <2>1 DEF Roles
  <2>4. \A k \in R \ {key} : role_tables'[k] = role_tables[k]
    BY <1>4, <2>1 DEF Roles
  <2>5. \A k \in R : WellKept(role_tables[k])
    BY <2>1 DEF Roles, TablesInv, InUse
  <2>6. Total(R \cup {key}, Matches(n)') = Total(R, Matches(n)) + 1
    <3>1. \A k \in R : Matches(n)[k] \in Nat
      BY <2>1, <2>5 DEF Matches, WellKept
    <3>2. \A k \in R \ {key} : Matches(n)'[k] = Matches(n)[k]
      BY <2>1, <2>2, <2>4 DEF Matches
    <3>3. Matches(n)'[key] = v.total_matches
      BY <1>4, <2>2 DEF Matches
    <3>4. key \in R => Matches(n)[key] = u.total_matches
      BY <1>11, <2>1, <2>3 DEF Matches
    <3>5. Matches(n)'[key] = (IF key \in R THEN Matches(n)[key] ELSE 0) + 1
      BY <1>8, <1>10, <2>3, <3>3, <3>4
    <3>6. PICK x, y : x = Matches(n) /\ y = Matches(n)'
      OBVIOUS
    <3>7. Total(R \cup {key}, y) = Total(R, x) + 1
      BY <2>1, <3>1, <3>2, <3>5, <3>6, TotalGrows
    <3> QED BY <3>6, <3>7
  <2>7. ASSUME NEW p
        PROVE  Total(R \cup {key}, Sightings(n, p)') = Total(R, Sightings(n, p)) + (IF p \in S THEN 1 ELSE 0)
    <3>1. \A k \in R : Sightings(n, p)[k] \in Nat
      BY <2>1, <2>5 DEF Sightings, WellKept, At
    <3>2. \A k \in R \ {key} : Sightings(n, p)'[k] = Sightings(n, p)[k]
      BY <2>1, <2>2, <2>4 DEF Sightings
    <3>3. Sightings(n, p)'[key] = At(v.property_counts, p, 0)
      BY <1>4, <2>2 DEF Sightings
    <3>4. key \in R => Sightings(n, p)[key] = At(u.property_counts, p, 0)
      BY <1>11, <2>1, <2>3 DEF Sightings
    <3>5. PICK d \in Nat : d = IF p \in S THEN 1 ELSE 0
      OBVIOUS
    <3>6. Sightings(n, p)'[key] = (IF key \in R THEN Sightings(n, p)[key] ELSE 0) + d
      BY <1>8, <1>10, <2>3, <3>3, <3>4, <3>5
    <3>7. PICK x, y : x = Sightings(n, p) /\ y = Sightings(n, p)'
      OBVIOUS
    <3>8. /\ \A k \in R : x[k] \in Nat
          /\ \A k \in R \ {key} : y[k] = x[k]
          /\ y[key] = (IF key \in R THEN x[key] ELSE 0) + d
      BY <3>1, <3>2, <3>6, <3>7
    <3>9. Total(R \cup {key}, y) = Total(R, x) + d
      BY ONLY <2>1, <3>8, d \in Nat, TotalGrows
    <3> QED BY <3>5, <3>7, <3>9
  <2>8. /\ Total(R, Matches(n)) = t.total_matches
        /\ \A p : Total(R, Sightings(n, p)) = At(t.property_counts, p, 0)
    BY <1>9, <2>1 DEF SumOfRoles
  <2>9. /\ Total(Roles(n)', Matches(n)') = o.total_matches
        /\ \A p : Total(Roles(n)', Sightings(n, p)') = At(o.property_counts, p, 0)
    BY <1>7, <2>2, <2>6, <2>7, <2>8
  <2> QED BY <1>3, <2>9 DEF SumOfRoles
<1>18. \A m \in DOMAIN tables' : InUse(tables'[m]) /\ SumOfRoles(m, tables[m])'
  BY <1>3, <1>13, <1>16, <1>17
<1> QED BY <1>12, <1>14, <1>18 DEF TablesInv

\* Nothing counted yet
LEMMA TablesEmpty ==
  ASSUME NEW d, d = NoneYet
  PROVE  DOMAIN d = {}
BY DEF NoneYet

\* Every call of any observer
LEMMA TablesStep ==
  ASSUME TablesInv, [ObserversNext]_observers
  PROVE  TablesInv'
<1>1. ASSUME NEW m \in MatchFacts, ObserveMatch(m.pattern, m.role, m.props)
      PROVE  TablesInv'
  <2>1. PICK T, props : T = ToSet(m.props) /\ props = m.props /\ props \in Seq(T)
    BY ObserversAssumption
  <2>2. PICK n, r : n = m.pattern /\ r = m.role
    OBVIOUS
  <2>3. ObserveMatch(n, r, props)
    BY <1>1, <2>1, <2>2
  <2> QED BY <2>1, <2>3, MatchKeepsTables
<1>2. CASE ScorerReset
  <2>1. DOMAIN tables' = {} /\ DOMAIN role_tables' = {}
    BY <1>2, TablesEmpty DEF ScorerReset
  <2>2. IsFiniteSet({})
    BY FS_EmptySet
  <2> QED BY <2>1, <2>2 DEF TablesInv
<1>3. CASE tables' = tables /\ role_tables' = role_tables
  <2>1. \A n : /\ Roles(n)' = Roles(n) /\ Matches(n)' = Matches(n)
               /\ \A p : Sightings(n, p)' = Sightings(n, p)
    BY <1>3 DEF Roles, Matches, Sightings
  <2>2. \A n, t : SumOfRoles(n, t) => SumOfRoles(n, t)'
    BY <2>1 DEF SumOfRoles
  <2>3. \A n \in DOMAIN tables' : InUse(tables'[n]) /\ SumOfRoles(n, tables[n])'
    BY <1>3, <2>1 DEF TablesInv, SumOfRoles
  <2>4. /\ IsFiniteSet(DOMAIN role_tables')
        /\ \A k \in DOMAIN role_tables' : k[1] \in DOMAIN tables' /\ InUse(role_tables'[k])
    BY <1>3 DEF TablesInv
  <2> QED BY <2>3, <2>4 DEF TablesInv
<1>4. \/ \E m \in MatchFacts : ObserveMatch(m.pattern, m.role, m.props)
      \/ ScorerReset
      \/ tables' = tables /\ role_tables' = role_tables
  BY Zenon DEF ObserversNext, PropertiesNext, observers, scorerVars
<1> QED BY <1>1, <1>2, <1>3, <1>4

\* A pattern's table is the sum of the tables of its roles
LEMMA RolesLaw ==
  ASSUME TablesInv
  PROVE  RolesAddUp
<1>1. ASSUME NEW n \in DOMAIN tables
      PROVE  /\ Total(Roles(n), Matches(n)) = tables[n].total_matches
             /\ \A p \in DOMAIN tables[n].property_counts :
                  /\ Total(Roles(n), Sightings(n, p)) = tables[n].property_counts[p]
                  /\ tables[n].property_counts[p] <= tables[n].total_matches
                  /\ \A q \in DOMAIN tables[n].property_counts \ {p} :
                       At(tables[n].pair_counts, {p, q}, 0) <= tables[n].property_counts[p]
  <2>1. PICK t : t = tables[n]
    OBVIOUS
  <2>2. WellKept(t) /\ SumOfRoles(n, t)
    BY <2>1 DEF TablesInv, InUse
  <2>3. Total(Roles(n), Matches(n)) = t.total_matches
    BY <2>2 DEF SumOfRoles
  <2>4. ASSUME NEW p \in DOMAIN t.property_counts
        PROVE  /\ Total(Roles(n), Sightings(n, p)) = t.property_counts[p]
               /\ t.property_counts[p] \in Nat /\ t.property_counts[p] <= t.total_matches
    BY <2>2, <2>4 DEF SumOfRoles, WellKept, At
  <2>5. ASSUME NEW p \in DOMAIN t.property_counts, NEW q
        PROVE  At(t.pair_counts, {p, q}, 0) <= t.property_counts[p]
    <3>1. CASE {p, q} \in DOMAIN t.pair_counts
      <4>1. PICK k : k = {p, q}
        OBVIOUS
      <4>2. p \in k /\ k \in DOMAIN t.pair_counts
        BY <3>1, <4>1
      <4>3. At(t.pair_counts, k, 0) = t.pair_counts[k] /\ t.pair_counts[k] <= t.property_counts[p]
        BY <2>2, <4>2 DEF WellKept, At
      <4> QED BY <4>1, <4>3
    <3>2. CASE {p, q} \notin DOMAIN t.pair_counts
      <4>1. At(t.pair_counts, {p, q}, 0) = 0
        BY <3>2 DEF At
      <4> QED BY <2>4, <4>1
    <3> QED BY <3>1, <3>2
  <2> QED BY <2>1, <2>3, <2>4, <2>5
<1> QED BY <1>1, Zenon DEF RolesAddUp, Total, Roles, Matches, Sightings

\* The properties of a match, each once, are a sequence
LEMMA ScoredProperties ==
  ASSUME NEW m \in MatchFacts
  PROVE  \E n \in Nat : /\ DOMAIN Unique(m.props) = 1..n
                        /\ m.props # << >> => n > 0
<1>1. PICK T, props : T = ToSet(m.props) /\ props = m.props /\ props \in Seq(T)
  BY ObserversAssumption
<1>2. PICK u : u = Unique(props)
  OBVIOUS
<1>3. u \in Seq(T) /\ (props # << >> => u # << >>)
  BY <1>1, <1>2, UniqueFacts
<1>4. PICK n \in Nat : n = Len(u) /\ DOMAIN u = 1..n
  BY <1>3
<1>5. u # << >> => n > 0
  BY <1>3, <1>4
<1> QED BY <1>1, <1>2, <1>3, <1>4, <1>5

\* Correlated properties are not counted as two surprises
LEMMA PmiLaw ==
  ASSUME TablesInv
  PROVE  PmiNeverAddsSurprise
<1> SUFFICES ASSUME NEW n \in DOMAIN tables, NEW m \in MatchFacts,
                    NEW i \in DOMAIN Frequencies(tables[n], Unique(m.props))
             PROVE  /\ ~Less(CorrectedFrequencies(tables[n], Unique(m.props))[i],
                             Frequencies(tables[n], Unique(m.props))[i])
                    /\ ~Less(<<1, 1>>, CorrectedFrequencies(tables[n], Unique(m.props))[i])
  BY Zenon DEF PmiNeverAddsSurprise
<1>1. PICK t, u : t = tables[n] /\ u = Unique(m.props)
  OBVIOUS
<1>2. WellKept(t) /\ t.total_matches > 0
  BY <1>1 DEF TablesInv, InUse
<1>3. PICK k \in Nat : DOMAIN u = 1..k
  BY <1>1, ScoredProperties
<1>4. i \in 1..k /\ Frequencies(t, u)[i] = Frequency(t, u[i])
  BY <1>1, <1>3 DEF Frequencies
<1>5. PICK f : f = CorrectedFrequencies(t, u)
  OBVIOUS
<1>6. f \in NoneBelow(t, u, k)
  BY <1>2, <1>3, <1>5, CorrectedKeeps
<1>7. f[i] \in Parts /\ ~Less(f[i], Frequency(t, u[i]))
  BY <1>4, <1>6 DEF NoneBelow
<1>8. ~Less(<<1, 1>>, f[i])
  BY <1>7 DEF Parts, Less
<1> QED BY <1>1, <1>4, <1>5, <1>7, <1>8

\* What is at most one is not above the score of the unknown
LEMMA NotAbove ==
  ASSUME Aggregation # "TfIdf", NEW s, AtMostOne(s)
  PROVE  ~Less(Unobserved, s)
BY DEF Unobserved, AtMostOne, Less

\* No match scores above one about which nothing is known
LEMMA UnobservedLaw ==
  ASSUME TablesInv
  PROVE  NothingAboveUnobserved
<1> SUFFICES ASSUME NEW m \in MatchFacts, Aggregation # "TfIdf"
             PROVE  /\ ~Less(Unobserved, StuScore(m.pattern, m.props))
                    /\ ~Less(Unobserved, RoleScore(m.pattern, m.role, m.props))
  BY DEF NothingAboveUnobserved
<1>1. ~Less(Unobserved, Unobserved)
  BY DEF Unobserved, Less
<1>2. PICK u : u = Unique(m.props)
  OBVIOUS
<1>3. PICK n \in Nat : DOMAIN u = 1..n /\ (m.props # << >> => n > 0)
  BY <1>2, ScoredProperties
<1>4. ~Less(Unobserved, StuScore(m.pattern, m.props))
  <2>1. CASE m.props = << >> \/ m.pattern \notin DOMAIN tables
    BY <1>1, <2>1 DEF StuScore
  <2>2. CASE ~(m.props = << >> \/ m.pattern \notin DOMAIN tables)
    <3>1. PICK t, f : t = tables[m.pattern] /\ f = CorrectedFrequencies(t, u)
      OBVIOUS
    <3>2. StuScore(m.pattern, m.props) = Attenuated(t, Aggregate(f))
      BY <1>2, <2>2, <3>1 DEF StuScore
    <3>3. WellKept(t) /\ t.total_matches > 0 /\ t.total_matches \in Nat
      BY <2>2, <3>1 DEF TablesInv, InUse, WellKept
    <3>4. f \in NoneBelow(t, u, n)
      BY <1>3, <3>1, <3>3, CorrectedKeeps
    <3>5. f \in [1..n -> Parts] /\ n > 0
      BY <1>3, <2>2, <3>4 DEF NoneBelow
    <3>6. AtMostOne(Aggregate(f))
      BY <3>5, AggregateBounded
    <3>7. AtMostOne(Attenuated(t, Aggregate(f)))
      BY <3>3, <3>6, AttenuatedBounded
    <3> QED BY <3>2, <3>7, NotAbove
  <2> QED BY <2>1, <2>2
<1>5. ~Less(Unobserved, RoleScore(m.pattern, m.role, m.props))
  <2>1. CASE m.props = << >> \/ <<m.pattern, m.role>> \notin DOMAIN role_tables
    BY <1>1, <2>1 DEF RoleScore
  <2>2. CASE ~(m.props = << >> \/ <<m.pattern, m.role>> \notin DOMAIN role_tables)
    <3>1. PICK t, f : t = role_tables[<<m.pattern, m.role>>] /\ f = Frequencies(t, u)
      OBVIOUS
    <3>2. RoleScore(m.pattern, m.role, m.props) = Aggregate(f)
      BY <1>2, <2>2, <3>1 DEF RoleScore
    <3>3. WellKept(t) /\ t.total_matches > 0
      BY <2>2, <3>1 DEF TablesInv, InUse
    <3>4. \A p : Frequency(t, p) \in Parts
      BY <3>3, FrequencyIsPart
    <3>5. f \in [1..n -> Parts] /\ n > 0
      BY <1>3, <2>2, <3>1, <3>4, Zenon DEF Frequencies
    <3>6. AtMostOne(Aggregate(f))
      BY <3>5, AggregateBounded
    <3> QED BY <3>2, <3>6, NotAbove
  <2> QED BY <2>1, <2>2
<1> QED BY <1>4, <1>5

-----------------------------------------------------------------------------
(***************************************************************************)
(* The tension tracker.  Its sums are loops too.  That a course which      *)
(* never falls has no falling slope is Chebyshev's inequality: deviations  *)
(* x of the ticks and y of the values both grow along the samples, and the *)
(* x add up to 0; with c the y of the last sample whose x is not positive, *)
(* no x * (y - c) is negative.                                             *)
(***************************************************************************)

PlainLoop(h, D, f) == h = [s \in D |-> IF s = {} THEN 0 ELSE h[s \ {Max(s)}] + f[Max(s)]]

\* The sums of the first places of f, from none to n
Adds(sum, f, n) == sum[0] = 0 /\ \A i \in 1..n : sum[i] = sum[i - 1] + f[i]

\* The last of the first places
LEMMA MaxOfFirst ==
  ASSUME NEW i \in Nat, i > 0
  PROVE  Max(1..i) = i /\ (1..i) \ {i} = 1..(i - 1)
<1>1. Max(1..i) \in 1..i /\ \A k \in 1..i : Max(1..i) >= k
  <2>1. PICK S : S = 1..i
    OBVIOUS
  <2>2. S \in SUBSET (1..i) /\ S # {}
    BY <2>1
  <2>3. PICK x \in S : \A k \in S : x >= k
    BY <2>2, LastOfPlaces
  <2>4. Max(S) \in S /\ \A k \in S : Max(S) >= k
    BY ONLY <2>3, Zenon DEF Max
  <2> QED BY <2>1, <2>4
<1> QED BY <1>1

\* SumOf adds place by place
LEMMA SumAdds ==
  ASSUME NEW n \in Nat, NEW f, DOMAIN f = 1..n
  PROVE  \E sum : Adds(sum, f, n) /\ SumOf(f) = sum[n]
<1> DEFINE a == [of |-> "plain", f |-> f]
           g == CHOOSE h : PlainLoop(h, SUBSET (1..n), f)
           sum == [i \in 0..n |-> g[1..i]]
<1>1. \A i, y : RoundOf(a, i, y) = y + f[i]
  BY DEF RoundOf
<1> HIDE DEF a, g
<1>2. \A h : Loop(h, SUBSET (1..n), 0, a) <=> PlainLoop(h, SUBSET (1..n), f)
  BY <1>1, Zenon DEF Loop, PlainLoop
<1>3. \E h : PlainLoop(h, SUBSET (1..n), f)
  BY <1>2, LoopsExist
<1>4. PlainLoop(g, SUBSET (1..n), f)
  BY <1>3 DEF g
<1>5. SumOf(f) = g[1..n]
  BY DEF SumOf, FoldLeft, MapThenFoldSet, PlainLoop, g
<1>6. RoundByRound(g, n, 0, a)
  BY <1>2, <1>4, LoopRounds
<1>7. sum[0] = 0
  <2>1. 1..0 = {} /\ g[{}] = 0
    BY <1>6 DEF RoundByRound
  <2> QED BY <2>1
<1>8. ASSUME NEW i \in 1..n
      PROVE  sum[i] = sum[i - 1] + f[i]
  <2>1. PICK S : S = 1..i
    OBVIOUS
  <2>2. S \in SUBSET (1..n) /\ S # {}
    BY <2>1
  <2>3. Max(S) = i /\ S \ {i} = 1..(i - 1)
    BY <2>1, MaxOfFirst
  <2>4. g[S] = RoundOf(a, Max(S), g[S \ {Max(S)}])
    BY <1>6, <2>2 DEF RoundByRound
  <2>5. g[S] = g[1..(i - 1)] + f[i]
    BY <1>1, <2>3, <2>4
  <2> QED BY <2>1, <2>5
<1>9. SumOf(f) = sum[n]
  BY <1>5
<1> HIDE DEF sum
<1> QED BY <1>7, <1>8, <1>9 DEF Adds

\* A sum of integers is one, and at least n times the least of them
LEMMA SumAtLeast ==
  ASSUME NEW n \in Nat, NEW f \in [1..n -> Int], NEW m \in Int, \A i \in 1..n : m <= f[i]
  PROVE  SumOf(f) \in Int /\ m * n <= SumOf(f)
<1>1. PICK sum : Adds(sum, f, n) /\ SumOf(f) = sum[n]
  BY SumAdds
<1> DEFINE P == {i \in 0..n : sum[i] \in Int /\ m * i <= sum[i]}
<1>2. 0 \in P
  BY <1>1 DEF Adds
<1>3. ASSUME NEW k \in Nat, k < n, k \in P
      PROVE  k + 1 \in P
  <2>1. k + 1 \in 1..n /\ k + 1 - 1 = k
    BY <1>3
  <2>2. sum[k + 1] = sum[k] + f[k + 1] /\ f[k + 1] \in Int /\ m <= f[k + 1]
    BY <1>1, <2>1 DEF Adds
  <2>3. m * (k + 1) = m * k + m /\ m * k \in Int
    OBVIOUS
  <2> QED BY <1>3, <2>1, <2>2, <2>3
<1>4. n \in P
  <2> HIDE DEF P
  <2>1. 0..n \subseteq P
    BY <1>2, <1>3, PrefixInduction
  <2> QED BY <2>1
<1> QED BY <1>1, <1>4

\* h is a times f and b times g and c, place by place
Combines(h, n, a, f, b, g, c) == \A i \in 1..n : h[i] = a * f[i] + b * g[i] + c

\* ... and so are the sums
SumsCombine(h, n, a, f, b, g, c) ==
  /\ SumOf(f) \in Int /\ SumOf(g) \in Int
  /\ SumOf(h) = a * SumOf(f) + b * SumOf(g) + c * n

\* Sums are linear
LEMMA SumLinear ==
  ASSUME NEW n \in Nat, NEW f \in [1..n -> Int], NEW g \in [1..n -> Int], NEW h \in [1..n -> Int],
         NEW a \in Int, NEW b \in Int, NEW c \in Int,
         Combines(h, n, a, f, b, g, c)
  PROVE  SumsCombine(h, n, a, f, b, g, c)
<1>1. PICK s : Adds(s, f, n) /\ SumOf(f) = s[n]
  BY SumAdds
<1>2. PICK t : Adds(t, g, n) /\ SumOf(g) = t[n]
  BY SumAdds
<1>3. PICK u : Adds(u, h, n) /\ SumOf(h) = u[n]
  BY SumAdds
<1> DEFINE P == {i \in 0..n : s[i] \in Int /\ t[i] \in Int /\ u[i] = a * s[i] + b * t[i] + c * i}
<1>4. 0 \in P
  BY <1>1, <1>2, <1>3 DEF Adds
<1>5. ASSUME NEW k \in Nat, k < n, k \in P
      PROVE  k + 1 \in P
  <2>1. k + 1 \in 1..n /\ k + 1 - 1 = k
    BY <1>5
  <2>2. s[k + 1] = s[k] + f[k + 1] /\ t[k + 1] = t[k] + g[k + 1]
    BY <1>1, <1>2, <2>1 DEF Adds
  <2>3. u[k + 1] = u[k] + (a * f[k + 1] + b * g[k + 1] + c)
    BY <1>3, <2>1 DEF Adds, Combines
  <2>4. s[k] \in Int /\ t[k] \in Int
    BY <1>5
  <2>5. u[k] = a * s[k] + b * t[k] + c * k
    BY <1>5, Zenon
  <2>6. f[k + 1] \in Int /\ g[k + 1] \in Int
    BY <2>1
  <2>7. PICK x \in Int, y \in Int : x = s[k] /\ y = t[k]
    BY <2>4
  <2>8. PICK x2 \in Int, y2 \in Int : x2 = f[k + 1] /\ y2 = g[k + 1]
    BY <2>6
  <2>9. (a * x + b * y + c * k) + (a * x2 + b * y2 + c) = a * (x + x2) + b * (y + y2) + c * (k + 1)
    OBVIOUS
  <2>10. u[k + 1] = (a * x + b * y + c * k) + (a * x2 + b * y2 + c)
    BY <2>3, <2>5, <2>7, <2>8, Zenon
  <2>11. s[k + 1] = x + x2 /\ t[k + 1] = y + y2
    BY <2>2, <2>7, <2>8, Zenon
  <2>12. u[k + 1] = a * s[k + 1] + b * t[k + 1] + c * (k + 1)
    BY <2>9, <2>10, <2>11, Zenon
  <2>13. s[k + 1] \in Int /\ t[k + 1] \in Int /\ k + 1 \in 0..n
    BY <2>1, <2>11
  <2> QED BY <2>12, <2>13
<1>6. n \in P
  <2> HIDE DEF P
  <2>1. 0..n \subseteq P
    BY <1>4, <1>5, PrefixInduction
  <2> QED BY <2>1
<1> QED BY <1>1, <1>2, <1>3, <1>6 DEF SumsCombine

\* Deviations x that add up to 0 and grow, times deviations that grow
LEMMA GrowTogether ==
  ASSUME NEW n \in Nat, NEW x \in [1..n -> Int], NEW y \in [1..n -> Int],
         SumOf(x) = 0,
         \A i, j \in 1..n : i <= j => x[i] <= x[j] /\ y[i] <= y[j]
  PROVE  SumOf([i \in 1..n |-> x[i] * y[i]]) >= 0
<1> DEFINE Low == {i \in 1..n : x[i] <= 0}
           p == [i \in 1..n |-> x[i] * y[i]]
<1>0. p \in [1..n -> Int]
  OBVIOUS
<1>1. PICK c \in Int : \A i \in 1..n : (x[i] <= 0 => y[i] <= c) /\ (x[i] > 0 => y[i] >= c)
  <2>1. CASE Low # {}
    <3>1. PICK k \in Low : \A i \in Low : i <= k
      <4>1. Low \in SUBSET (1..n)
        OBVIOUS
      <4> HIDE DEF Low
      <4> QED BY <2>1, <4>1, LastOfPlaces
    <3>2. y[k] \in Int
      OBVIOUS
    <3>3. ASSUME NEW i \in 1..n
          PROVE  (x[i] <= 0 => y[i] <= y[k]) /\ (x[i] > 0 => y[i] >= y[k])
      <4>1. CASE x[i] <= 0
        <5>1. i <= k
          BY <3>1, <4>1
        <5> QED BY <4>1, <5>1
      <4>2. CASE x[i] > 0
        <5>1. ~(i <= k)
          BY <4>2
        <5>2. k <= i
          BY <5>1
        <5> QED BY <4>2, <5>2
      <4> QED BY <4>1, <4>2
    <3> QED BY <3>2, <3>3
  <2>2. CASE Low = {} /\ n = 0
    BY <2>2
  <2>3. CASE Low = {} /\ n # 0
    <3>1. 1 \in 1..n /\ y[1] \in Int /\ \A i \in 1..n : y[1] <= y[i]
      BY <2>3
    <3>2. \A i \in 1..n : ~(x[i] <= 0)
      BY <2>3
    <3> QED BY <3>1, <3>2
  <2> QED BY <2>1, <2>2, <2>3
<1> DEFINE q == [i \in 1..n |-> x[i] * (y[i] - c)]
<1>2. q \in [1..n -> Int] /\ \A i \in 1..n : 0 <= q[i]
  <2> SUFFICES ASSUME NEW i \in 1..n
               PROVE  q[i] \in Int /\ 0 <= q[i]
    OBVIOUS
  <2>1. x[i] \in Int /\ y[i] \in Int /\ q[i] = x[i] * (y[i] - c)
    OBVIOUS
  <2>2. ASSUME NEW u \in Int, NEW v \in Int, (u <= 0 /\ v <= 0) \/ (u >= 0 /\ v >= 0)
        PROVE  u * v \in Int /\ 0 <= u * v
    BY <2>2
  <2>3. /\ y[i] - c \in Int
        /\ (x[i] <= 0 /\ y[i] - c <= 0) \/ (x[i] >= 0 /\ y[i] - c >= 0)
    BY <1>1, <2>1
  <2> QED BY <2>1, <2>2, <2>3
<1>3. 0 <= SumOf(q)
  <2> HIDE DEF q
  <2>1. 0 * n <= SumOf(q) /\ SumOf(q) \in Int
    BY <1>2, SumAtLeast
  <2> QED BY <2>1
<1>4. SumOf(p) = 1 * SumOf(q) + c * SumOf(x) + 0 * n
  <2>1. ASSUME NEW i \in 1..n
        PROVE  p[i] = 1 * q[i] + c * x[i] + 0
    <3>1. x[i] \in Int /\ y[i] \in Int
      OBVIOUS
    <3>2. \A u \in Int, v \in Int : u * v = 1 * (u * (v - c)) + c * u + 0
      OBVIOUS
    <3>3. p[i] = x[i] * y[i] /\ q[i] = x[i] * (y[i] - c)
      OBVIOUS
    <3> HIDE DEF p, q
    <3>4. x[i] * y[i] = 1 * (x[i] * (y[i] - c)) + c * x[i] + 0
      BY <3>1, <3>2, Zenon
    <3> QED BY <3>3, <3>4, Zenon
  <2> HIDE DEF p, q
  <2>2. q \in [1..n -> Int] /\ 1 \in Int /\ 0 \in Int
    BY <1>2
  <2>3. Combines(p, n, 1, q, c, x, 0)
    BY <2>1, Zenon DEF Combines
  <2>4. SumsCombine(p, n, 1, q, c, x, 0)
    BY <1>0, <2>2, <2>3, SumLinear
  <2> QED BY <2>4, Zenon DEF SumsCombine
<1>5. SumOf(q) \in Int
  <2> HIDE DEF q
  <2> QED BY <1>2, SumAtLeast
<1> HIDE DEF q, p
<1>6. SumOf(p) >= 0
  BY <1>3, <1>4, <1>5
<1> QED BY <1>6 DEF p

Sample == [tick : Int, value : Int]

\* Samples in the order of their ticks
InTime(s) == \A i, j \in 1..Len(s) : i <= j => s[i].tick <= s[j].tick

\* A function on the first places is a sequence
LEMMA PlacesAreSeq ==
  ASSUME NEW S, NEW n \in Nat, NEW f \in [1..n -> S]
  PROVE  f \in Seq(S) /\ Len(f) = n /\ DOMAIN f = 1..n
OBVIOUS

\* The halves of the samples, by place
HalvesOf(s, h) ==
  /\ ValuesOf(FirstHalf(s)) \in [1..h -> Int] /\ Len(ValuesOf(FirstHalf(s))) = h
  /\ \A i \in 1..h : ValuesOf(FirstHalf(s))[i] = s[i].value
  /\ ValuesOf(SecondHalf(s)) \in [1..(Len(s) - h) -> Int] /\ Len(ValuesOf(SecondHalf(s))) = Len(s) - h
  /\ \A i \in 1..(Len(s) - h) : ValuesOf(SecondHalf(s))[i] = s[h + i].value

\* What the two slices of trajectory hold
LEMMA Halves ==
  ASSUME NEW s \in Seq(Sample), Len(s) >= 3
  PROVE  /\ HalvesOf(s, Len(s) \div 2)
         /\ Len(s) \div 2 \in Nat /\ Len(s) \div 2 >= 1 /\ Len(s) \div 2 < Len(s)
<1> DEFINE n == Len(s)
           h == n \div 2
<1>1. n \in Nat /\ h \in Nat /\ 1 <= h /\ h < n /\ \A i \in 1..n : s[i] \in Sample
  BY LenProperties, ElementOfSeq
<1> HIDE DEF h
<1>2. \A i \in 1..n : s[i].value \in Int
  BY <1>1 DEF Sample
<1>3. PICK x : x = FirstHalf(s)
  OBVIOUS
<1>4. x \in Seq(Sample) /\ Len(x) = h /\ \A i \in 1..h : x[i] = s[i]
  <2>1. x = SubSeq(s, 1, h)
    BY <1>3 DEF FirstHalf, h
  <2>2. \A i \in 1..h : s[i] \in Sample
    BY <1>1
  <2> QED BY <1>1, <2>1, <2>2, SubSeqProperties
<1>5. PICK y : y = SecondHalf(s)
  OBVIOUS
<1>6. y \in Seq(Sample) /\ Len(y) = n - h /\ \A i \in 1..(n - h) : y[i] = s[h + i]
  <2>1. y = SubSeq(s, h + 1, n)
    BY <1>5 DEF SecondHalf, h
  <2>2. \A i \in (h + 1)..n : s[i] \in Sample
    BY <1>1
  <2>3. /\ y \in Seq(Sample) /\ Len(y) = n - (h + 1) + 1
        /\ \A i \in 1..(n - (h + 1) + 1) : y[i] = s[h + 1 + i - 1]
    BY <1>1, <2>1, <2>2, SubSeqProperties
  <2>4. n - (h + 1) + 1 = n - h
    BY <1>1
  <2>5. y \in Seq(Sample) /\ Len(y) = n - h /\ \A i \in 1..(n - h) : y[i] = s[h + 1 + i - 1]
    BY <2>3, <2>4, Zenon
  <2>6. \A i \in 1..(n - h) : h + 1 + i - 1 = h + i
    BY <1>1
  <2> QED BY <2>5, <2>6, Zenon
<1>7. DOMAIN x = 1..h /\ DOMAIN y = 1..(n - h)
  BY <1>4, <1>6, LenProperties
<1>8. /\ ValuesOf(x) \in [1..h -> Int]
      /\ \A i \in 1..h : ValuesOf(x)[i] = s[i].value
  BY <1>1, <1>2, <1>4, <1>7 DEF ValuesOf
<1>9. /\ ValuesOf(y) \in [1..(n - h) -> Int]
      /\ \A i \in 1..(n - h) : ValuesOf(y)[i] = s[h + i].value
  <2>1. \A i \in 1..(n - h) : h + i \in 1..n
    BY <1>1
  <2> QED BY <1>2, <1>6, <1>7, <2>1 DEF ValuesOf
<1>10. Len(ValuesOf(x)) = h /\ Len(ValuesOf(y)) = n - h
  <2>1. n - h \in Nat
    BY <1>1
  <2> QED BY <1>1, <1>8, <1>9, <2>1, PlacesAreSeq
<1> QED BY <1>1, <1>3, <1>5, <1>8, <1>9, <1>10 DEF HalvesOf, h

\* Deviations from the mean, times the number of samples
Deviations(f, n) == [i \in 1..n |-> n * f[i] - SumOf(f)]

\* They are integers that add up to 0
LEMMA DeviationsBalance ==
  ASSUME NEW n \in Nat, NEW f \in [1..n -> Int]
  PROVE  /\ SumOf(f) \in Int /\ Deviations(f, n) \in [1..n -> Int]
         /\ SumOf(Deviations(f, n)) = 0
<1> DEFINE d == Deviations(f, n)
<1>1. SumOf(f) \in Int
  <2>1. Combines(f, n, 1, f, 0, f, 0)
    BY DEF Combines
  <2>2. SumsCombine(f, n, 1, f, 0, f, 0)
    BY <2>1, SumLinear
  <2> QED BY <2>2 DEF SumsCombine
<1>2. PICK total \in Int : total = SumOf(f)
  BY <1>1
<1>3. \A i \in 1..n : d[i] = n * f[i] - total
  BY <1>2 DEF Deviations
<1>4. d \in [1..n -> Int]
  <2>1. \A i \in 1..n : n * f[i] - total \in Int
    OBVIOUS
  <2>2. d = [i \in 1..n |-> n * f[i] - total]
    BY <1>2 DEF Deviations
  <2> QED BY <2>1, <2>2
<1> HIDE DEF d
<1>5. Combines(d, n, n, f, 0, f, -total)
  <2> SUFFICES ASSUME NEW i \in 1..n
               PROVE  d[i] = n * f[i] + 0 * f[i] + (-total)
    BY DEF Combines
  <2>1. PICK v \in Int : v = f[i]
    OBVIOUS
  <2>2. n * v - total = n * v + 0 * v + (-total)
    OBVIOUS
  <2> QED BY <1>3, <2>1, <2>2
<1>6. SumsCombine(d, n, n, f, 0, f, -total)
  <2>1. n \in Int /\ 0 \in Int /\ -total \in Int
    OBVIOUS
  <2> QED BY <1>4, <1>5, <2>1, SumLinear
<1>7. SumOf(d) = n * total + 0 * total + (-total) * n
  BY <1>2, <1>6, Zenon DEF SumsCombine
<1>8. n * total + 0 * total + (-total) * n = 0
  OBVIOUS
<1> QED BY <1>1, <1>4, <1>7, <1>8 DEF d

NumOf(s) == LET dx == Deviations(TicksOf(s), Len(s))
                dy == Deviations(ValuesOf(s), Len(s))
            IN  SumOf([i \in 1..Len(s) |-> dx[i] * dy[i]])
DenOf(s) == LET dx == Deviations(TicksOf(s), Len(s))
            IN  SumOf([i \in 1..Len(s) |-> dx[i] * dx[i]])

\* The columns of the samples
LEMMA Columns ==
  ASSUME NEW s \in Seq(Sample)
  PROVE  /\ Len(s) \in Nat /\ DOMAIN s = 1..Len(s)
         /\ TicksOf(s) \in [1..Len(s) -> Int] /\ \A i \in 1..Len(s) : TicksOf(s)[i] = s[i].tick
         /\ ValuesOf(s) \in [1..Len(s) -> Int] /\ \A i \in 1..Len(s) : ValuesOf(s)[i] = s[i].value
<1>1. Len(s) \in Nat /\ DOMAIN s = 1..Len(s)
  BY LenProperties
<1>2. \A i \in 1..Len(s) : s[i] \in Sample
  BY ElementOfSeq
<1>3. \A i \in 1..Len(s) : s[i].tick \in Int /\ s[i].value \in Int
  BY <1>2 DEF Sample
<1> QED BY <1>1, <1>3 DEF TicksOf, ValuesOf

\* slope is the quotient of the two sums of products
LEMMA SlopeIs ==
  ASSUME NEW s \in Seq(Sample), Len(s) >= 2
  PROVE  Slope(s) = IF DenOf(s) = 0 THEN <<0, 1>> ELSE <<NumOf(s), DenOf(s)>>
<1> DEFINE n == Len(s)
           dx == [i \in DOMAIN s |-> n * s[i].tick - SumOf(TicksOf(s))]
           dy == [i \in DOMAIN s |-> n * s[i].value - SumOf(ValuesOf(s))]
<1>1. DOMAIN s = 1..n /\ n \in Nat
  BY Columns
<1>2. dx = Deviations(TicksOf(s), n)
  BY <1>1 DEF Deviations, TicksOf
<1>3. dy = Deviations(ValuesOf(s), n)
  BY <1>1 DEF Deviations, ValuesOf
<1>4. ~(n < 2)
  BY <1>1
<1>5. Slope(s) = IF n < 2 \/ SumOf([i \in DOMAIN s |-> dx[i] * dx[i]]) = 0 THEN <<0, 1>>
                 ELSE <<SumOf([i \in DOMAIN s |-> dx[i] * dy[i]]), SumOf([i \in DOMAIN s |-> dx[i] * dx[i]])>>
  BY DEF Slope
<1> HIDE DEF dx, dy, n
<1>6. /\ NumOf(s) = SumOf([i \in DOMAIN s |-> dx[i] * dy[i]])
      /\ DenOf(s) = SumOf([i \in DOMAIN s |-> dx[i] * dx[i]])
  BY <1>1, <1>2, <1>3 DEF NumOf, DenOf, n
<1> QED BY <1>4, <1>5, <1>6

\* The sums of products are integers, that of the squares no less than 0
LEMMA ProductsAreIntegers ==
  ASSUME NEW s \in Seq(Sample)
  PROVE  NumOf(s) \in Int /\ DenOf(s) \in Int /\ DenOf(s) >= 0
<1> DEFINE n == Len(s)
           dx == Deviations(TicksOf(s), n)
           dy == Deviations(ValuesOf(s), n)
           xy == [i \in 1..n |-> dx[i] * dy[i]]
           xx == [i \in 1..n |-> dx[i] * dx[i]]
<1>1. n \in Nat /\ dx \in [1..n -> Int] /\ dy \in [1..n -> Int]
  BY Columns, DeviationsBalance
<1> HIDE DEF dx, dy, n
<1>2. xy \in [1..n -> Int]
  BY <1>1
<1>3. xx \in [1..n -> Int] /\ \A i \in 1..n : 0 <= xx[i]
  <2>1. \A u \in Int : u * u \in Int /\ 0 <= u * u
    OBVIOUS
  <2>2. \A i \in 1..n : dx[i] \in Int
    BY <1>1
  <2> QED BY <2>1, <2>2
<1>4. NumOf(s) = SumOf(xy) /\ DenOf(s) = SumOf(xx)
  BY DEF NumOf, DenOf, dx, dy, n
<1> HIDE DEF xy, xx
<1>5. SumOf(xy) \in Int
  <2>1. Combines(xy, n, 1, xy, 0, xy, 0)
    BY <1>2 DEF Combines
  <2> QED BY <1>1, <1>2, <2>1, SumLinear DEF SumsCombine
<1>6. SumOf(xx) \in Int /\ 0 * n <= SumOf(xx)
  <2>1. n \in Nat /\ 0 \in Int /\ xx \in [1..n -> Int] /\ \A i \in 1..n : 0 <= xx[i]
    BY <1>1, <1>3
  <2> QED BY ONLY <2>1, SumAtLeast
<1> QED BY <1>1, <1>4, <1>5, <1>6

\* The name of a course, by what trajectory computes
Level(A, la, B, lb) == AbsDiff(A * lb - B * la) * 10 < Threshold * la * lb
CourseOf(mid, A, la, B, lb, num, den) ==
  IF mid * la > A /\ mid * lb > B /\ Level(A, la, B, lb) THEN "Peak"
  ELSE IF mid * la < A /\ mid * lb < B /\ Level(A, la, B, lb) THEN "Valley"
  ELSE IF 100 * num > Threshold * den THEN "Rising"
  ELSE IF 100 * num < -(Threshold * den) THEN "Falling"
  ELSE "Plateau"

FirstSum(s)  == SumOf(ValuesOf(FirstHalf(s)))
SecondSum(s) == SumOf(ValuesOf(SecondHalf(s)))

\* What the slope is divided by
SlopeNum(s) == IF DenOf(s) = 0 THEN 0 ELSE NumOf(s)
SlopeDen(s) == IF DenOf(s) = 0 THEN 1 ELSE DenOf(s)

LEMMA TrajectoryIs ==
  ASSUME NEW s \in Seq(Sample), Len(s) >= 3
  PROVE  Trajectory(s) = CourseOf(MidValue(s), FirstSum(s), Len(s) \div 2,
                                  SecondSum(s), Len(s) - Len(s) \div 2, SlopeNum(s), SlopeDen(s))
<1>1. HalvesOf(s, Len(s) \div 2)
  BY Halves
<1>2. PICK a : a = ValuesOf(FirstHalf(s))
  OBVIOUS
<1>3. PICK b : b = ValuesOf(SecondHalf(s))
  OBVIOUS
<1>4. Len(a) = Len(s) \div 2 /\ Len(b) = Len(s) - Len(s) \div 2
  BY <1>1, <1>2, <1>3 DEF HalvesOf
<1>5. Len(s) >= 2 /\ ~(Len(s) < 3)
  BY Columns
<1>6. Slope(s)[1] = SlopeNum(s) /\ Slope(s)[2] = SlopeDen(s)
  <2>1. Slope(s) = IF DenOf(s) = 0 THEN <<0, 1>> ELSE <<NumOf(s), DenOf(s)>>
    BY <1>5, SlopeIs
  <2> QED BY <2>1 DEF SlopeNum, SlopeDen
<1>8. MidValue(s) \in Int /\ SumOf(a) \in Int /\ Len(s) \div 2 \in Nat
  <2>1. PICK h \in Nat : h = Len(s) \div 2 /\ h >= 1 /\ h < Len(s)
    BY Halves
  <2>2. a \in [1..h -> Int]
    BY <1>1, <1>2, <2>1 DEF HalvesOf
  <2>3. Combines(a, h, 1, a, 0, a, 0)
    BY <2>2 DEF Combines
  <2>4. SumsCombine(a, h, 1, a, 0, a, 0)
    BY <2>2, <2>3, SumLinear
  <2>5. h + 1 \in 1..Len(s) /\ MidValue(s) = s[h + 1].value
    BY <2>1, Columns DEF MidValue
  <2>6. s[h + 1].value \in Int
    BY <2>5, Columns
  <2> QED BY <2>1, <2>4, <2>5, <2>6 DEF SumsCombine
<1>7. Trajectory(s) = CourseOf(MidValue(s), SumOf(a), Len(a), SumOf(b), Len(b), Slope(s)[1], Slope(s)[2])
  <2> DEFINE mid   == MidValue(s)
             slope == Slope(s)
             peak   == mid * Len(a) > SumOf(a) /\ mid * Len(b) > SumOf(b)
                       /\ Level(SumOf(a), Len(a), SumOf(b), Len(b))
             valley == mid * Len(a) < SumOf(a) /\ mid * Len(b) < SumOf(b)
                       /\ Level(SumOf(a), Len(a), SumOf(b), Len(b))
             tilt   == IF 100 * slope[1] > Threshold * slope[2] THEN "Rising"
                       ELSE IF 100 * slope[1] < -(Threshold * slope[2]) THEN "Falling"
                       ELSE "Plateau"
  <2>1. Trajectory(s) = CASE Len(s) < 3            -> "Unknown"
                          [] Len(s) >= 3 /\ peak   -> "Peak"
                          [] Len(s) >= 3 /\ valley -> "Valley"
                          [] OTHER                 -> tilt
    BY <1>2, <1>3 DEF Trajectory, Level
  <2>2. CourseOf(mid, SumOf(a), Len(a), SumOf(b), Len(b), slope[1], slope[2])
          = IF peak THEN "Peak" ELSE IF valley THEN "Valley" ELSE tilt
    BY Zenon DEF CourseOf
  <2>3. peak => ~valley
    <3>1. PICK x \in Int : x = mid * Len(a)
      BY <1>4, <1>8
    <3>2. PICK y \in Int : y = SumOf(a)
      BY <1>8
    <3>3. ~(x > y /\ x < y)
      OBVIOUS
    <3> HIDE DEF mid
    <3> QED BY <3>1, <3>2, <3>3
  <2> HIDE DEF peak, valley, tilt
  <2>4. Trajectory(s) = IF peak THEN "Peak" ELSE IF valley THEN "Valley" ELSE tilt
    BY <1>5, <2>1, <2>3
  <2> HIDE DEF slope, mid
  <2>5. Trajectory(s) = CourseOf(mid, SumOf(a), Len(a), SumOf(b), Len(b), slope[1], slope[2])
    BY <2>2, <2>4
  <2> QED BY <2>5 DEF slope, mid
<1> QED BY <1>2, <1>3, <1>4, <1>6, <1>7, Zenon DEF FirstSum, SecondSum

\* g is f with the sign turned
Negates(g, f, n) == \A i \in 1..n : g[i] = -f[i]

LEMMA SumNegates ==
  ASSUME NEW n \in Nat, NEW f \in [1..n -> Int], NEW g \in [1..n -> Int], Negates(g, f, n)
  PROVE  SumOf(f) \in Int /\ SumOf(g) = -SumOf(f)
<1>1. Combines(g, n, -1, f, 0, f, 0)
  <2> SUFFICES ASSUME NEW i \in 1..n
               PROVE  g[i] = (-1) * f[i] + 0 * f[i] + 0
    BY DEF Combines
  <2>1. PICK v \in Int : v = f[i]
    OBVIOUS
  <2> QED BY <2>1 DEF Negates
<1>2. SumsCombine(g, n, -1, f, 0, f, 0)
  <2>1. -1 \in Int /\ 0 \in Int
    OBVIOUS
  <2> QED BY <1>1, <2>1, SumLinear
<1>3. SumOf(f) \in Int /\ SumOf(g) = (-1) * SumOf(f) + 0 * SumOf(f) + 0 * n
  BY <1>2, Zenon DEF SumsCombine
<1> QED BY <1>3


\* The mirror image of samples
LEMMA MirrorIs ==
  ASSUME NEW s \in Seq(Sample)
  PROVE  /\ Mirror(s) \in Seq(Sample) /\ Len(Mirror(s)) = Len(s)
         /\ \A i \in 1..Len(s) : Mirror(s)[i].tick = s[i].tick /\ Mirror(s)[i].value = -s[i].value
<1>1. Len(s) \in Nat /\ DOMAIN s = 1..Len(s) /\ \A i \in 1..Len(s) : s[i] \in Sample
  BY Columns, ElementOfSeq
<1>2. ASSUME NEW x \in Sample
      PROVE  LET y == [x EXCEPT !.value = -x.value]
             IN  y \in Sample /\ y.tick = x.tick /\ y.value = -x.value
  <2>1. x.value \in Int /\ -x.value \in Int
    BY DEF Sample
  <2> QED BY <2>1 DEF Sample
<1>3. Mirror(s) = [i \in 1..Len(s) |-> [s[i] EXCEPT !.value = -s[i].value]]
  BY <1>1 DEF Mirror
<1>4. /\ Mirror(s) \in [1..Len(s) -> Sample]
      /\ \A i \in 1..Len(s) : Mirror(s)[i].tick = s[i].tick /\ Mirror(s)[i].value = -s[i].value
  BY <1>1, <1>2, <1>3
<1> QED BY <1>1, <1>4, PlacesAreSeq

\* The slope of the mirror image is the slope with its sign turned
LEMMA MirrorSlope ==
  ASSUME NEW s \in Seq(Sample)
  PROVE  DenOf(Mirror(s)) = DenOf(s) /\ NumOf(Mirror(s)) = -NumOf(s) /\ NumOf(s) \in Int
<1>1. PICK m \in Seq(Sample) : m = Mirror(s)
  BY MirrorIs
<1>2. PICK n \in Nat : n = Len(s)
  BY Columns
<1>3. /\ Len(m) = n
      /\ \A i \in 1..n : m[i].tick = s[i].tick /\ m[i].value = -s[i].value
  BY <1>1, <1>2, MirrorIs
<1>4. PICK v \in [1..n -> Int] : v = ValuesOf(s) /\ \A i \in 1..n : v[i] = s[i].value
  BY <1>2, Columns
<1>5. PICK w \in [1..n -> Int] : w = ValuesOf(m) /\ \A i \in 1..n : w[i] = m[i].value
  BY <1>3, Columns
<1>6. PICK t \in [1..n -> Int] : t = TicksOf(s) /\ \A i \in 1..n : t[i] = s[i].tick
  BY <1>2, Columns
<1>7. PICK u \in [1..n -> Int] : u = TicksOf(m) /\ \A i \in 1..n : u[i] = m[i].tick
  BY <1>3, Columns
<1>8. u = t
  <2>1. \A i \in 1..n : u[i] = t[i]
    BY <1>3, <1>6, <1>7
  <2> QED BY ONLY <2>1, t \in [1..n -> Int], u \in [1..n -> Int]
<1>9. Negates(w, v, n)
  BY <1>3, <1>4, <1>5 DEF Negates
<1>10. PICK total \in Int : total = SumOf(v) /\ SumOf(w) = -total
  BY <1>9, SumNegates
<1> DEFINE dx == Deviations(t, n)
           dy == Deviations(v, n)
           dz == Deviations(w, n)
           xy == [i \in 1..n |-> dx[i] * dy[i]]
           xz == [i \in 1..n |-> dx[i] * dz[i]]
<1>11. dx \in [1..n -> Int] /\ dy \in [1..n -> Int] /\ dz \in [1..n -> Int]
  BY DeviationsBalance
<1>12. Negates(dz, dy, n)
  <2> SUFFICES ASSUME NEW i \in 1..n
               PROVE  dz[i] = -dy[i]
    BY DEF Negates
  <2>1. dz[i] = n * w[i] - (-total) /\ dy[i] = n * v[i] - total
    BY <1>10 DEF Deviations
  <2>2. PICK a \in Int : a = v[i] /\ w[i] = -a
    BY <1>9 DEF Negates
  <2>3. n * (-a) - (-total) = -(n * a - total)
    OBVIOUS
  <2> HIDE DEF dz, dy
  <2> QED BY <2>1, <2>2, <2>3
<1>13. DenOf(m) = DenOf(s)
  BY <1>2, <1>3, <1>6, <1>7, <1>8 DEF DenOf
<1>14. NumOf(s) = SumOf(xy) /\ NumOf(m) = SumOf(xz)
  BY <1>2, <1>3, <1>4, <1>5, <1>6, <1>7, <1>8 DEF NumOf
<1> HIDE DEF dx, dy, dz
<1>15. xy \in [1..n -> Int] /\ xz \in [1..n -> Int]
  <2>1. \A x \in Int, y \in Int : x * y \in Int
    OBVIOUS
  <2>2. \A i \in 1..n : dx[i] * dy[i] \in Int /\ dx[i] * dz[i] \in Int
    BY <1>11, <2>1
  <2> QED BY <2>2
<1>16. Negates(xz, xy, n)
  <2> SUFFICES ASSUME NEW i \in 1..n
               PROVE  xz[i] = -xy[i]
    BY DEF Negates
  <2>1. PICK a \in Int, b \in Int : a = dx[i] /\ b = dy[i] /\ dz[i] = -b
    BY <1>11, <1>12 DEF Negates
  <2>2. a * (-b) = -(a * b)
    OBVIOUS
  <2> QED BY <2>1, <2>2
<1> HIDE DEF xy, xz
<1>17. SumOf(xy) \in Int /\ SumOf(xz) = -SumOf(xy)
  BY <1>15, <1>16, SumNegates
<1> QED BY <1>1, <1>13, <1>14, <1>17

\* What trajectory looks at, of the mirror image
LEMMA MirrorParts ==
  ASSUME NEW s \in Seq(Sample), Len(s) >= 3
  PROVE  /\ MidValue(s) \in Int /\ MidValue(Mirror(s)) = -MidValue(s)
         /\ FirstSum(s) \in Int /\ FirstSum(Mirror(s)) = -FirstSum(s)
         /\ SecondSum(s) \in Int /\ SecondSum(Mirror(s)) = -SecondSum(s)
         /\ SlopeNum(s) \in Int /\ SlopeNum(Mirror(s)) = -SlopeNum(s)
         /\ SlopeDen(s) \in Nat /\ SlopeDen(Mirror(s)) = SlopeDen(s)
<1>1. PICK m \in Seq(Sample) : m = Mirror(s)
  BY MirrorIs
<1>2. PICK n \in Nat : n = Len(s) /\ n = Len(m)
  BY <1>1, MirrorIs, Columns
<1>3. PICK h \in Nat : h = n \div 2 /\ h >= 1 /\ h < n
  BY <1>2, Halves
<1>4. HalvesOf(s, h) /\ HalvesOf(m, h)
  BY <1>2, <1>3, Halves
<1>5. \A i \in 1..n : m[i].tick = s[i].tick /\ m[i].value = -s[i].value
  BY <1>1, <1>2, MirrorIs
<1>6. MidValue(s) \in Int /\ MidValue(m) = -MidValue(s)
  <2>1. h + 1 \in 1..n /\ MidValue(s) = s[h + 1].value /\ MidValue(m) = m[h + 1].value
    BY <1>2, <1>3 DEF MidValue
  <2>2. s[h + 1].value \in Int
    <3>1. PICK f \in [1..n -> Int] : f = ValuesOf(s) /\ \A i \in 1..n : f[i] = s[i].value
      <4>1. /\ ValuesOf(s) \in [1..Len(s) -> Int]
            /\ \A i \in 1..Len(s) : ValuesOf(s)[i] = s[i].value
        BY Columns
      <4> QED BY <1>2, <4>1
    <3> QED BY <2>1, <3>1
  <2> QED BY <1>5, <2>1, <2>2
<1>7. FirstSum(s) \in Int /\ FirstSum(m) = -FirstSum(s)
  <2>1. PICK f \in [1..h -> Int] : f = ValuesOf(FirstHalf(s)) /\ \A i \in 1..h : f[i] = s[i].value
    BY <1>4 DEF HalvesOf
  <2>2. PICK g \in [1..h -> Int] : g = ValuesOf(FirstHalf(m)) /\ \A i \in 1..h : g[i] = m[i].value
    BY <1>4 DEF HalvesOf
  <2>3. \A i \in 1..h : i \in 1..n
    BY <1>3
  <2>4. Negates(g, f, h)
    BY <1>5, <2>1, <2>2, <2>3 DEF Negates
  <2>5. SumOf(f) \in Int /\ SumOf(g) = -SumOf(f)
    BY <2>4, SumNegates
  <2> QED BY <2>1, <2>2, <2>5 DEF FirstSum
<1>8. SecondSum(s) \in Int /\ SecondSum(m) = -SecondSum(s)
  <2>0. PICK k \in Nat : k = n - h
    BY <1>3
  <2>1. PICK f \in [1..k -> Int] : f = ValuesOf(SecondHalf(s)) /\ \A i \in 1..k : f[i] = s[h + i].value
    BY <1>2, <1>4, <2>0 DEF HalvesOf
  <2>2. PICK g \in [1..k -> Int] : g = ValuesOf(SecondHalf(m)) /\ \A i \in 1..k : g[i] = m[h + i].value
    BY <1>2, <1>4, <2>0 DEF HalvesOf
  <2>3. \A i \in 1..k : h + i \in 1..n
    BY <1>3, <2>0
  <2>4. Negates(g, f, k)
    BY <1>5, <2>1, <2>2, <2>3 DEF Negates
  <2>5. SumOf(f) \in Int /\ SumOf(g) = -SumOf(f)
    BY <2>4, SumNegates
  <2> QED BY <2>1, <2>2, <2>5 DEF SecondSum
<1>9. /\ SlopeNum(s) \in Int /\ SlopeNum(m) = -SlopeNum(s)
      /\ SlopeDen(s) \in Nat /\ SlopeDen(m) = SlopeDen(s)
  <2>1. DenOf(m) = DenOf(s) /\ NumOf(m) = -NumOf(s) /\ NumOf(s) \in Int
    BY <1>1, MirrorSlope
  <2>2. DenOf(s) \in Int /\ DenOf(s) >= 0
    BY ProductsAreIntegers
  <2> QED BY <2>1, <2>2 DEF SlopeNum, SlopeDen
<1> QED BY <1>1, <1>6, <1>7, <1>8, <1>9

\* Turning the signs of what trajectory computes mirrors the name it gives
NameMirrors(mid, A, la, B, lb, num, den) ==
  CourseOf(-mid, -A, la, -B, lb, -num, den) = Mirrored(CourseOf(mid, A, la, B, lb, num, den))

LEMMA MirrorName ==
  ASSUME NEW mid \in Int, NEW A \in Int, NEW B \in Int, NEW la \in Nat, NEW lb \in Nat,
         NEW num \in Int, NEW den \in Nat
  PROVE  NameMirrors(mid, A, la, B, lb, num, den)
<1>1. PICK a \in Int : a = mid * la /\ (-mid) * la = -a
  OBVIOUS
<1>2. PICK b \in Int : b = mid * lb /\ (-mid) * lb = -b
  OBVIOUS
<1>3. PICK d \in Int : d = A * lb - B * la /\ (-A) * lb - (-B) * la = -d
  OBVIOUS
<1>4. AbsDiff(-d) = AbsDiff(d)
  BY DEF AbsDiff
<1>5. Level(-A, la, -B, lb) <=> Level(A, la, B, lb)
  BY <1>3, <1>4, Zenon DEF Level
<1>6. PICK th \in Int : th = Threshold * den /\ th >= 0
  <2>1. Threshold \in Nat
    BY WindowAssumption
  <2>2. \A x \in Nat, y \in Nat : x * y \in Int /\ x * y >= 0
    OBVIOUS
  <2> QED BY <2>1, <2>2
<1> DEFINE level == Level(A, la, B, lb)
           name == CourseOf(mid, A, la, B, lb, num, den)
<1>7. name = IF a > A /\ b > B /\ level THEN "Peak"
             ELSE IF a < A /\ b < B /\ level THEN "Valley"
             ELSE IF 100 * num > th THEN "Rising"
             ELSE IF 100 * num < -th THEN "Falling"
             ELSE "Plateau"
  BY <1>1, <1>2, <1>6, Zenon DEF CourseOf
<1>8. CourseOf(-mid, -A, la, -B, lb, -num, den)
        = IF -a > -A /\ -b > -B /\ level THEN "Peak"
          ELSE IF -a < -A /\ -b < -B /\ level THEN "Valley"
          ELSE IF 100 * (-num) > th THEN "Rising"
          ELSE IF 100 * (-num) < -th THEN "Falling"
          ELSE "Plateau"
  BY <1>1, <1>2, <1>5, <1>6, Zenon DEF CourseOf
<1> HIDE DEF level, name
<1> QED BY <1>6, <1>7, <1>8 DEF Mirrored, name, NameMirrors


\* Values that never fall from one place to the next never fall
LEMMA NeverFalls ==
  ASSUME NEW n \in Nat, NEW f \in [1..n -> Int], \A i \in 1..(n - 1) : f[i] <= f[i + 1]
  PROVE  \A i, j \in 1..n : i <= j => f[i] <= f[j]
<1> DEFINE P == {k \in 0..n : \A i \in 1..k : f[i] <= f[k]}
<1>1. 0 \in P
  OBVIOUS
<1>2. ASSUME NEW k \in Nat, k < n, k \in P
      PROVE  k + 1 \in P
  <2>1. k + 1 \in 1..n
    BY <1>2
  <2>2. ASSUME NEW i \in 1..(k + 1)
        PROVE  f[i] <= f[k + 1]
    <3>1. i \in 1..n /\ f[i] \in Int /\ f[k + 1] \in Int
      BY <2>1
    <3>2. CASE i = k + 1
      BY <3>1, <3>2
    <3>3. CASE i # k + 1
      <4>1. i \in 1..k /\ k \in 1..(n - 1) /\ k \in 1..n
        BY <1>2, <2>2, <3>3
      <4>2. f[i] <= f[k] /\ f[k] <= f[k + 1] /\ f[k] \in Int
        BY <1>2, <4>1
      <4> QED BY <3>1, <4>2
    <3> QED BY <3>2, <3>3
  <2> QED BY <2>1, <2>2
<1> HIDE DEF P
<1>3. 0..n \subseteq P
  BY <1>1, <1>2, PrefixInduction
<1>4. \A j \in 1..n : j \in 0..n /\ \A i \in 1..j : f[i] <= f[j]
  BY <1>3 DEF P
<1> QED BY <1>4

\* A course that never falls has no falling slope, no later value below the
\* middle one and no earlier one above it
LEMMA GrowingIsNamed ==
  ASSUME NEW s \in Seq(Sample), Len(s) >= 3, InTime(s),
         \A i \in 1..(Len(s) - 1) : s[i].value <= s[i + 1].value
  PROVE  Trajectory(s) \in {"Rising", "Plateau"}
<1>1. PICK n \in Nat : n = Len(s)
  BY Columns
<1>2. PICK h \in Nat : h = n \div 2 /\ h >= 1 /\ h < n
  BY <1>1, Halves
<1>3. HalvesOf(s, h)
  BY <1>1, <1>2, Halves
<1>4. PICK v \in [1..n -> Int] : v = ValuesOf(s) /\ \A i \in 1..n : v[i] = s[i].value
  BY <1>1, Columns
<1>5. PICK t \in [1..n -> Int] : t = TicksOf(s) /\ \A i \in 1..n : t[i] = s[i].tick
  BY <1>1, Columns
<1>6. \A i, j \in 1..n : i <= j => v[i] <= v[j] /\ t[i] <= t[j]
  <2>1. \A i \in 1..(n - 1) : i \in 1..n /\ i + 1 \in 1..n
    OBVIOUS
  <2>2. \A i \in 1..(n - 1) : v[i] <= v[i + 1]
    BY <1>1, <1>4, <2>1
  <2>3. \A i, j \in 1..n : i <= j => v[i] <= v[j]
    BY <2>2, NeverFalls
  <2>4. \A i, j \in 1..n : i <= j => t[i] <= t[j]
    BY <1>1, <1>5 DEF InTime
  <2> QED BY <2>3, <2>4
<1>7. PICK mid \in Int : mid = MidValue(s) /\ mid = v[h + 1] /\ h + 1 \in 1..n
  <2>1. h + 1 \in 1..n /\ MidValue(s) = s[h + 1].value
    BY <1>1, <1>2 DEF MidValue
  <2> QED BY <1>4, <2>1
<1>8. PICK A \in Int : A = FirstSum(s) /\ A <= mid * h
  <2>1. PICK f \in [1..h -> Int] : f = ValuesOf(FirstHalf(s)) /\ \A i \in 1..h : f[i] = s[i].value
    BY <1>3 DEF HalvesOf
  <2> DEFINE g == [i \in 1..h |-> -f[i]]
  <2>2. g \in [1..h -> Int] /\ Negates(g, f, h)
    BY DEF Negates
  <2>3. ASSUME NEW i \in 1..h
        PROVE  -mid <= g[i]
    <3>1. i \in 1..n /\ i <= h + 1
      BY <1>2
    <3>2. f[i] = v[i] /\ v[i] <= mid
      BY <1>4, <1>6, <1>7, <2>1, <3>1
    <3> QED BY <3>2
  <2> HIDE DEF g
  <2>4. SumOf(f) \in Int /\ SumOf(g) = -SumOf(f)
    BY <2>2, SumNegates
  <2>5. -mid \in Int
    OBVIOUS
  <2>6. (-mid) * h <= SumOf(g)
    BY <2>2, <2>3, <2>5, SumAtLeast
  <2>7. PICK p \in Int : p = mid * h /\ (-mid) * h = -p
    OBVIOUS
  <2>8. SumOf(f) <= mid * h
    BY <2>4, <2>6, <2>7
  <2> QED BY <2>1, <2>4, <2>8 DEF FirstSum
<1>9. PICK B \in Int : B = SecondSum(s) /\ mid * (n - h) <= B
  <2>0. PICK k \in Nat : k = n - h
    BY <1>2
  <2>1. PICK f \in [1..k -> Int] : f = ValuesOf(SecondHalf(s)) /\ \A i \in 1..k : f[i] = s[h + i].value
    BY <1>1, <1>3, <2>0 DEF HalvesOf
  <2>2. ASSUME NEW i \in 1..k
        PROVE  mid <= f[i]
    <3>1. h + i \in 1..n /\ h + 1 <= h + i
      BY <1>2, <2>0
    <3>2. f[i] = v[h + i] /\ mid <= v[h + i]
      BY <1>4, <1>6, <1>7, <2>1, <3>1
    <3> QED BY <3>2
  <2>3. SumOf(f) \in Int /\ mid * k <= SumOf(f)
    BY <2>2, SumAtLeast
  <2> QED BY <2>0, <2>1, <2>3 DEF SecondSum
<1>10. NumOf(s) \in Int /\ NumOf(s) >= 0 /\ DenOf(s) \in Int /\ DenOf(s) >= 0
  <2> DEFINE dx == Deviations(t, n)
             dy == Deviations(v, n)
  <2>1. dx \in [1..n -> Int] /\ SumOf(dx) = 0 /\ dy \in [1..n -> Int]
    BY DeviationsBalance
  <2>2. ASSUME NEW f \in [1..n -> Int], NEW i \in 1..n, NEW j \in 1..n, f[i] <= f[j]
        PROVE  Deviations(f, n)[i] <= Deviations(f, n)[j]
    <3>1. PICK total \in Int : total = SumOf(f)
      BY DeviationsBalance
    <3>2. PICK a \in Int, b \in Int : a = f[i] /\ b = f[j] /\ a <= b
      BY <2>2
    <3>3. \A d \in Nat : n * d >= 0
      OBVIOUS
    <3>4. PICK d \in Nat : d = b - a
      BY <3>2
    <3>5. n * b = n * a + n * d
      BY <3>4
    <3>6. n * a - total <= n * b - total
      BY <3>3, <3>5
    <3> QED BY <3>1, <3>2, <3>6 DEF Deviations
  <2>3. \A i, j \in 1..n : i <= j => dx[i] <= dx[j] /\ dy[i] <= dy[j]
    BY <1>6, <2>2
  <2>4. NumOf(s) = SumOf([i \in 1..n |-> dx[i] * dy[i]])
    BY <1>1, <1>4, <1>5 DEF NumOf
  <2> HIDE DEF dx, dy
  <2>5. SumOf([i \in 1..n |-> dx[i] * dy[i]]) >= 0
    BY <2>1, <2>3, GrowTogether
  <2> QED BY <2>4, <2>5, ProductsAreIntegers
<1>11. PICK num \in Nat : num = SlopeNum(s)
  BY <1>10 DEF SlopeNum
<1>12. PICK den \in Nat : den = SlopeDen(s)
  BY <1>10 DEF SlopeDen
<1>13. PICK th \in Nat : th = Threshold * den
  <2>1. Threshold \in Nat
    BY WindowAssumption
  <2>2. \A x \in Nat, y \in Nat : x * y \in Nat
    OBVIOUS
  <2> QED BY <2>1, <2>2
<1>14. Trajectory(s) = CourseOf(mid, A, h, B, n - h, num, den)
  BY <1>1, <1>2, <1>7, <1>8, <1>9, <1>11, <1>12, TrajectoryIs
<1>15. ~(mid * (n - h) > B) /\ ~(mid * h < A)
  <2>1. PICK p \in Int : p = mid * h
    OBVIOUS
  <2>2. PICK q \in Int : q = mid * (n - h)
    OBVIOUS
  <2> QED BY <1>8, <1>9, <2>1, <2>2
<1>16. ~(100 * num < -th)
  OBVIOUS
<1>17. CourseOf(mid, A, h, B, n - h, num, den)
         = IF 100 * num > th THEN "Rising" ELSE "Plateau"
  BY <1>13, <1>15, <1>16, Zenon DEF CourseOf
<1> QED BY <1>14, <1>17

\* The mirror image of a course has the mirror image of its name
LEMMA MirrorIsNamed ==
  ASSUME NEW s \in Seq(Sample)
  PROVE  Trajectory(Mirror(s)) = Mirrored(Trajectory(s))
<1>1. Mirror(s) \in Seq(Sample) /\ Len(Mirror(s)) = Len(s) /\ Len(s) \in Nat
  BY MirrorIs, Columns
<1>2. CASE Len(s) < 3
  <2>1. \A u : Len(u) \in Nat /\ Len(u) < 3 => Trajectory(u) = "Unknown"
    <3> SUFFICES ASSUME NEW u, Len(u) \in Nat, Len(u) < 3
                 PROVE  Trajectory(u) = "Unknown"
      OBVIOUS
    <3>1. ~(Len(u) >= 3)
      OBVIOUS
    <3> QED BY <3>1 DEF Trajectory
  <2>2. Trajectory(Mirror(s)) = "Unknown" /\ Trajectory(s) = "Unknown"
    BY <1>1, <1>2, <2>1
  <2> QED BY <2>2 DEF Mirrored
<1>3. CASE Len(s) >= 3
  <2>1. PICK h \in Nat : h = Len(s) \div 2 /\ h < Len(s)
    BY <1>3, Halves
  <2>2. PICK k \in Nat : k = Len(s) - h
    BY <1>1, <2>1
  <2>3. Trajectory(s) = CourseOf(MidValue(s), FirstSum(s), h, SecondSum(s), k, SlopeNum(s), SlopeDen(s))
    BY <1>3, <2>1, <2>2, TrajectoryIs
  <2>4. Trajectory(Mirror(s))
          = CourseOf(MidValue(Mirror(s)), FirstSum(Mirror(s)), h, SecondSum(Mirror(s)), k,
                     SlopeNum(Mirror(s)), SlopeDen(Mirror(s)))
    BY <1>1, <1>3, <2>1, <2>2, TrajectoryIs
  <2>5. Trajectory(Mirror(s))
          = CourseOf(-MidValue(s), -FirstSum(s), h, -SecondSum(s), k, -SlopeNum(s), SlopeDen(s))
    BY <1>3, <2>4, MirrorParts
  <2>6. /\ MidValue(s) \in Int /\ FirstSum(s) \in Int /\ SecondSum(s) \in Int
        /\ SlopeNum(s) \in Int /\ SlopeDen(s) \in Nat
    BY <1>3, MirrorParts
  <2>7. PICK mid \in Int, A \in Int, B \in Int, num \in Int, den \in Nat :
          /\ mid = MidValue(s) /\ A = FirstSum(s) /\ B = SecondSum(s)
          /\ num = SlopeNum(s) /\ den = SlopeDen(s)
    BY <2>6
  <2>8. CourseOf(-mid, -A, h, -B, k, -num, den) = Mirrored(CourseOf(mid, A, h, B, k, num, den))
    <3>1. NameMirrors(mid, A, h, B, k, num, den)
      BY MirrorName
    <3> QED BY <3>1, Zenon DEF NameMirrors
  <2> QED BY <2>3, <2>5, <2>7, <2>8, Zenon
<1> QED BY <1>1, <1>2, <1>3

\* The samples kept are samples, in the order of their ticks
SamplesInv == samples \in Seq(Sample) /\ InTime(samples)

\* What CourseFollowsSamples says, of any such samples
LEMMA CourseLaw ==
  ASSUME SamplesInv
  PROVE  CourseFollowsSamples
<1>1. Trajectory(Mirror(samples)) = Mirrored(Course)
  BY MirrorIsNamed DEF SamplesInv, Course
<1>2. ASSUME \A i \in 1..(Len(samples) - 1) : samples[i].value <= samples[i + 1].value
      PROVE  Course \in {"Rising", "Plateau", "Unknown"}
  <2>1. Len(samples) \in Nat
    BY Columns DEF SamplesInv
  <2>2. CASE Len(samples) < 3
    <3>1. ~(Len(samples) >= 3)
      BY <2>1, <2>2
    <3> QED BY <2>2, <3>1 DEF Trajectory, Course
  <2>3. CASE Len(samples) >= 3
    <3>1. Trajectory(samples) \in {"Rising", "Plateau"}
      BY <1>2, <2>3, GrowingIsNamed DEF SamplesInv
    <3> QED BY <3>1 DEF Course
  <2> QED BY <2>1, <2>2, <2>3
<1> QED BY <1>1, <1>2 DEF CourseFollowsSamples

\* A sample later than the last keeps the order, and so does dropping the oldest
LEMMA SampleAdded ==
  ASSUME SamplesInv, NEW v \in Values, NEW g \in Gaps,
         PushSample((IF samples = << >> THEN 0 ELSE Last(samples).tick) + g, v)
  PROVE  SamplesInv'
<1>1. PICK n \in Nat : n = Len(samples)
  BY Columns DEF SamplesInv
<1>2. v \in Int /\ g \in Nat
  BY ObserversAssumption
<1>3. \A i \in 1..n : samples[i] \in Sample
  BY <1>1, ElementOfSeq DEF SamplesInv
<1>4. PICK t \in Int : /\ t = (IF samples = << >> THEN 0 ELSE Last(samples).tick) + g
                       /\ n > 0 => samples[n].tick \in Int /\ samples[n].tick <= t
  <2>1. CASE samples = << >>
    <3>1. n = 0
      BY <1>1, <2>1, EmptySeq DEF SamplesInv
    <3> QED BY <1>2, <2>1, <3>1
  <2>2. CASE samples # << >>
    <3>1. n > 0
      BY <1>1, <2>2, EmptySeq DEF SamplesInv
    <3>2. n \in 1..n /\ Last(samples) = samples[n]
      BY <1>1, <3>1 DEF Last
    <3>3. samples[n].tick \in Int
      BY <1>3, <3>2 DEF Sample
    <3> QED BY <1>2, <2>2, <3>2, <3>3
  <2> QED BY <2>1, <2>2
<1> DEFINE e == [tick |-> t, value |-> v]
           a == Append(samples, e)
<1>5. e \in Sample
  BY <1>2 DEF Sample
<1>6. /\ a \in Seq(Sample) /\ a # << >> /\ Len(a) = n + 1
      /\ \A i \in 1..n : a[i] = samples[i]
      /\ a[n + 1] = e
  BY <1>1, <1>5, AppendProperties DEF SamplesInv
<1>7. e.tick = t
  OBVIOUS
<1>8. samples' = DropOldest(a)
  BY <1>4 DEF PushSample
<1> HIDE DEF e, a
<1>9. \A i, j \in 1..(n + 1) : i <= j => a[i].tick <= a[j].tick
  <2> SUFFICES ASSUME NEW i \in 1..(n + 1), NEW j \in 1..(n + 1), i <= j
               PROVE  a[i].tick <= a[j].tick
    OBVIOUS
  <2>1. CASE j \in 1..n
    <3>1. i \in 1..n
      BY <2>1
    <3>2. samples[i].tick <= samples[j].tick
      BY <1>1, <2>1, <3>1 DEF SamplesInv, InTime
    <3> QED BY <1>6, <2>1, <3>1, <3>2
  <2>2. CASE j \notin 1..n /\ i \in 1..n
    <3>1. j = n + 1 /\ n > 0 /\ n \in 1..n /\ i <= n
      BY <2>2
    <3>2. samples[i].tick <= samples[n].tick
      BY <1>1, <2>2, <3>1 DEF SamplesInv, InTime
    <3>3. samples[i].tick \in Int
      BY <1>3, <2>2 DEF Sample
    <3>4. a[j].tick = t /\ a[i].tick = samples[i].tick
      BY <1>6, <1>7, <2>2, <3>1
    <3> QED BY <1>4, <3>1, <3>2, <3>3, <3>4
  <2>3. CASE j \notin 1..n /\ i \notin 1..n
    <3>1. i = n + 1 /\ j = n + 1
      BY <2>3
    <3>2. a[i].tick = t /\ a[j].tick = t
      BY <1>6, <1>7, <3>1
    <3> QED BY <3>2
  <2> QED BY <2>1, <2>2, <2>3
<1>10. CASE samples' = a
  BY <1>6, <1>9, <1>10 DEF SamplesInv, InTime
<1>11. CASE samples' = Tail(a)
  <2>1. /\ samples' \in Seq(Sample) /\ Len(samples') = n
        /\ \A i \in 1..n : samples'[i] = a[i + 1]
    <3>1. /\ Tail(a) \in Seq(Sample) /\ Len(Tail(a)) = Len(a) - 1
          /\ \A i \in 1..Len(Tail(a)) : Tail(a)[i] = a[i + 1]
      BY <1>6, HeadTailProperties
    <3>2. Len(Tail(a)) = n
      BY <1>6, <3>1
    <3> QED BY <1>11, <3>1, <3>2
  <2>2. \A i, j \in 1..n : i <= j => a[i + 1].tick <= a[j + 1].tick
    <3> SUFFICES ASSUME NEW i \in 1..n, NEW j \in 1..n, i <= j
                 PROVE  a[i + 1].tick <= a[j + 1].tick
      OBVIOUS
    <3>1. i + 1 \in 1..(n + 1) /\ j + 1 \in 1..(n + 1) /\ i + 1 <= j + 1
      OBVIOUS
    <3> QED BY <1>9, <3>1
  <2> QED BY <2>1, <2>2 DEF SamplesInv, InTime
<1> QED BY <1>8, <1>10, <1>11 DEF DropOldest

\* Every call of every observer keeps it
LEMMA SamplesStep ==
  ASSUME SamplesInv, [ObserversNext]_observers
  PROVE  SamplesInv'
<1>1. CASE UNCHANGED samples
  BY <1>1 DEF SamplesInv, InTime
<1>2. CASE TensionReset
  <2>1. samples' = << >> /\ << >> \in Seq(Sample) /\ Len(<< >>) = 0
    BY <1>2 DEF TensionReset
  <2> QED BY <2>1 DEF SamplesInv, InTime
<1>3. \/ \E v \in Values, g \in Gaps :
           PushSample((IF samples = << >> THEN 0 ELSE Last(samples).tick) + g, v)
      \/ TensionReset
      \/ UNCHANGED samples
  BY Zenon DEF ObserversNext, TensionNext, observers
<1> QED BY <1>1, <1>2, <1>3, SampleAdded, Zenon

-----------------------------------------------------------------------------
(* The theorems *)

\* However its calls follow each other, check_filo, asked right after a call,
\* blames each thread the call was the first to close on exactly the threads
\* opened after it and not closed, and reports no violation twice.
THEOREM FiloReport == ObserversSpec => ClosingsAreReported
<1>1. ObserversInit => OrdersTyped /\ OpenedOnce
  BY DEF ObserversInit, ThreadInit, OrdersTyped, OpenedOnce
<1>2. OrdersTyped /\ OpenedOnce /\ [ObserversNext]_observers => OrdersTyped' /\ OpenedOnce'
  <2> SUFFICES ASSUME OrdersTyped, OpenedOnce, [ObserversNext]_observers
               PROVE  OrdersTyped' /\ OpenedOnce'
    OBVIOUS
  <2>1. \/ \E d : ObserveDelta(d)
        \/ \E n \in ThreadNames : RecordOpen(n) \/ RecordClose(n)
        \/ ThreadReset
        \/ UNCHANGED threadVars
    BY Zenon DEF ObserversNext, ThreadsNext, observers
  <2> QED BY <2>1, ThreadCalls, Zenon
<1>3. OrdersTyped /\ OpenedOnce
        => FiloPairs /\ \A n \in Recorded(close_order) :
             {v.blocking_thread : v \in {w \in Violations : w.closed_thread = n}} = OpenAbove(n)
  BY FiloLaw, FiloBlames
<1>4. (OrdersTyped /\ OpenedOnce)' => ClosedAreBlamed
  <2>1. (OrdersTyped /\ OpenedOnce)'
          => (FiloPairs /\ \A n \in Recorded(close_order) :
                {v.blocking_thread : v \in {w \in Violations : w.closed_thread = n}} = OpenAbove(n))'
    BY <1>3, PTL
  <2>2. FiloPairs' => Cardinality(CheckFilo') = Cardinality(Violations')
    BY DEF FiloPairs
  <2> QED BY <2>1, <2>2 DEF ClosedAreBlamed, Recorded
<1> QED BY <1>1, <1>2, <1>4, PTL DEF ObserversSpec, ClosingsAreReported

\* The distance end_tick records of a tick is the one from the last tick that
\* had events, and zero when there is none or the tick is quiet, for every
\* metric watched and any number of quiet ticks and resets.
THEOREM PivotReport == ObserversSpec => []PivotSpansQuietTicks
<1>1. ObserversInit => PivotHolds
  <2> SUFFICES ASSUME ObserversInit PROVE PivotHolds
    OBVIOUS
  <2>1. /\ past = << >> /\ history = << >> /\ current_counts = NoCounts /\ prev_distribution = NoCounts
        /\ NoCounts \in Distributions
    BY DEF ObserversInit, PivotInit, Distributions, NoCounts
  <2>2. Eventful(1) = {}
    BY DEF Eventful
  <2> QED BY <2>1, <2>2 DEF PivotHolds, PivotInv
<1>2. PivotHolds /\ [ObserversNext]_observers => PivotHolds'
  BY PivotHoldsStep
<1>3. PivotHolds => PivotSpansQuietTicks
  <2>1. ASSUME NEW metric, PivotInv(metric)
        PROVE  history = [i \in DOMAIN past |-> MarkOf(metric, i)]
    <3>1. DOMAIN history = DOMAIN past /\ history = [i \in DOMAIN history |-> history[i]]
      BY <2>1 DEF PivotInv
    <3> QED BY <2>1, <3>1 DEF PivotInv
  <2> QED BY <2>1 DEF PivotHolds, PivotSpansQuietTicks, MarkOf
<1> QED BY <1>1, <1>2, <1>3, PTL DEF ObserversSpec

\* Both ways of feeding the surprise scorer count in how many rounds a pattern
\* matched, and the sequential scorer's probabilities of the successors of a
\* pattern sum to one, after any sequence of calls (observe, observe_events and
\* tick of surprise.rs, observe_transition of sequential.rs).
THEOREM SharesReport == ObserversSpec => []SharesOfWhatWasSeen
<1>1. ObserversInit => RoundsInv /\ RowsInv
  <2> SUFFICES ASSUME ObserversInit PROVE RoundsInv /\ RowsInv
    OBVIOUS
  <2>1. /\ past = << >> /\ baselines = NoEntry /\ counts = NoEntry /\ total_rounds = 0
        /\ rows = NoEntry
    BY DEF ObserversInit, PatternScorerInit
  <2>2. DOMAIN past = {} /\ past \in Seq(Entries) /\ DOMAIN NoEntry = {}
    BY <2>1 DEF NoEntry
  <2>3. Over = {} /\ (\A i : With(i) = {}) /\ Cardinality({}) = 0
    BY <2>2, FS_EmptySet DEF Over, With
  <2>4. \A i : Entry(counts, i, 0) = 0
    BY <2>1, <2>2 DEF Entry
  <2>5. RoundsInv
    BY <2>1, <2>2, <2>3, <2>4 DEF RoundsInv, RoundsKept
  <2>6. RowsInv
    BY <2>1, <2>2 DEF RowsInv
  <2> QED BY <2>5, <2>6
<1>2. RoundsInv /\ RowsInv /\ [ObserversNext]_observers => RoundsInv' /\ RowsInv'
  BY RoundsStep, RowsStep
<1>3. RoundsInv /\ RowsInv => SharesOfWhatWasSeen
  BY RoundsLaw, RowsLaw DEF SharesOfWhatWasSeen
<1> QED BY <1>1, <1>2, <1>3, PTL DEF ObserversSpec

\* After any matches and resets: the table of a pattern is the sum of the tables
\* of its roles (observe_one of stu.rs and of role_conditioned.rs), correcting
\* for correlated properties lowers no frequency and needs no clamping; and with
\* the arithmetic mean and the minimum no score is above that of a match about
\* which nothing is known, with the geometric mean no score by role.  Of the
\* fourth aggregation, TfIdf, nothing is said of the scores.
THEOREM ScoresReport == ObserversSpec => []ScoresAreConsistent
<1>1. ObserversInit => TablesInv
  <2> SUFFICES ASSUME ObserversInit PROVE TablesInv
    OBVIOUS
  <2>1. DOMAIN tables = {} /\ DOMAIN role_tables = {}
    BY TablesEmpty DEF ObserversInit, ScorerInit
  <2>2. IsFiniteSet({})
    BY FS_EmptySet
  <2> QED BY <2>1, <2>2 DEF TablesInv
<1>2. TablesInv /\ [ObserversNext]_observers => TablesInv'
  BY TablesStep
<1>3. TablesInv => ScoresAreConsistent
  BY RolesLaw, PmiLaw, UnobservedLaw DEF ScoresAreConsistent
<1> QED BY <1>1, <1>2, <1>3, PTL DEF ObserversSpec

\* However its samples and resets follow each other, the name the tension
\* tracker gives to a course has no bias: the mirror image of the samples gets
\* the mirror image of the name, and samples that never fall are never named
\* falling, peak or valley, however irregular their ticks (trajectory, slope).
THEOREM CourseReport == ObserversSpec => []CourseFollowsSamples
<1>1. ObserversInit => SamplesInv
  <2> SUFFICES ASSUME ObserversInit PROVE SamplesInv
    OBVIOUS
  <2>1. samples = << >> /\ << >> \in Seq(Sample) /\ Len(<< >>) = 0
    BY DEF ObserversInit, TensionInit
  <2> QED BY <2>1 DEF SamplesInv, InTime
<1>2. SamplesInv /\ [ObserversNext]_observers => SamplesInv'
  BY SamplesStep
<1>3. SamplesInv => CourseFollowsSamples
  BY CourseLaw
<1> QED BY <1>1, <1>2, <1>3, PTL DEF ObserversSpec
=============================================================================
