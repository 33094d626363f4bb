---------------------------- MODULE RelationProofs ---------------------------
(***************************************************************************)
(* Relations of intervals, and what is mined from them.                    *)
(*                                                                         *)
(* The interval algebra over any set of integers: relations are those of   *)
(* the end points, swapping inverts them, distances are symmetric, and two *)
(* intervals intersect exactly when they share an instant.                 *)
(*                                                                         *)
(* Discovery over any log of edges: every pattern a session mines is borne *)
(* out by two edges of the log, and matches in the evaluator's copy of it  *)
(* when it says that one edge precedes the other.                          *)
(***************************************************************************)
EXTENDS IntervalPairs, Discovery, FiniteSetTheorems, TLAPS

\* What a pair of intervals is throughout a behaviour
Pair == a \in Proper /\ b \in Proper

\* A proper interval is open, or [s, t) with s < t
LEMMA ProperInterval ==
  ASSUME NEW iv \in Proper
  PROVE  /\ iv.start \in Times /\ iv.start \in Int
         /\ \/ iv.end = {}
            \/ \E t \in Times : t \in Int /\ iv.end = {t} /\ iv.start < t /\ EndOf(iv) = t
<1>1. PICK s \in Times, en \in {{}} \cup {{t} : t \in Times} : iv = [start |-> s, end |-> en]
  BY DEF Proper, IntervalsOver
<1>2. iv.start = s /\ iv.end = en
  BY <1>1
<1>3. s \in Int
  BY TimesAssumption DEF TimesAssumption
<1>4. CASE en = {}
  BY <1>2, <1>3, <1>4
<1>5. CASE en # {}
  <2>1. PICK t \in Times : en = {t}
    BY <1>5
  <2>2. t \in Int /\ s < t
    BY <1>2, <2>1, TimesAssumption DEF TimesAssumption, Proper
  <2>3. EndOf(iv) = t
    BY <1>2, <2>1 DEF EndOf
  <2> QED BY <1>2, <1>3, <2>1, <2>2, <2>3
<1> QED BY <1>4, <1>5

\* Exactly one test holds of two proper intervals with ends, and it gives
\* their relation.
LEMMA RelationCases ==
  ASSUME NEW x, NEW y, IsBounded(x), IsBounded(y),
         NEW s \in Int, NEW t \in Int, NEW u \in Int, NEW v \in Int, s < t, u < v,
         x.start = s, EndOf(x) = t, y.start = u, EndOf(y) = v
  PROVE  \E rel : Holds(rel, s, t, u, v) /\ Relation(x, y) = {rel}
<1> DEFINE hits == {i \in DOMAIN TestOrder : Holds(TestOrder[i], s, t, u, v)}
           first == {h \in hits : \A k \in hits : h <= k}
<1>1. Relation(x, y) = {TestOrder[i] : i \in first}
  BY DEF Relation
<1>2. DOMAIN TestOrder = 1..13
  BY DEF TestOrder
<1>3. \E k \in 1..13 : hits = {k}
  <2>1. CASE t <= u
    <3>1. hits = {1} \/ hits = {3}
      BY <2>1, <1>2 DEF Holds, HoldsApart, TestOrder
    <3> QED BY <3>1
  <2>2. CASE v <= s
    <3>1. hits = {2} \/ hits = {4}
      BY <2>2, <1>2 DEF Holds, HoldsApart, TestOrder
    <3> QED BY <3>1
  <2>3. CASE u < t /\ s < v /\ s = u
    <3>1. hits = {5} \/ hits = {6} \/ hits = {7}
      BY <2>3, <1>2 DEF Holds, HoldsApart, TestOrder
    <3> QED BY <3>1
  <2>4. CASE u < t /\ s < v /\ s < u
    <3>1. hits = {9} \/ hits = {11} \/ hits = {12}
      BY <2>4, <1>2 DEF Holds, HoldsApart, TestOrder
    <3> QED BY <3>1
  <2>5. CASE u < t /\ s < v /\ u < s
    <3>1. hits = {8} \/ hits = {10} \/ hits = {13}
      BY <2>5, <1>2 DEF Holds, HoldsApart, TestOrder
    <3> QED BY <3>1
  <2> QED BY <2>1, <2>2, <2>3, <2>4, <2>5
<1>4. PICK k \in 1..13 : hits = {k}
  BY <1>3
<1>5. Holds(TestOrder[k], s, t, u, v)
  BY <1>4
<1> HIDE DEF hits
<1>6. first = {k}
  BY <1>4
<1> HIDE DEF first
<1> QED BY <1>1, <1>5, <1>6

\* Two proper intervals have a relation exactly when both have an end
LEMMA PairCases ==
  ASSUME NEW x \in Proper, NEW y \in Proper
  PROVE  \/ ~(IsBounded(x) /\ IsBounded(y)) /\ Relation(x, y) = {}
         \/ /\ IsBounded(x) /\ IsBounded(y)
            /\ \E t, v \in Int, rel \in Relation(x, y) :
                 /\ x.end = {t} /\ y.end = {v} /\ x.start < t /\ y.start < v
                 /\ EndOf(x) = t /\ EndOf(y) = v
                 /\ Holds(rel, x.start, t, y.start, v) /\ Relation(x, y) = {rel}
<1>1. CASE ~(IsBounded(x) /\ IsBounded(y))
  BY <1>1 DEF Relation
<1>2. CASE IsBounded(x) /\ IsBounded(y)
  <2>1. PICK t \in Int : x.end = {t} /\ x.start < t /\ EndOf(x) = t
    BY <1>2, ProperInterval DEF IsBounded
  <2>2. PICK v \in Int : y.end = {v} /\ y.start < v /\ EndOf(y) = v
    BY <1>2, ProperInterval DEF IsBounded
  <2>3. x.start \in Int /\ y.start \in Int
    BY ProperInterval
  <2>4. PICK rel : Holds(rel, x.start, t, y.start, v) /\ Relation(x, y) = {rel}
    BY <1>2, <2>1, <2>2, <2>3, RelationCases
  <2> QED BY <1>2, <2>1, <2>2, <2>4
<1> QED BY <1>1, <1>2

\* The relation that holds of the swapped pair is the inverse
LEMMA SwappedHolds ==
  ASSUME NEW s \in Int, NEW t \in Int, NEW u \in Int, NEW v \in Int, s < t, u < v,
         NEW rel, Holds(rel, s, t, u, v), NEW back, Holds(back, u, v, s, t)
  PROVE  back = InverseRelation[rel]
<1>1. CASE t <= u \/ v <= s
  BY <1>1 DEF Holds, HoldsApart, InverseRelation
<1>2. CASE u < t /\ s < v /\ s = u
  BY <1>2 DEF Holds, HoldsApart, InverseRelation
<1>3. CASE u < t /\ s < v /\ s < u
  BY <1>3 DEF Holds, HoldsApart, InverseRelation
<1>4. CASE u < t /\ s < v /\ u < s
  BY <1>4 DEF Holds, HoldsApart, InverseRelation
<1> QED BY <1>1, <1>2, <1>3, <1>4

\* Swapping a pair inverts its relation
LEMMA Inverts == Pair => RelationInverts
<1> SUFFICES ASSUME Pair PROVE RelationInverts
  OBVIOUS
<1> USE DEF Pair
<1>1. CASE ~(IsBounded(a) /\ IsBounded(b))
  BY <1>1, PairCases DEF RelationInverts
<1>2. CASE IsBounded(a) /\ IsBounded(b)
  <2>1. PICK t, v \in Int, rel \in Relation(a, b) :
          /\ a.end = {t} /\ b.end = {v} /\ a.start < t /\ b.start < v
          /\ EndOf(a) = t /\ EndOf(b) = v
          /\ Holds(rel, a.start, t, b.start, v) /\ Relation(a, b) = {rel}
    BY <1>2, PairCases
  <2>2. PICK back : Holds(back, b.start, v, a.start, t) /\ Relation(b, a) = {back}
    <3>1. \E x, y \in Int, back \in Relation(b, a) :
            /\ b.end = {x} /\ a.end = {y}
            /\ Holds(back, b.start, x, a.start, y) /\ Relation(b, a) = {back}
      BY <1>2, PairCases
    <3> QED BY <2>1, <3>1
  <2>3. back = InverseRelation[rel]
    BY <2>1, <2>2, ProperInterval, SwappedHolds
  <2>4. Relation(b, a) = {InverseRelation[r] : r \in Relation(a, b)}
    BY <2>1, <2>2, <2>3
  <2> QED BY <1>2, <2>1, <2>4 DEF RelationInverts
<1> QED BY <1>1, <1>2

\* The later of the two starts is the instant two intersecting intervals share
LEMMA CommonInstant ==
  ASSUME NEW x \in Proper, NEW y \in Proper
  PROVE  Intersects(x, y) <=> Instants(x) \cap Instants(y) # {}
<1> USE DEF Instants, Covers, Intersects
<1>0. \A t \in Times : t \in Int
  BY TimesAssumption DEF TimesAssumption
<1>1. ASSUME Intersects(x, y) PROVE Instants(x) \cap Instants(y) # {}
  <2>1. CASE x.start <= y.start
    <3>1. y.start \in Instants(x) /\ y.start \in Instants(y)
      BY <1>1, <2>1, ProperInterval
    <3> QED BY <3>1
  <2>2. CASE y.start <= x.start
    <3>1. x.start \in Instants(x) /\ x.start \in Instants(y)
      BY <1>1, <2>2, ProperInterval
    <3> QED BY <3>1
  <2> QED BY <2>1, <2>2, ProperInterval
<1>2. ASSUME NEW i \in Instants(x) \cap Instants(y) PROVE Intersects(x, y)
  <2>1. i \in Int
    BY <1>0
  <2> QED BY <2>1, ProperInterval
<1> QED BY <1>1, <1>2

\* Of a pair, the relation and the intersection say the same
LEMMA Shares == Pair => SharesInstant
<1> SUFFICES ASSUME Pair PROVE SharesInstant
  OBVIOUS
<1> USE DEF Pair
<1>1. ASSUME NEW r \in Relation(a, b)
      PROVE  /\ r \in Disjoint <=> ~Intersects(a, b)
             /\ r \in BeforeOrMeets <=> StartsAfterEnd(a, b)
  <2>1. PICK t, v \in Int, rel \in Relation(a, b) :
          /\ a.end = {t} /\ b.end = {v} /\ a.start < t /\ b.start < v
          /\ Holds(rel, a.start, t, b.start, v) /\ Relation(a, b) = {rel}
    BY <1>1, PairCases
  <2>2. r = rel /\ a.start \in Int /\ b.start \in Int
    BY <2>1, ProperInterval
  <2>3. Intersects(a, b) <=> a.start < v /\ b.start < t
    BY <2>1 DEF Intersects
  <2>4. StartsAfterEnd(a, b) <=> t <= b.start
    BY <2>1 DEF StartsAfterEnd
  <2> QED BY <2>1, <2>2, <2>3, <2>4 DEF Holds, HoldsApart, Disjoint, BeforeOrMeets
<1> QED BY <1>1, CommonInstant DEF SharesInstant

\* The distances between bounded intervals that depend on their ends
LEMMA EndGaps ==
  ASSUME NEW x \in Proper, NEW y \in Proper, NEW t \in Int, NEW v \in Int,
         x.end = {t}, y.end = {v}
  PROVE  /\ Gap(x, y, "Before") = {y.start - t} /\ Gap(x, y, "After") = {x.start - v}
         /\ Gap(x, y, "Overlaps") = {t - y.start} /\ Gap(x, y, "OverlappedBy") = {v - x.start}
         /\ Gap(x, y, "Starts") = {v - t} /\ Gap(x, y, "StartedBy") = {t - v}
<1>1. /\ Gap(x, y, "Before") = {y.start - t} /\ Gap(x, y, "After") = {x.start - v}
      /\ Gap(x, y, "Overlaps") = {t - y.start} /\ Gap(x, y, "OverlappedBy") = {v - x.start}
  BY DEF Gap
<1>2. x.end \X y.end = {<<t, v>>}
  OBVIOUS
<1>3. Gap(x, y, "Starts") = {ends[2] - ends[1] : ends \in {<<t, v>>}}
  BY <1>2, Zenon DEF Gap
<1>4. Gap(x, y, "StartedBy") = {ends[1] - ends[2] : ends \in {<<t, v>>}}
  BY <1>2 DEF Gap
<1>5. <<t, v>>[1] = t /\ <<t, v>>[2] = v
  OBVIOUS
<1>6. {ends[2] - ends[1] : ends \in {<<t, v>>}} = {v - t}
  BY <1>5
<1>7. {ends[1] - ends[2] : ends \in {<<t, v>>}} = {t - v}
  BY <1>5
<1> QED BY <1>1, <1>3, <1>4, <1>6, <1>7, Zenon

\* Of a pair, the distance is one from either side
LEMMA Distance == Pair => GapIsDistance
<1> SUFFICES ASSUME Pair, NEW r \in Relation(a, b)
             PROVE  /\ Gap(a, b, r) = Gap(b, a, InverseRelation[r])
                    /\ Gap(a, b, r) # {} /\ \A d \in Gap(a, b, r) : d >= 0
  BY DEF GapIsDistance
<1> USE DEF Pair
<1>1. PICK t, v \in Int, rel \in Relation(a, b) :
        /\ a.end = {t} /\ b.end = {v} /\ a.start < t /\ b.start < v
        /\ Holds(rel, a.start, t, b.start, v) /\ Relation(a, b) = {rel}
  BY PairCases
<1>2. r = rel /\ a.start \in Int /\ b.start \in Int
  BY <1>1, ProperInterval
<1>3. CASE r \in {"Before", "After", "Overlaps", "OverlappedBy", "Starts", "StartedBy"}
  <2>1. CASE r = "Before"
    <3>1. InverseRelation[r] = "After"
      BY <2>1 DEF InverseRelation
    <3>2. Gap(a, b, r) = {b.start - t} /\ Gap(b, a, InverseRelation[r]) = {b.start - t}
      BY <1>1, <2>1, <3>1, EndGaps
    <3>3. b.start - t >= 0
      BY <1>1, <1>2, <2>1 DEF Holds, HoldsApart
    <3> QED BY <3>2, <3>3
  <2>2. CASE r = "After"
    <3>1. InverseRelation[r] = "Before"
      BY <2>2 DEF InverseRelation
    <3>2. Gap(a, b, r) = {a.start - v} /\ Gap(b, a, InverseRelation[r]) = {a.start - v}
      BY <1>1, <2>2, <3>1, EndGaps
    <3>3. a.start - v >= 0
      BY <1>1, <1>2, <2>2 DEF Holds, HoldsApart
    <3> QED BY <3>2, <3>3
  <2>3. CASE r = "Overlaps"
    <3>1. InverseRelation[r] = "OverlappedBy"
      BY <2>3 DEF InverseRelation
    <3>2. Gap(a, b, r) = {t - b.start} /\ Gap(b, a, InverseRelation[r]) = {t - b.start}
      BY <1>1, <2>3, <3>1, EndGaps
    <3>3. t - b.start >= 0
      BY <1>1, <1>2, <2>3 DEF Holds, HoldsApart
    <3> QED BY <3>2, <3>3
  <2>4. CASE r = "OverlappedBy"
    <3>1. InverseRelation[r] = "Overlaps"
      BY <2>4 DEF InverseRelation
    <3>2. Gap(a, b, r) = {v - a.start} /\ Gap(b, a, InverseRelation[r]) = {v - a.start}
      BY <1>1, <2>4, <3>1, EndGaps
    <3>3. v - a.start >= 0
      BY <1>1, <1>2, <2>4 DEF Holds, HoldsApart
    <3> QED BY <3>2, <3>3
  <2>5. CASE r = "Starts"
    <3>1. InverseRelation[r] = "StartedBy"
      BY <2>5 DEF InverseRelation
    <3>2. Gap(a, b, r) = {v - t} /\ Gap(b, a, InverseRelation[r]) = {v - t}
      BY <1>1, <2>5, <3>1, EndGaps
    <3>3. v - t >= 0
      BY <1>1, <1>2, <2>5 DEF Holds, HoldsApart
    <3> QED BY <3>2, <3>3
  <2>6. CASE r = "StartedBy"
    <3>1. InverseRelation[r] = "Starts"
      BY <2>6 DEF InverseRelation
    <3>2. Gap(a, b, r) = {t - v} /\ Gap(b, a, InverseRelation[r]) = {t - v}
      BY <1>1, <2>6, <3>1, EndGaps
    <3>3. t - v >= 0
      BY <1>1, <1>2, <2>6 DEF Holds, HoldsApart
    <3> QED BY <3>2, <3>3
  <2> QED BY <1>3, <2>1, <2>2, <2>3, <2>4, <2>5, <2>6
<1>4. CASE r \in {"During", "Finishes", "Contains", "FinishedBy"}
  BY <1>1, <1>2, <1>4 DEF Gap, InverseRelation, Holds, HoldsApart
<1>5. CASE r \in {"Meets", "MetBy", "Equals"}
  BY <1>1, <1>2, <1>5 DEF Gap, InverseRelation, Holds, HoldsApart
<1> QED BY <1>1, <1>2, <1>3, <1>4, <1>5 DEF Holds, HoldsApart

\* A behaviour compares proper intervals only
LEMMA PairAlways == Spec => []Pair
<1>1. Init => Pair
  BY DEF Init, Pair
<1>2. Pair /\ [Compare]_<<a, b>> => Pair'
  BY DEF Pair, Compare, Proper
<1> QED BY <1>1, <1>2, PTL DEF Spec

\* Intervals intersect exactly when they share an instant, and the relation
\* and the comparisons of interval.rs agree with that.
THEOREM IntersectionIsCommonInstant == Spec => []SharesInstant
BY PairAlways, Shares, PTL

\* The relation of the swapped pair is the inverse of the relation.
THEOREM SwappingInverts == Spec => []RelationInverts
BY PairAlways, Inverts, PTL

\* The distance a metric bound is compared with never wraps, from either side.
THEOREM GapsAreDistances == Spec => []GapIsDistance
BY PairAlways, Distance, PTL

-----------------------------------------------------------------------------
(***************************************************************************)
(* Mining.  A pattern is built of the relation of two edges of the log     *)
(* that share a node: they are what bears it out.                          *)
(***************************************************************************)

\* p is built of the edges of the log at i and j
BuiltOf(p, c, i, j) ==
  \E idx, s :
    /\ p = BuildPattern(idx, s)
    /\ c[i].label = s.label_a /\ c[j].label = s.label_b /\ s.label_a # s.label_b
    /\ SharedNode(c[i], c[j]) = {s.shared_node}
    /\ Relation(c[i].interval, c[j].interval) = {s.relation}

\* ... of some two edges of it
MinedFrom(p, c) == \E i, j \in DOMAIN c : BuiltOf(p, c, i, j)

\* Two edges share a node in one way at most
LEMMA OneWay ==
  ASSUME NEW x, NEW y, SharedNode(x, y) # {}
  PROVE  \/ SharedNode(x, y) = {"Source"} /\ x.source = y.source
         \/ SharedNode(x, y) = {"SourceTarget"} /\ x.source = y.target
         \/ SharedNode(x, y) = {"TargetSource"} /\ x.target = y.source
         \/ SharedNode(x, y) = {"Target"} /\ x.target = y.target
<1>1. CASE x.source = y.source
  BY <1>1 DEF SharedNode
<1>2. CASE x.source # y.source /\ x.source = y.target
  BY <1>2 DEF SharedNode
<1>3. CASE x.source \notin {y.source, y.target} /\ x.target = y.source
  BY <1>3 DEF SharedNode
<1>4. CASE x.source \notin {y.source, y.target} /\ x.target # y.source /\ x.target = y.target
  BY <1>4 DEF SharedNode
<1>5. CASE x.source \notin {y.source, y.target} /\ x.target # y.source /\ x.target # y.target
  BY <1>5 DEF SharedNode
<1> QED BY <1>1, <1>2, <1>3, <1>4, <1>5

\* ... and have one relation at most
LEMMA OneRelation ==
  ASSUME NEW x, NEW y, NEW r \in Relation(x, y)
  PROVE  Relation(x, y) = {r} /\ r \in {TestOrder[k] : k \in DOMAIN TestOrder}
<1> DEFINE hits == {k \in DOMAIN TestOrder : Holds(TestOrder[k], x.start, EndOf(x), y.start, EndOf(y))}
           first == {h \in hits : \A k \in hits : h <= k}
<1>1. Relation(x, y) = {TestOrder[k] : k \in first}
  BY DEF Relation
<1>2. PICK h \in first : r = TestOrder[h]
  BY <1>1
<1>3. \A k \in first : k \in 1..13
  BY DEF TestOrder
<1>4. \A k \in first : k = h
  BY <1>2, <1>3
<1>5. first = {h} /\ h \in DOMAIN TestOrder
  BY <1>2, <1>4
<1> HIDE DEF first
<1> QED BY <1>1, <1>2, <1>5

\* Some positions have a first
LEMMA FirstPosition ==
  ASSUME NEW S \in SUBSET Nat, S # {}
  PROVE  \E x \in S : \A y \in S : x <= y
<1>1. PICK x \in S : \A y \in S : <<y, x>> \notin OpToRel(<, Nat)
  BY NatLessThanWellFounded, WFMin, Zenon
<1>2. \A y \in S : ~(y < x)
  BY <1>1 DEF OpToRel
<1> QED BY <1>2

\* Of some hits one comes first
LEMMA FirstHitIsOne ==
  ASSUME NEW hits \in SUBSET (Nat \X Nat), hits # {}
  PROVE  FirstHit(hits) \in hits
<1> DEFINE I == {h[1] : h \in hits}
<1>1. I \in SUBSET Nat /\ I # {}
  OBVIOUS
<1>2. PICK m \in I : \A k \in I : m <= k
  <2> HIDE DEF I
  <2> QED BY <1>1, FirstPosition
<1> DEFINE J == {h[2] : h \in {g \in hits : g[1] = m}}
<1>3. J \in SUBSET Nat /\ J # {}
  BY <1>2
<1>4. PICK n \in J : \A k \in J : n <= k
  <2> HIDE DEF J
  <2> QED BY <1>3, FirstPosition
<1>5. PICK h \in hits : h[1] = m /\ h[2] = n
  BY <1>4
<1>6. ASSUME NEW g \in hits
      PROVE  ComesFirst(h, g)
  <2>1. g[1] \in Nat /\ m \in Nat /\ m <= g[1]
    BY <1>1, <1>2
  <2>2. g[1] = m => n <= g[2]
    BY <1>4
  <2> QED BY <1>5, <2>1, <2>2 DEF ComesFirst
<1> QED BY <1>6 DEF FirstHit

\* A statistic is one of two edges of the log
LEMMA StatsBorneOut ==
  ASSUME NEW c \in Seq(CorpusEdges), NEW s \in Stats(c), NEW idx
  PROVE  MinedFrom(BuildPattern(idx, s), c)
<1>1. PICK pair \in LabelPairs(c) : s \in PairStats(c, pair)
  BY DEF Stats
<1>2. PICK hits : hits = PairwiseRelations(c, pair[1], pair[2])
  OBVIOUS
<1>3. PICK r \in UNION {RelationAt(c, h) : h \in hits} :
        s = [ label_a |-> pair[1], label_b |-> pair[2], relation |-> r,
              count |-> Cardinality(InRelation(c, hits, r)),
              total_pair |-> Cardinality(hits), shared_node |-> ExampleOf(c, hits, r) ]
  BY <1>1, <1>2 DEF PairStats
<1>4. /\ s.label_a = pair[1] /\ s.label_b = pair[2] /\ s.relation = r
      /\ s.shared_node = ExampleOf(c, hits, r) /\ pair[1] # pair[2]
  BY <1>3 DEF LabelPairs
<1>5. PICK g \in hits : r \in RelationAt(c, g)
  BY <1>3
<1>6. RelationAt(c, g) = {r}
  BY <1>5, OneRelation DEF RelationAt
<1>7. g \in InRelation(c, hits, r)
  BY <1>5, <1>6 DEF InRelation
<1>8. \A h \in hits : /\ h \in Nat \X Nat /\ h[1] \in DOMAIN c /\ h[2] \in DOMAIN c
                      /\ c[h[1]].label = pair[1] /\ c[h[2]].label = pair[2]
                      /\ SharedNode(c[h[1]], c[h[2]]) # {}
  BY <1>2 DEF PairwiseRelations, WithLabel
<1>9. PICK h : h = FirstHit(InRelation(c, hits, r))
  OBVIOUS
<1>10. h \in InRelation(c, hits, r)
  <2>1. InRelation(c, hits, r) \in SUBSET (Nat \X Nat)
    BY <1>8 DEF InRelation
  <2> QED BY <1>7, <1>9, <2>1, FirstHitIsOne
<1>11. h \in hits /\ RelationAt(c, h) = {r}
  BY <1>10 DEF InRelation
<1>12. SharedNode(c[h[1]], c[h[2]]) = {s.shared_node}
  <2>1. s.shared_node = CHOOSE n \in SharedNode(c[h[1]], c[h[2]]) : TRUE
    BY <1>4, <1>9 DEF ExampleOf
  <2>2. \E n : SharedNode(c[h[1]], c[h[2]]) = {n}
    <3>1. PICK x, y : x = c[h[1]] /\ y = c[h[2]]
      OBVIOUS
    <3>2. SharedNode(x, y) # {}
      BY <1>8, <1>11, <3>1
    <3>3. \E n : SharedNode(x, y) = {n}
      BY <3>2, OneWay
    <3> QED BY <3>1, <3>3
  <2> QED BY <2>1, <2>2
<1>13. BuiltOf(BuildPattern(idx, s), c, h[1], h[2])
  BY <1>4, <1>8, <1>11, <1>12 DEF BuiltOf, RelationAt
<1> QED BY <1>8, <1>11, <1>13 DEF MinedFrom

\* Statistics are finitely many
LEMMA StatsFinite ==
  ASSUME NEW c \in Seq(CorpusEdges)
  PROVE  IsFiniteSet(Stats(c))
<1> DEFINE R == {TestOrder[k] : k \in DOMAIN TestOrder}
           f == [i \in DOMAIN c |-> c[i].label]
           t == [k \in DOMAIN TestOrder |-> TestOrder[k]]
<1>1. IsFiniteSet(DOMAIN c) /\ IsFiniteSet(DOMAIN TestOrder)
  <2>1. DOMAIN c = 1..Len(c) /\ Len(c) \in Nat
    OBVIOUS
  <2>2. DOMAIN TestOrder = 1..13
    BY DEF TestOrder
  <2>3. \A n \in Int : IsFiniteSet(1..n)
    BY FS_Interval
  <2> QED BY <2>1, <2>2, <2>3
<1>2. IsFiniteSet(Labels(c)) /\ IsFiniteSet(R)
  <2>1. f \in Surjection(DOMAIN c, Labels(c)) /\ t \in Surjection(DOMAIN TestOrder, R)
    BY DEF Surjection, Labels
  <2> HIDE DEF f, t, R
  <2> QED BY <1>1, <2>1, FS_Surjection
<1>3. IsFiniteSet(LabelPairs(c))
  <2>1. IsFiniteSet(Labels(c) \X Labels(c))
    BY <1>2, FS_Product
  <2>2. LabelPairs(c) \subseteq Labels(c) \X Labels(c)
    BY DEF LabelPairs
  <2> QED BY <2>1, <2>2, FS_Subset
<1>4. ASSUME NEW pair \in LabelPairs(c)
      PROVE  IsFiniteSet(PairStats(c, pair))
  <2> DEFINE hits == PairwiseRelations(c, pair[1], pair[2])
             Stat(r) == [ label_a |-> pair[1], label_b |-> pair[2], relation |-> r,
                          count |-> Cardinality(InRelation(c, hits, r)),
                          total_pair |-> Cardinality(hits), shared_node |-> ExampleOf(c, hits, r) ]
             Q == {q \in UNION {RelationAt(c, h) : h \in hits} :
                     AtLeast(Cardinality(InRelation(c, hits, q)), Cardinality(hits), MinConfidence)}
             g == [r \in Q |-> Stat(r)]
             T == {Stat(r) : r \in Q}
  <2>1. Q \subseteq R
    <3> HIDE DEF R
    <3>1. \A h, q : q \in RelationAt(c, h) => q \in R
      BY OneRelation DEF RelationAt, R
    <3> QED BY <3>1
  <2>2. IsFiniteSet(Q)
    <3> HIDE DEF Q, R
    <3> QED BY <1>2, <2>1, FS_Subset
  <2>3. IsFiniteSet(T)
    <3>1. g \in Surjection(Q, T)
      <4> HIDE DEF Stat, Q
      <4> QED BY DEF Surjection
    <3> HIDE DEF g, Q, T
    <3> QED BY <2>2, <3>1, FS_Surjection
  <2>4. PairStats(c, pair) = {} \/ PairStats(c, pair) = T
    BY DEF PairStats
  <2> HIDE DEF T
  <2> QED BY <2>3, <2>4, FS_EmptySet
<1> DEFINE P == {PairStats(c, pair) : pair \in LabelPairs(c)}
           g == [pair \in LabelPairs(c) |-> PairStats(c, pair)]
<1>5. IsFiniteSet(P) /\ \A S \in P : IsFiniteSet(S)
  <2>1. g \in Surjection(LabelPairs(c), P)
    BY DEF Surjection
  <2>2. \A S \in P : IsFiniteSet(S)
    BY <1>4
  <2> HIDE DEF g, P
  <2> QED BY <1>3, <2>1, <2>2, FS_Surjection
<1>6. Stats(c) = UNION P
  BY DEF Stats
<1> HIDE DEF P
<1> QED BY <1>5, <1>6, FS_UNION

\* A pattern of two stages of one clause each, in one relation
Shape(p, v, la, lb, r) ==
  /\ p.stages = <<Stage("e1", <<Clause(v[1], la, Bind(v[2]))>>),
                  Stage("e2", <<Clause(v[3], lb, Bind(v[4]))>>)>>
  /\ p.temporal = {[left |-> "e1", relation |-> r, right |-> "e2", gap |-> {}]}
  /\ p.negations = {} /\ p.unordered_groups = {}

\* What build_pattern builds
LEMMA BuiltShape ==
  ASSUME NEW idx, NEW s
  PROVE  Shape(BuildPattern(idx, s), EndsOf(s.shared_node), s.label_a, s.label_b, s.relation)
<1>1. PICK v : v = EndsOf(s.shared_node)
  OBVIOUS
<1>2. Shape(BuildPattern(idx, s), v, s.label_a, s.label_b, s.relation)
  BY <1>1 DEF BuildPattern, Plain, Shape
<1> QED BY <1>1, <1>2

\* ... and how its stages read
LEMMA ShapeParts ==
  ASSUME NEW p, NEW v, NEW la, NEW lb, NEW r, Shape(p, v, la, lb, r)
  PROVE  /\ StageCount(p) = 2 /\ p.stages # << >>
         /\ p.stages[1] = Stage("e1", <<Clause(v[1], la, Bind(v[2]))>>)
         /\ p.stages[2] = Stage("e2", <<Clause(v[3], lb, Bind(v[4]))>>)
         /\ p.stages[1].anchor = "e1" /\ p.stages[2].anchor = "e2"
         /\ p.stages[1].clauses[1] = Clause(v[1], la, Bind(v[2]))
         /\ p.stages[2].clauses[1] = Clause(v[3], lb, Bind(v[4]))
<1>1. p.stages[1] = Stage("e1", <<Clause(v[1], la, Bind(v[2]))>>) /\ p.stages[2] = Stage("e2", <<Clause(v[3], lb, Bind(v[4]))>>)
  BY DEF Shape
<1>2. StageCount(p) = 2 /\ p.stages # << >>
  BY DEF Shape, StageCount
<1>4. PICK c1, c2 : c1 = Clause(v[1], la, Bind(v[2])) /\ c2 = Clause(v[3], lb, Bind(v[4]))
  OBVIOUS
<1>5. p.stages[1] = Stage("e1", <<c1>>) /\ p.stages[2] = Stage("e2", <<c2>>)
  BY <1>1, <1>4
<1>6. /\ p.stages[1].anchor = "e1" /\ p.stages[2].anchor = "e2"
      /\ p.stages[1].clauses[1] = c1 /\ p.stages[2].clauses[1] = c2
  BY <1>5 DEF Stage
<1> QED BY <1>1, <1>2, <1>4, <1>6, Zenon

\* ... and their relation
LEMMA ShapeRelation ==
  ASSUME NEW p, NEW v, NEW la, NEW lb, NEW r, Shape(p, v, la, lb, r)
  PROVE  RelationOf(p) = r
<1>1. PICK tc : tc = [left |-> "e1", relation |-> r, right |-> "e2", gap |-> {}]
  OBVIOUS
<1>2. tc.relation = r
  BY <1>1
<1>3. p.temporal = {tc}
  BY <1>1 DEF Shape
<1> QED BY <1>2, <1>3 DEF RelationOf

\* The edges a pattern is built of read as its stages
LEMMA ReadsBack ==
  ASSUME NEW p, NEW c, NEW i, NEW j, BuiltOf(p, c, i, j)
  PROVE  Reads(p, c[i], c[j])
<1>1. PICK idx, s :
        /\ p = BuildPattern(idx, s)
        /\ c[i].label = s.label_a /\ c[j].label = s.label_b
        /\ SharedNode(c[i], c[j]) = {s.shared_node}
        /\ Relation(c[i].interval, c[j].interval) = {s.relation}
  BY DEF BuiltOf
<1>2. PICK x, y : x = c[i] /\ y = c[j]
  OBVIOUS
<1>3. PICK v, la, lb, r : v = EndsOf(s.shared_node) /\ la = s.label_a /\ lb = s.label_b /\ r = s.relation
  OBVIOUS
<1>4. Shape(p, v, la, lb, r)
  BY <1>1, <1>3, BuiltShape
<1>5. /\ p.stages[1].clauses[1] = Clause(v[1], la, Bind(v[2]))
      /\ p.stages[2].clauses[1] = Clause(v[3], lb, Bind(v[4]))
      /\ RelationOf(p) = r
  <2>1. p.stages[1].clauses[1] = Clause(v[1], la, Bind(v[2]))
    BY <1>4, ShapeParts
  <2>2. p.stages[2].clauses[1] = Clause(v[3], lb, Bind(v[4]))
    BY <1>4, ShapeParts
  <2>3. RelationOf(p) = r
    BY <1>4, ShapeRelation
  <2> QED BY <2>1, <2>2, <2>3
<1> DEFINE at == { <<v[1], x.source>>, <<v[2], x.target>>, <<v[3], y.source>>, <<v[4], y.target>> }
<1>6. \A z, w \in at : z[1] = w[1] => z[2] = w[2]
  <2>1. SharedNode(x, y) = {s.shared_node}
    BY <1>1, <1>2
  <2>2. \/ s.shared_node = "Source" /\ x.source = y.source
        \/ s.shared_node = "SourceTarget" /\ x.source = y.target
        \/ s.shared_node = "TargetSource" /\ x.target = y.source
        \/ s.shared_node = "Target" /\ x.target = y.target
    BY <2>1, OneWay
  <2>3. CASE s.shared_node = "Source" /\ x.source = y.source
    <3>1. v = <<"actor", "target_a", "actor", "target_b">>
      BY <1>3, <2>3 DEF EndsOf
    <3> QED BY <2>3, <3>1
  <2>4. CASE s.shared_node = "SourceTarget" /\ x.source = y.target
    <3>1. v = <<"actor", "target_a", "source_b", "actor">>
      BY <1>3, <2>4 DEF EndsOf
    <3> QED BY <2>4, <3>1
  <2>5. CASE s.shared_node = "TargetSource" /\ x.target = y.source
    <3>1. v = <<"source_a", "actor", "actor", "target_b">>
      BY <1>3, <2>5 DEF EndsOf
    <3> QED BY <2>5, <3>1
  <2>6. CASE s.shared_node = "Target" /\ x.target = y.target
    <3>1. v = <<"source_a", "actor", "source_b", "actor">>
      BY <1>3, <2>6 DEF EndsOf
    <3> QED BY <2>6, <3>1
  <2> QED BY <2>2, <2>3, <2>4, <2>5, <2>6
<1>7. x.label = la /\ y.label = lb /\ Relation(x.interval, y.interval) = {r}
  BY <1>1, <1>2, <1>3
<1>8. Reads(p, x, y)
  <2>1. \A z, l, t : Clause(z, l, Bind(t)).source = z /\ Clause(z, l, Bind(t)).label = l /\ Clause(z, l, Bind(t)).target.var = t
    BY DEF Clause, Bind
  <2>2. PICK ca, cb : ca = p.stages[1].clauses[1] /\ cb = p.stages[2].clauses[1]
    OBVIOUS
  <2>3. /\ ca.source = v[1] /\ ca.label = la /\ ca.target.var = v[2]
        /\ cb.source = v[3] /\ cb.label = lb /\ cb.target.var = v[4]
    BY <1>5, <2>1, <2>2
  <2>4. at = { <<ca.source, x.source>>, <<ca.target.var, x.target>>,
               <<cb.source, y.source>>, <<cb.target.var, y.target>> }
    BY <2>3
  <2> HIDE DEF at
  <2> QED BY <1>5, <1>6, <1>7, <2>2, <2>3, <2>4 DEF Reads
<1> QED BY <1>2, <1>8

\* They share a node
LEMMA BuiltTouch ==
  ASSUME NEW x, NEW y, SharedNode(x, y) # {}
  PROVE  Touches(x, y)
BY OneWay DEF Touches

\* What is mined from a log is not without surprise in it
LEMMA BuiltSurprises ==
  ASSUME NEW c \in Seq(CorpusEdges), NEW i \in DOMAIN c, NEW j \in DOMAIN c,
         NEW p, BuiltOf(p, c, i, j)
  PROVE  HasSurprise(p, c)
<1>1. PICK idx, s :
        /\ p = BuildPattern(idx, s)
        /\ c[i].label = s.label_a /\ c[j].label = s.label_b /\ s.label_a # s.label_b
        /\ SharedNode(c[i], c[j]) = {s.shared_node}
  BY DEF BuiltOf
<1>2. PICK la, lb, r : la = s.label_a /\ lb = s.label_b /\ r = s.relation
  OBVIOUS
<1>3. PICK v : v = EndsOf(s.shared_node)
  OBVIOUS
<1>4. Shape(p, v, la, lb, r)
  BY <1>1, <1>2, <1>3, BuiltShape
<1>5. /\ StageCount(p) = 2 /\ p.stages # << >>
      /\ p.stages[1].clauses[1].label = la /\ p.stages[2].clauses[1].label = lb
  <2>1. /\ StageCount(p) = 2 /\ p.stages # << >>
        /\ p.stages[1].clauses[1] = Clause(v[1], la, Bind(v[2]))
        /\ p.stages[2].clauses[1] = Clause(v[3], lb, Bind(v[4]))
    BY <1>4, ShapeParts
  <2> QED BY <2>1 DEF Clause
<1>6. Len(c) \in Nat /\ DOMAIN c = 1..Len(c) /\ c # << >>
  OBVIOUS
<1>7. IsFiniteSet(DOMAIN c) /\ Cardinality(DOMAIN c) = Len(c)
  <2>1. \A n \in Nat : IsFiniteSet(1..n) /\ Cardinality(1..n) = n
    <3> TAKE n \in Nat
    <3>1. IsFiniteSet(1..n) /\ Cardinality(1..n) = IF 1 > n THEN 0 ELSE n - 1 + 1
      BY FS_Interval
    <3> QED BY <3>1
  <2> QED BY <1>6, <2>1
<1>8. ASSUME NEW l
      PROVE  WithLabel(c, l) \in SUBSET DOMAIN c /\ IsFiniteSet(WithLabel(c, l))
  <2>1. WithLabel(c, l) \in SUBSET DOMAIN c
    BY DEF WithLabel
  <2> QED BY <1>7, <2>1, FS_Subset
<1>9. i \in WithLabel(c, la) /\ j \in WithLabel(c, lb) /\ j \notin WithLabel(c, la)
  BY <1>1, <1>2 DEF WithLabel
<1>10. Cardinality(WithLabel(c, la)) # 0 /\ Cardinality(WithLabel(c, lb)) # 0
  BY <1>8, <1>9, FS_EmptySet
<1>11. Cardinality(WithLabel(c, la)) # Len(c)
  <2>1. WithLabel(c, la) # DOMAIN c
    BY <1>9
  <2> QED BY <1>7, <1>8, <2>1, FS_Subset
<1> DEFINE F(k) == Cardinality(WithLabel(c, p.stages[k].clauses[1].label))
<1>12. F(1) = Cardinality(WithLabel(c, la)) /\ F(2) = Cardinality(WithLabel(c, lb))
  BY <1>5
<1>13. 0 \notin {F(k) : k \in 1..2} /\ {F(k) : k \in 1..2} # {Len(c)}
  <2> HIDE DEF F
  <2>1. \A k \in 1..2 : k = 1 \/ k = 2
    OBVIOUS
  <2>2. 1 \in 1..2
    OBVIOUS
  <2> QED BY <1>10, <1>11, <1>12, <2>1, <2>2
<1> DEFINE At(k) == WithLabel(c, p.stages[k].clauses[1].label)
           Met(x, k) == \E y \in At(k) : Touches(c[x], c[y])
           co == {x \in At(1) : \A k \in 2..2 : Met(x, k)}
<1>14. Cardinality(co) > 0
  <2>1. Touches(c[i], c[j])
    <3>1. PICK x, y : x = c[i] /\ y = c[j]
      OBVIOUS
    <3>2. SharedNode(x, y) # {}
      BY <1>1, <3>1
    <3> QED BY <3>1, <3>2, BuiltTouch
  <2>2. i \in At(1) /\ j \in At(2)
    BY <1>5, <1>9
  <2>3. i \in co
    <3>1. Met(i, 2)
      BY <2>1, <2>2
    <3>2. \A k \in 2..2 : k = 2
      OBVIOUS
    <3> HIDE DEF At, Met
    <3> QED BY <2>2, <3>1, <3>2
  <2>4. IsFiniteSet(co)
    <3>1. co \in SUBSET At(1) /\ IsFiniteSet(At(1))
      BY <1>8
    <3> HIDE DEF co, At
    <3> QED BY <3>1, FS_Subset
  <2> HIDE DEF co
  <2>5. Cardinality(co) \in Nat /\ Cardinality(co) # 0
    BY <2>3, <2>4, FS_EmptySet, FS_CardinalityType
  <2> QED BY <2>5
<1>15. CoOccurrence(p, c) > 0
  <2>1. CoOccurrence(p, c) = Cardinality(co)
    BY <1>5 DEF CoOccurrence
  <2> HIDE DEF co
  <2> QED BY <1>14, <2>1
<1>16. {F(k) : k \in 1..StageCount(p)} = {F(k) : k \in 1..2}
  BY <1>5
<1> HIDE DEF co
<1> QED BY <1>5, <1>6, <1>13, <1>15, <1>16 DEF HasSurprise

-----------------------------------------------------------------------------
(***************************************************************************)
(* Matching.  The edges a pattern of one relation before the other is      *)
(* built of still match in the evaluator's copy of the log.                *)
(***************************************************************************)

\* A stage of one clause: its matches are what the candidates bind
LEMMA StageFinds ==
  ASSUME NEW g, NEW z, NEW k, NEW bm, NEW now
  PROVE  \A q : q \in FindStageMatches(g, Stage(z, <<k>>), bm, now) <=>
               \E new \in FirstCandidates(g, Stage(z, <<k>>), bm, now) : q = <<Overlay(new[1], bm), new[2]>>
<1> DEFINE st == Stage(z, <<k>>)
           F(m, f, i) == IF i = 1 THEN {m} ELSE UNION {SatisfyClause(g, st.clauses[i], q, now) : q \in f[i - 1]}
<1>1. st.clauses = <<k>> /\ st.clauses # << >> /\ Len(st.clauses) = 1
  BY DEF Stage
<1> HIDE DEF st
<1>2. ASSUME NEW m
      PROVE  RestSatisfied(g, st, m, now) = {m}
  <2> DEFINE after == CHOOSE f : f = [i \in 1..1 |-> F(m, f, i)]
  <2>1. RestSatisfied(g, st, m, now) = after[1]
    BY <1>1, Zenon DEF RestSatisfied
  <2>2. \E f : f = [i \in 1..1 |-> F(m, f, i)]
    <3> DEFINE f == [i \in 1..1 |-> {m}]
    <3>1. f = [i \in 1..1 |-> F(m, f, i)]
      OBVIOUS
    <3> QED BY <3>1
  <2>3. after = [i \in 1..1 |-> F(m, after, i)]
    <3> HIDE DEF F
    <3> QED BY <2>2, Zenon
  <2>4. after[1] = F(m, after, 1)
    <3> HIDE DEF F, after
    <3> QED BY <2>3
  <2>5. F(m, after, 1) = {m}
    <3> HIDE DEF after
    <3> QED OBVIOUS
  <2> QED BY <2>1, <2>4, <2>5
<1>3. FindStageMatches(g, st, bm, now) =
        UNION {{<<m, new[2]>> : m \in RestSatisfied(g, st, Overlay(new[1], bm), now)} : new \in FirstCandidates(g, st, bm, now)}
  BY <1>1 DEF FindStageMatches
<1>4. FindStageMatches(g, st, bm, now) = UNION {{<<Overlay(new[1], bm), new[2]>>} : new \in FirstCandidates(g, st, bm, now)}
  BY <1>2, <1>3
<1>5. FindStageMatches(g, st, bm, now) = {<<Overlay(new[1], bm), new[2]>> : new \in FirstCandidates(g, st, bm, now)}
  BY <1>4
<1>6. \A q : q \in FindStageMatches(g, st, bm, now) <=>
             \E new \in FirstCandidates(g, st, bm, now) : q = <<Overlay(new[1], bm), new[2]>>
  BY <1>5
<1> QED BY <1>6 DEF st

\* ... finitely many in a finite graph
LEMMA StageFindsFew ==
  ASSUME NEW g, IsFiniteSet(DOMAIN g), NEW z, NEW k, NEW bm, NEW now
  PROVE  IsFiniteSet(FindStageMatches(g, Stage(z, <<k>>), bm, now))
<1> DEFINE st == Stage(z, <<k>>)
           E == {g[i] : i \in DOMAIN g}
           S == Scan(g, k.label, now)
           C == FirstCandidates(g, st, bm, now)
<1>1. st.clauses[1] = k
  BY DEF Stage
<1> HIDE DEF st
<1>2. IsFiniteSet(S)
  <2>1. [i \in DOMAIN g |-> g[i]] \in Surjection(DOMAIN g, E)
    BY DEF Surjection
  <2>2. IsFiniteSet(E)
    <3> HIDE DEF E
    <3> QED BY <2>1, FS_Surjection
  <2>3. S \in SUBSET E
    BY DEF Scan
  <2> HIDE DEF E, S
  <2> QED BY <2>2, <2>3, FS_Subset
<1>3. IsFiniteSet(C)
  <2> DEFINE T == {e \in S : BoundToNode(bm, k.source) /\ e.source = bm[k.source] /\ TargetAccepts(k.target, e.target, bm)}
             U == {e \in S : /\ ConstraintAccepts(k.target, e.target, bm)
                             /\ k.target.kind = "bind" /\ k.target.var \in {k.source, st.anchor} => e.target = e.source}
             f == [e \in T |-> <<BindNew(k.target, e.target, NoBindings), e.interval>>]
             h == [e \in U |-> <<BindNew(k.target, e.target, [x \in {k.source, st.anchor} |-> e.source]), e.interval>>]
  <2>1. C = {} \/ C = {f[e] : e \in T} \/ C = {h[e] : e \in U}
    <3>1. {f[e] : e \in T} = {<<BindNew(k.target, e.target, NoBindings), e.interval>> : e \in T}
      OBVIOUS
    <3>2. {h[e] : e \in U} = {<<BindNew(k.target, e.target, [x \in {k.source, st.anchor} |-> e.source]), e.interval>> : e \in U}
      OBVIOUS
    <3> HIDE DEF f, h
    <3> QED BY <1>1, <3>1, <3>2 DEF FirstCandidates
  <2>2. IsFiniteSet(T) /\ IsFiniteSet(U)
    <3>1. T \in SUBSET S /\ U \in SUBSET S
      OBVIOUS
    <3> HIDE DEF T, U, S
    <3> QED BY <1>2, <3>1, FS_Subset
  <2>3. f \in Surjection(T, {f[e] : e \in T}) /\ h \in Surjection(U, {h[e] : e \in U})
    <3>1. DOMAIN f = T /\ f = [e \in T |-> f[e]] /\ DOMAIN h = U /\ h = [e \in U |-> h[e]]
      OBVIOUS
    <3> HIDE DEF T, U, f, h
    <3> QED BY <3>1 DEF Surjection
  <2>4. IsFiniteSet({f[e] : e \in T}) /\ IsFiniteSet({h[e] : e \in U})
    <3> HIDE DEF T, U, f, h
    <3> QED BY <2>2, <2>3, FS_Surjection
  <2> HIDE DEF T, U, f, h, C
  <2> QED BY <2>1, <2>4, FS_EmptySet
<1> DEFINE M == {<<Overlay(new[1], bm), new[2]>> : new \in C}
<1>4. FindStageMatches(g, st, bm, now) = M
  <2>1. \A q : q \in FindStageMatches(g, st, bm, now) <=> \E new \in C : q = <<Overlay(new[1], bm), new[2]>>
    BY StageFinds DEF st
  <2> HIDE DEF C
  <2> QED BY <2>1
<1>5. IsFiniteSet(M)
  <2>1. [new \in C |-> <<Overlay(new[1], bm), new[2]>>] \in Surjection(C, M)
    <3> HIDE DEF C
    <3> QED BY DEF Surjection
  <2> HIDE DEF M, C
  <2> QED BY <1>3, <2>1, FS_Surjection
<1> HIDE DEF M
<1> QED BY <1>4, <1>5 DEF st

\* x and z stand for the source of e, y for its target, and nothing else is bound
StandsFor(bm, x, y, z, e) == DOMAIN bm = {x, y, z} /\ bm[x] = e.source /\ bm[y] = e.target

\* What the first stage of a pattern binds from an edge
LEMMA FirstStageFinds ==
  ASSUME NEW g, NEW now, NEW z, NEW x, NEW l, NEW y, y \notin {x, z},
         NEW e \in Scan(g, l, now)
  PROVE  \E bm : /\ <<bm, e.interval>> \in FindStageMatches(g, Stage(z, <<Clause(x, l, Bind(y))>>), NoBindings, now)
                /\ StandsFor(bm, x, y, z, e)
<1> DEFINE k == Clause(x, l, Bind(y))
           st == Stage(z, <<k>>)
           m == BindNew(Bind(y), e.target, [w \in {x, z} |-> e.source])
           bm == Overlay(m, NoBindings)
<1>1. st.clauses[1] = k /\ st.anchor = z /\ k.source = x /\ k.label = l /\ k.target = Bind(y)
  BY DEF Stage, Clause
<1>2. Bind(y).kind = "bind" /\ Bind(y).var = y
  BY DEF Bind
<1> HIDE DEF st, k
<1>3. x \notin DOMAIN NoBindings
  BY DEF NoBindings
<1>4. <<m, e.interval>> \in FirstCandidates(g, st, NoBindings, now)
  <2>1. Resolvable(Bind(y), NoBindings) /\ ConstraintAccepts(Bind(y), e.target, NoBindings)
    BY <1>2 DEF Resolvable, ConstraintAccepts
  <2>2. e \in {u \in Scan(g, l, now) :
                 /\ ConstraintAccepts(Bind(y), u.target, NoBindings)
                 /\ Bind(y).kind = "bind" /\ Bind(y).var \in {x, z} => u.target = u.source}
    BY <1>2, <2>1
  <2> HIDE DEF m
  <2>3. FirstCandidates(g, st, NoBindings, now) =
          {<<BindNew(Bind(y), u.target, [w \in {x, z} |-> u.source]), u.interval>> :
             u \in {u \in Scan(g, l, now) :
                 /\ ConstraintAccepts(Bind(y), u.target, NoBindings)
                 /\ Bind(y).kind = "bind" /\ Bind(y).var \in {x, z} => u.target = u.source}}
    BY <1>1, <1>3, <2>1 DEF FirstCandidates
  <2> QED BY <2>2, <2>3 DEF m
<1>5. <<bm, e.interval>> \in FindStageMatches(g, st, NoBindings, now)
  <2>1. \A q : q \in FindStageMatches(g, st, NoBindings, now) <=>
               \E new \in FirstCandidates(g, st, NoBindings, now) : q = <<Overlay(new[1], NoBindings), new[2]>>
    BY StageFinds DEF st
  <2> HIDE DEF m
  <2> QED BY <1>4, <2>1
<1>6. DOMAIN bm = {x, y, z} /\ bm[x] = e.source /\ bm[y] = e.target
  <2>1. m = Overlay(Single(y, e.target), [w \in {x, z} |-> e.source])
    BY <1>2 DEF BindNew
  <2>2. DOMAIN m = {x, y, z} /\ m[x] = e.source /\ m[y] = e.target
    BY <2>1 DEF Overlay, Single
  <2> HIDE DEF m
  <2> QED BY <2>2 DEF Overlay, NoBindings
<1> HIDE DEF bm
<1> QED BY <1>5, <1>6 DEF st, k, StandsFor

\* ... and that a later one finds an edge that fits what is bound
LEMMA NextStageFinds ==
  ASSUME NEW g, NEW now, NEW z, NEW x, NEW l, NEW y, NEW bm, NEW e \in Scan(g, l, now),
         \/ x \in DOMAIN bm /\ bm[x] \in Nodes /\ bm[x] = e.source /\ y \notin DOMAIN bm
         \/ x \notin DOMAIN bm /\ y \notin {x, z}
  PROVE  \E m : <<m, e.interval>> \in FindStageMatches(g, Stage(z, <<Clause(x, l, Bind(y))>>), bm, now)
<1> DEFINE k == Clause(x, l, Bind(y))
           st == Stage(z, <<k>>)
<1>1. st.clauses[1] = k /\ st.anchor = z /\ k.source = x /\ k.label = l /\ k.target = Bind(y)
  BY DEF Stage, Clause
<1>2. Bind(y).kind = "bind" /\ Bind(y).var = y
  BY DEF Bind
<1> HIDE DEF st, k
<1>3. Resolvable(Bind(y), bm) /\ ConstraintAccepts(Bind(y), e.target, bm)
  BY <1>2 DEF Resolvable, ConstraintAccepts
<1>4. \E m : <<m, e.interval>> \in FirstCandidates(g, st, bm, now)
  <2>1. CASE x \in DOMAIN bm /\ bm[x] \in Nodes /\ bm[x] = e.source /\ y \notin DOMAIN bm
    <3>1. BoundToNode(bm, x) /\ TargetAccepts(Bind(y), e.target, bm)
      BY <1>2, <1>3, <2>1 DEF BoundToNode, TargetAccepts
    <3>2. FirstCandidates(g, st, bm, now) =
            {<<BindNew(Bind(y), u.target, NoBindings), u.interval>> :
               u \in {u \in Scan(g, l, now) : /\ BoundToNode(bm, x) /\ u.source = bm[x]
                                              /\ TargetAccepts(Bind(y), u.target, bm)}}
      BY <1>1, <1>3, <2>1 DEF FirstCandidates
    <3> QED BY <2>1, <3>1, <3>2
  <2>2. CASE x \notin DOMAIN bm /\ y \notin {x, z}
    <3>1. FirstCandidates(g, st, bm, now) =
            {<<BindNew(Bind(y), u.target, [w \in {x, z} |-> u.source]), u.interval>> :
               u \in {u \in Scan(g, l, now) :
                   /\ ConstraintAccepts(Bind(y), u.target, bm)
                   /\ Bind(y).kind = "bind" /\ Bind(y).var \in {x, z} => u.target = u.source}}
      BY <1>1, <1>3, <2>2 DEF FirstCandidates
    <3> QED BY <1>2, <1>3, <2>2, <3>1
  <2> QED BY <2>1, <2>2
<1>5. \A q : q \in FindStageMatches(g, st, bm, now) <=>
             \E new \in FirstCandidates(g, st, bm, now) : q = <<Overlay(new[1], bm), new[2]>>
  BY StageFinds DEF st
<1>6. PICK m : <<m, e.interval>> \in FirstCandidates(g, st, bm, now)
  BY <1>4
<1>7. <<Overlay(m, bm), e.interval>> \in FindStageMatches(g, st, bm, now)
  BY <1>5, <1>6
<1> QED BY <1>7 DEF st, k

\* What one more stage makes of the matches so far
OneMore(g, p, now, s, M) ==
  UNION {{[bindings  |-> new[1],
           intervals |-> Overlay(Single(p.stages[s].anchor, new[2]), m.intervals)]
          : new \in FindStageMatches(g, p.stages[s], m.bindings, now)}
         : m \in M}

\* One of them
LEMMA OneMoreHas ==
  ASSUME NEW g, NEW p, NEW now, NEW s, NEW M, NEW m \in M, NEW bm, NEW iv,
         <<bm, iv>> \in FindStageMatches(g, p.stages[s], m.bindings, now)
  PROVE  [bindings |-> bm, intervals |-> Overlay(Single(p.stages[s].anchor, iv), m.intervals)]
           \in OneMore(g, p, now, s, M)
<1> DEFINE V(q, new) == [bindings  |-> new[1],
                         intervals |-> Overlay(Single(p.stages[s].anchor, new[2]), q.intervals)]
           N(q) == FindStageMatches(g, p.stages[s], q.bindings, now)
<1>1. OneMore(g, p, now, s, M) = UNION {{V(q, new) : new \in N(q)} : q \in M}
  BY DEF OneMore
<1>2. V(m, <<bm, iv>>) = [bindings |-> bm, intervals |-> Overlay(Single(p.stages[s].anchor, iv), m.intervals)]
  OBVIOUS
<1>3. <<bm, iv>> \in N(m)
  OBVIOUS
<1> HIDE DEF V, N
<1>4. V(m, <<bm, iv>>) \in UNION {{V(q, new) : new \in N(q)} : q \in M}
  BY <1>3
<1> QED BY <1>1, <1>2, <1>4, Zenon

\* Two stages are matched one after the other
LEMMA TwoStages ==
  ASSUME NEW g, NEW p, StageCount(p) = 2, NEW now
  PROVE  StageCascade(g, p, now) =
           OneMore(g, p, now, 2, OneMore(g, p, now, 1, {[bindings |-> NoBindings, intervals |-> NoBindings]}))
<1> DEFINE start == {[bindings |-> NoBindings, intervals |-> NoBindings]}
           F(f, s) == IF s = 0 THEN start
                      ELSE UNION {{[bindings  |-> new[1],
                                    intervals |-> Overlay(Single(p.stages[s].anchor, new[2]), m.intervals)]
                                   : new \in FindStageMatches(g, p.stages[s], m.bindings, now)}
                                  : m \in f[s - 1]}
           upTo == CHOOSE f : f = [s \in 0..2 |-> F(f, s)]
<1>1. StageCascade(g, p, now) = upTo[2]
  BY Zenon DEF StageCascade
<1>2. \A f : F(f, 0) = start /\ F(f, 1) = OneMore(g, p, now, 1, f[0]) /\ F(f, 2) = OneMore(g, p, now, 2, f[1])
  <2> TAKE f
  <2>1. F(f, 0) = start
    OBVIOUS
  <2>2. 1 - 1 = 0 /\ 2 - 1 = 1 /\ 1 # 0 /\ 2 # 0
    OBVIOUS
  <2>3. F(f, 1) = OneMore(g, p, now, 1, f[0])
    BY <2>2, Zenon DEF OneMore
  <2>4. F(f, 2) = OneMore(g, p, now, 2, f[1])
    BY <2>2, Zenon DEF OneMore
  <2> HIDE DEF F
  <2> QED BY <2>1, <2>3, <2>4
<1> HIDE DEF start
<1> DEFINE U0 == start
           U1 == OneMore(g, p, now, 1, U0)
           U2 == OneMore(g, p, now, 2, U1)
           h == [s \in 0..2 |-> IF s = 0 THEN U0 ELSE IF s = 1 THEN U1 ELSE U2]
<1>3. h = [s \in 0..2 |-> F(h, s)]
  <2>1. h[0] = U0 /\ h[1] = U1 /\ h[2] = U2 /\ DOMAIN h = 0..2
    <3> HIDE DEF U0, U1, U2
    <3> QED OBVIOUS
  <2>2. h = [s \in 0..2 |-> h[s]]
    <3> HIDE DEF U0, U1, U2
    <3> QED OBVIOUS
  <2> HIDE DEF h, F
  <2>3. \A s \in 0..2 : s = 0 \/ s = 1 \/ s = 2
    OBVIOUS
  <2>4. \A s \in 0..2 : h[s] = F(h, s)
    <3>1. F(h, 0) = h[0] /\ F(h, 1) = h[1] /\ F(h, 2) = h[2]
      BY <1>2, <2>1
    <3> QED BY <2>3, <3>1
  <2> QED BY <2>2, <2>4
<1>4. upTo = [s \in 0..2 |-> F(upTo, s)]
  <2> HIDE DEF h, F
  <2> QED BY <1>3, Zenon
<1> HIDE DEF upTo, h
<1>5. upTo[0] = F(upTo, 0) /\ upTo[1] = F(upTo, 1) /\ upTo[2] = F(upTo, 2)
  <2> HIDE DEF F
  <2> QED BY <1>4
<1>6. upTo[2] = U2
  <2> HIDE DEF F
  <2>1. upTo[0] = U0
    BY <1>2, <1>5
  <2>2. upTo[1] = U1
    BY <1>2, <1>5, <2>1
  <2> QED BY <1>2, <1>5, <2>2
<1> QED BY <1>1, <1>6 DEF start

\* ... and finitely many matches stay finitely many
LEMMA OneMoreFew ==
  ASSUME NEW g, NEW p, NEW now, NEW s, NEW M, IsFiniteSet(M),
         \A bm : IsFiniteSet(FindStageMatches(g, p.stages[s], bm, now))
  PROVE  IsFiniteSet(OneMore(g, p, now, s, M))
<1> DEFINE V(m, new) == [bindings  |-> new[1],
                         intervals |-> Overlay(Single(p.stages[s].anchor, new[2]), m.intervals)]
           N(m) == FindStageMatches(g, p.stages[s], m.bindings, now)
           T(m) == {V(m, new) : new \in N(m)}
           P == {T(m) : m \in M}
<1>1. ASSUME NEW m
      PROVE  IsFiniteSet(T(m))
  <2>1. IsFiniteSet(N(m))
    OBVIOUS
  <2> HIDE DEF V, N
  <2>2. [new \in N(m) |-> V(m, new)] \in Surjection(N(m), T(m))
    BY DEF Surjection
  <2> HIDE DEF T
  <2> QED BY <2>1, <2>2, FS_Surjection
<1>2. IsFiniteSet(P) /\ \A S \in P : IsFiniteSet(S)
  <2> HIDE DEF T
  <2>1. [m \in M |-> T(m)] \in Surjection(M, P)
    BY DEF Surjection
  <2>2. \A S \in P : IsFiniteSet(S)
    BY <1>1
  <2> HIDE DEF P
  <2> QED BY <2>1, <2>2, FS_Surjection
<1>3. OneMore(g, p, now, s, M) = UNION P
  BY DEF OneMore
<1> HIDE DEF P
<1> QED BY <1>2, <1>3, FS_UNION

\* The intervals of a match of two open-ended edges, one of which begins
\* before the other, pass the temporal check
LEMMA InOrder ==
  ASSUME NEW p, NEW v, NEW la, NEW lb, NEW r \in BeforeOrMeets, Shape(p, v, la, lb, r),
         NEW s \in Int, NEW t \in Int, s < t
  PROVE  CheckTemporal(p, Overlay(Single("e2", Open(t)), Overlay(Single("e1", Open(s)), NoBindings)))
<1> DEFINE ivs == Overlay(Single("e2", Open(t)), Overlay(Single("e1", Open(s)), NoBindings))
<1>1. DOMAIN ivs = {"e1", "e2"} /\ ivs["e1"] = Open(s) /\ ivs["e2"] = Open(t)
  BY DEF Overlay, Single, NoBindings
<1> HIDE DEF ivs
<1>2. /\ StageCount(p) = 2 /\ p.stages[1].anchor = "e1" /\ p.stages[2].anchor = "e2"
  BY ShapeParts
<1>3. /\ p.temporal = {[left |-> "e1", relation |-> r, right |-> "e2", gap |-> {}]}
      /\ p.unordered_groups = {}
  BY DEF Shape
<1>4. Open(s).start = s /\ Open(t).start = t /\ ~IsBounded(Open(s)) /\ ~IsBounded(Open(t))
  BY DEF Open, IsBounded
<1>5. \A i \in 1..2 : Segment(p, i) = {i}
  BY <1>3 DEF Segment, InGroup, UnorderedGroup
<1>6. \A i, j \in 1..2 : NextSegment(p, i, j) => i = 1 /\ j = 2
  BY <1>5 DEF NextSegment
<1>7. StagesOrdered(p, ivs)
  BY <1>1, <1>2, <1>4, <1>6 DEF StagesOrdered
<1>8. Relation(Open(s), Open(t)) = {}
  BY <1>4 DEF Relation
<1>9. ASSUME NEW tc \in p.temporal
      PROVE  ConstraintHolds(tc, ivs)
  <2>1. tc.left = "e1" /\ tc.right = "e2" /\ tc.relation = r /\ tc.gap = {}
    BY <1>3, <1>9
  <2> QED BY <1>1, <1>4, <1>8, <2>1 DEF ConstraintHolds
<1>10. CheckTemporal(p, ivs)
  BY <1>7, <1>9 DEF CheckTemporal
<1> QED BY <1>10 DEF ivs

\* Of finitely many integers one is the largest
LEMMA LargestOf ==
  ASSUME NEW n \in Nat, n # 0, NEW f, \A k \in 1..n : f[k] \in Int
  PROVE  Max({f[j] : j \in 1..n}) \in Int /\ \A k \in 1..n : f[k] <= Max({f[j] : j \in 1..n})
<1> DEFINE Good(m) == \E i \in 1..m : \A k \in 1..m : f[k] <= f[i]
           S == {m \in 1..n : ~Good(m)}
<1>1. Good(n)
  <2> SUFFICES ASSUME ~Good(n)
               PROVE  FALSE
    OBVIOUS
  <2>1. S \in SUBSET Nat /\ S # {}
    <3> HIDE DEF Good
    <3> QED OBVIOUS
  <2>2. PICK m \in S : \A k \in S : m <= k
    <3> HIDE DEF S
    <3> QED BY <2>1, FirstPosition
  <2>3. m \in 1..n /\ ~Good(m)
    <3> HIDE DEF Good
    <3> QED BY <2>2
  <2>4. m # 1
    <3>1. Good(1)
      <4>1. \A k \in 1..1 : k = 1
        OBVIOUS
      <4>2. f[1] <= f[1] /\ 1 \in 1..1
        OBVIOUS
      <4> QED BY <4>1, <4>2
    <3> HIDE DEF Good
    <3> QED BY <2>3, <3>1
  <2>5. Good(m - 1)
    <3>1. m - 1 \in 1..n /\ m - 1 < m
      BY <2>3, <2>4
    <3>2. m - 1 \notin S
      <4> HIDE DEF S, Good
      <4>1. ~(m <= m - 1)
        BY <2>3, <3>1
      <4> QED BY <2>2, <4>1
    <3> HIDE DEF Good
    <3> QED BY <3>1, <3>2
  <2>6. PICK i \in 1..(m - 1) : \A k \in 1..(m - 1) : f[k] <= f[i]
    BY <2>5
  <2>7. i \in 1..m /\ m \in 1..m /\ f[i] \in Int /\ f[m] \in Int /\ \A k \in 1..m : k = m \/ k \in 1..(m - 1)
    BY <2>3, <2>4
  <2>8. CASE f[m] <= f[i]
    <3>1. \A k \in 1..m : f[k] <= f[i]
      BY <2>6, <2>7, <2>8
    <3> QED BY <2>3, <2>7, <3>1
  <2>9. CASE f[i] < f[m]
    <3>1. \A k \in 1..m : f[k] <= f[m]
      <4> TAKE k \in 1..m
      <4>1. CASE k = m
        BY <2>7, <4>1
      <4>2. CASE k \in 1..(m - 1)
        <5>1. f[k] <= f[i] /\ k \in 1..n
          BY <2>3, <2>6, <4>2
        <5> QED BY <2>7, <2>9, <5>1
      <4> QED BY <2>7, <4>1, <4>2
    <3> QED BY <2>3, <2>7, <3>1
  <2> QED BY <2>7, <2>8, <2>9
<1>2. PICK i \in 1..n : \A k \in 1..n : f[k] <= f[i]
  BY <1>1
<1> DEFINE V == {f[j] : j \in 1..n}
<1>3. f[i] \in V /\ \A x \in V : f[i] >= x
  BY <1>2
<1>4. Max(V) \in V /\ \A x \in V : Max(V) >= x
  <2> HIDE DEF V
  <2> QED BY <1>3, Zenon DEF Max
<1>5. \A x \in V : x \in Int
  OBVIOUS
<1>6. \A k \in 1..n : f[k] \in V
  OBVIOUS
<1>7. Max(V) \in Int /\ \A k \in 1..n : f[k] <= Max(V)
  <2> HIDE DEF V
  <2> QED BY <1>4, <1>5, <1>6
<1> QED BY <1>7

\* The copy of an edge of the log
LEMMA CopiedEdge ==
  ASSUME NEW c \in Seq(CorpusEdges), NEW i \in DOMAIN c
  PROVE  LET e == CorpusGraph(c)[i]
         IN  /\ e.source = c[i].source /\ e.label = c[i].label /\ e.target = c[i].target
             /\ e.interval = Open(c[i].interval.start) /\ c[i].source \in Nodes
<1>1. PICK x : x = c[i] /\ x \in CorpusEdges
  OBVIOUS
<1>2. x = [source |-> x.source, label |-> x.label, target |-> x.target, interval |-> x.interval] /\ x.source \in Nodes
  BY <1>1, DiscoveryAssumption
<1>3. CorpusGraph(c)[i] = [x EXCEPT !.interval = Open(@.start)]
  BY <1>1 DEF CorpusGraph
<1>4. PICK w, l, y, iv : w = x.source /\ l = x.label /\ y = x.target /\ iv = x.interval
  OBVIOUS
<1>5. x = [source |-> w, label |-> l, target |-> y, interval |-> iv]
  BY <1>2, <1>4
<1>6. CorpusGraph(c)[i] = [source |-> w, label |-> l, target |-> y, interval |-> Open(iv.start)]
  BY <1>3, <1>5
<1> QED BY <1>1, <1>2, <1>4, <1>6

\* The log's time range, and a tick, covers every copy
LEMMA AllCovered ==
  ASSUME ProperEdges, NEW c \in Seq(CorpusEdges), NEW i \in DOMAIN c
  PROVE  Covers(Open(c[i].interval.start), TimeRange(c)[2] + 1)
<1> DEFINE n == Len(c)
           f == [k \in DOMAIN c |-> IF IsBounded(c[k].interval) THEN EndOf(c[k].interval) ELSE c[k].interval.start]
           ends == {f[k] : k \in 1..n}
<1>1. n \in Nat /\ DOMAIN c = 1..n /\ n # 0 /\ c # << >>
  OBVIOUS
<1>2. ASSUME NEW k \in 1..n
      PROVE  c[k].interval.start \in Int /\ f[k] \in Int /\ c[k].interval.start <= f[k]
  <2>1. PICK iv : iv = c[k].interval
    OBVIOUS
  <2>2. iv.start \in Int /\ (iv.end # {} => \E t \in Int : iv.end = {t} /\ iv.start < t)
    BY <1>1, <2>1 DEF ProperEdges
  <2>3. f[k] = IF IsBounded(iv) THEN EndOf(iv) ELSE iv.start
    BY <1>1, <2>1
  <2>4. CASE iv.end # {}
    <3>1. PICK t \in Int : iv.end = {t} /\ iv.start < t
      BY <2>2, <2>4
    <3>2. EndOf(iv) = t /\ IsBounded(iv)
      BY <3>1 DEF EndOf, IsBounded
    <3> HIDE DEF f, n
    <3> QED BY <2>1, <2>2, <2>3, <3>1, <3>2
  <2>5. CASE iv.end = {}
    <3>1. ~IsBounded(iv)
      BY <2>5 DEF IsBounded
    <3> HIDE DEF f, n
    <3> QED BY <2>1, <2>2, <2>3, <3>1
  <2> QED BY <2>4, <2>5
<1>3. TimeRange(c)[2] = Max(ends)
  <2>1. ends = {IF IsBounded(c[k].interval) THEN EndOf(c[k].interval) ELSE c[k].interval.start : k \in DOMAIN c}
    BY <1>1
  <2> HIDE DEF ends
  <2> QED BY <1>1, <2>1 DEF TimeRange
<1>4. i \in 1..n
  BY <1>1
<1>5. Max(ends) \in Int /\ \A k \in 1..n : f[k] <= Max(ends)
  <2> HIDE DEF f, n
  <2> QED BY <1>1, <1>2, LargestOf
<1>6. c[i].interval.start \in Int /\ c[i].interval.start <= TimeRange(c)[2] /\ TimeRange(c)[2] \in Int
  <2> HIDE DEF f, n, ends
  <2>1. f[i] \in Int /\ f[i] <= Max(ends) /\ c[i].interval.start \in Int /\ c[i].interval.start <= f[i]
    BY <1>2, <1>4, <1>5
  <2> QED BY <1>3, <1>5, <2>1
<1>7. PICK s, m : s = c[i].interval.start /\ m = TimeRange(c)[2]
  OBVIOUS
<1>8. s <= m + 1
  BY <1>6, <1>7
<1>9. Covers(Open(s), m + 1)
  BY <1>8 DEF Covers, Open
<1> QED BY <1>7, <1>9

\* The relation before holds of two bounded intervals in order
LEMMA BeforeStarts ==
  ASSUME ProperEdges, NEW c \in Seq(CorpusEdges), NEW i \in DOMAIN c, NEW j \in DOMAIN c,
         NEW r \in BeforeOrMeets, Relation(c[i].interval, c[j].interval) = {r}
  PROVE  c[i].interval.start \in Int /\ c[j].interval.start \in Int /\ c[i].interval.start < c[j].interval.start
<1>1. PICK x, y : x = c[i].interval /\ y = c[j].interval
  OBVIOUS
<1>2. /\ x.start \in Int /\ (x.end # {} => \E t \in Int : x.end = {t} /\ x.start < t)
      /\ y.start \in Int /\ (y.end # {} => \E t \in Int : y.end = {t} /\ y.start < t)
  <2>1. c[i] \in CorpusEdges /\ c[j] \in CorpusEdges
    OBVIOUS
  <2> QED BY <1>1, <2>1 DEF ProperEdges
<1>3. Relation(x, y) = {r}
  BY <1>1
<1>4. IsBounded(x) /\ IsBounded(y)
  BY <1>3 DEF Relation
<1>5. PICK t \in Int, v \in Int : x.end = {t} /\ x.start < t /\ y.end = {v} /\ y.start < v
  BY <1>2, <1>4 DEF IsBounded
<1>6. EndOf(x) = t /\ EndOf(y) = v
  BY <1>5 DEF EndOf
<1>7. PICK s \in Int, u \in Int : s = x.start /\ u = y.start
  BY <1>2
<1>8. PICK rel : Holds(rel, s, t, u, v) /\ Relation(x, y) = {rel}
  <2>1. s < t /\ u < v /\ x.start = s /\ y.start = u
    BY <1>5, <1>7
  <2> QED BY <1>4, <1>6, <2>1, RelationCases
<1>9. rel = r /\ rel \in {"Before", "Meets"}
  BY <1>3, <1>8 DEF BeforeOrMeets
<1>10. t <= u
  BY <1>8, <1>9 DEF Holds, HoldsApart
<1> QED BY <1>1, <1>5, <1>7, <1>10

\* A pattern mined from two edges, the one before the other, matches
LEMMA BuiltMatches ==
  ASSUME ProperEdges, NEW c \in Seq(CorpusEdges), NEW i \in DOMAIN c, NEW j \in DOMAIN c,
         NEW p, BuiltOf(p, c, i, j), RelationOf(p) \in BeforeOrMeets
  PROVE  MatchCount(p, c) > 0
<1>1. PICK idx, sh :
        /\ p = BuildPattern(idx, sh)
        /\ c[i].label = sh.label_a /\ c[j].label = sh.label_b
        /\ SharedNode(c[i], c[j]) = {sh.shared_node}
        /\ Relation(c[i].interval, c[j].interval) = {sh.relation}
  BY DEF BuiltOf
<1>2. PICK v, la, lb, r : v = EndsOf(sh.shared_node) /\ la = sh.label_a /\ lb = sh.label_b /\ r = sh.relation
  OBVIOUS
<1>3. Shape(p, v, la, lb, r)
  BY <1>1, <1>2, BuiltShape
<1>4. /\ StageCount(p) = 2 /\ p.stages # << >>
      /\ p.stages[1] = Stage("e1", <<Clause(v[1], la, Bind(v[2]))>>)
      /\ p.stages[2] = Stage("e2", <<Clause(v[3], lb, Bind(v[4]))>>)
      /\ p.stages[1].anchor = "e1" /\ p.stages[2].anchor = "e2"
  BY <1>3, ShapeParts
<1>5. r \in BeforeOrMeets
  BY <1>3, ShapeRelation
<1>6. PICK g, now : g = CorpusGraph(c) /\ now = TimeRange(c)[2] + 1
  OBVIOUS
<1>7. DOMAIN g = DOMAIN c /\ IsFiniteSet(DOMAIN g)
  <2>1. DOMAIN g = DOMAIN c
    BY <1>6 DEF CorpusGraph
  <2>2. DOMAIN c = 1..Len(c) /\ Len(c) \in Nat
    OBVIOUS
  <2>3. \A n \in Int : IsFiniteSet(1..n)
    BY FS_Interval
  <2> QED BY <2>1, <2>2, <2>3
<1>8. PICK x, y : x = c[i] /\ y = c[j]
  OBVIOUS
<1>9. PICK e, d : e = g[i] /\ d = g[j]
  OBVIOUS
<1>10. PICK s, t : s = x.interval.start /\ t = y.interval.start
  OBVIOUS
<1>11. s \in Int /\ t \in Int /\ s < t
  <2>1. Relation(c[i].interval, c[j].interval) = {r}
    BY <1>1, <1>2
  <2> QED BY <1>5, <1>8, <1>10, <2>1, BeforeStarts
<1>12. /\ e.source = x.source /\ e.label = la /\ e.target = x.target /\ e.interval = Open(s) /\ x.source \in Nodes
       /\ d.source = y.source /\ d.label = lb /\ d.target = y.target /\ d.interval = Open(t) /\ y.source \in Nodes
  BY <1>1, <1>2, <1>6, <1>8, <1>9, <1>10, CopiedEdge
<1>13. e \in Scan(g, la, now) /\ d \in Scan(g, lb, now)
  <2>1. Covers(Open(s), now) /\ Covers(Open(t), now)
    BY <1>6, <1>8, <1>10, AllCovered
  <2> QED BY <1>7, <1>9, <1>12, <2>1 DEF Scan
<1>14. \/ v = <<"actor", "target_a", "actor", "target_b">> /\ x.source = y.source
       \/ v = <<"actor", "target_a", "source_b", "actor">> /\ x.source = y.target
       \/ v = <<"source_a", "actor", "actor", "target_b">> /\ x.target = y.source
       \/ v = <<"source_a", "actor", "source_b", "actor">> /\ x.target = y.target
  <2>1. SharedNode(x, y) = {sh.shared_node}
    BY <1>1, <1>8
  <2>2. PICK n : n = sh.shared_node
    OBVIOUS
  <2>3. \/ n = "Source" /\ x.source = y.source
        \/ n = "SourceTarget" /\ x.source = y.target
        \/ n = "TargetSource" /\ x.target = y.source
        \/ n = "Target" /\ x.target = y.target
    BY <2>1, <2>2, OneWay
  <2>4. v = EndsOf(n)
    BY <1>2, <2>2
  <2> QED BY <2>3, <2>4 DEF EndsOf
<1>15. PICK v1, v2, v3, v4 : v1 = v[1] /\ v2 = v[2] /\ v3 = v[3] /\ v4 = v[4]
  OBVIOUS
<1>16. v2 \notin {v1, "e1"}
  BY <1>14, <1>15
<1>17. PICK bm : /\ <<bm, e.interval>> \in FindStageMatches(g, Stage("e1", <<Clause(v1, la, Bind(v2))>>), NoBindings, now)
                /\ DOMAIN bm = {v1, v2, "e1"} /\ bm[v1] = e.source /\ bm[v2] = e.target
  <2>1. PICK z : z = "e1"
    OBVIOUS
  <2>2. v2 \notin {v1, z} /\ e \in Scan(g, la, now)
    BY <1>13, <1>16, <2>1
  <2>3. \E bm : /\ <<bm, e.interval>> \in FindStageMatches(g, Stage(z, <<Clause(v1, la, Bind(v2))>>), NoBindings, now)
               /\ StandsFor(bm, v1, v2, z, e)
    BY <2>2, FirstStageFinds
  <2> QED BY <2>1, <2>3 DEF StandsFor
<1>18. \/ v3 \in DOMAIN bm /\ bm[v3] \in Nodes /\ bm[v3] = d.source /\ v4 \notin DOMAIN bm
       \/ v3 \notin DOMAIN bm /\ v4 \notin {v3, "e2"}
  <2>1. CASE v = <<"actor", "target_a", "actor", "target_b">> /\ x.source = y.source
    BY <1>12, <1>15, <1>17, <2>1
  <2>2. CASE v = <<"actor", "target_a", "source_b", "actor">>
    BY <1>15, <1>17, <2>2
  <2>3. CASE v = <<"source_a", "actor", "actor", "target_b">> /\ x.target = y.source
    BY <1>12, <1>15, <1>17, <2>3
  <2>4. CASE v = <<"source_a", "actor", "source_b", "actor">>
    BY <1>15, <1>17, <2>4
  <2> QED BY <1>14, <2>1, <2>2, <2>3, <2>4
<1>19. PICK m : <<m, d.interval>> \in FindStageMatches(g, Stage("e2", <<Clause(v3, lb, Bind(v4))>>), bm, now)
  BY <1>13, <1>18, NextStageFinds
<1>20. /\ <<bm, Open(s)>> \in FindStageMatches(g, p.stages[1], NoBindings, now)
       /\ <<m, Open(t)>> \in FindStageMatches(g, p.stages[2], bm, now)
  BY <1>4, <1>12, <1>15, <1>17, <1>19
<1> DEFINE start == [bindings |-> NoBindings, intervals |-> NoBindings]
           M1 == OneMore(g, p, now, 1, {start})
           M2 == OneMore(g, p, now, 2, M1)
           m1 == [bindings |-> bm, intervals |-> Overlay(Single("e1", Open(s)), NoBindings)]
           m2 == [bindings |-> m, intervals |-> Overlay(Single("e2", Open(t)), m1.intervals)]
<1>21. m1 \in M1
  <2>1. start \in {start} /\ start.bindings = NoBindings /\ start.intervals = NoBindings
    OBVIOUS
  <2> HIDE DEF start
  <2> QED BY <1>4, <1>20, <2>1, OneMoreHas
<1>22. m2 \in M2
  <2>1. m1.bindings = bm
    OBVIOUS
  <2> HIDE DEF m1, M1
  <2> QED BY <1>4, <1>20, <1>21, <2>1, OneMoreHas
<1>23. IsFiniteSet(M2)
  <2>1. \A w : /\ IsFiniteSet(FindStageMatches(g, p.stages[1], w, now))
              /\ IsFiniteSet(FindStageMatches(g, p.stages[2], w, now))
    BY <1>4, <1>7, StageFindsFew
  <2>2. IsFiniteSet({start})
    BY FS_Singleton
  <2> HIDE DEF start
  <2>3. IsFiniteSet(M1)
    BY <2>1, <2>2, OneMoreFew
  <2> HIDE DEF M1
  <2> QED BY <2>1, <2>3, OneMoreFew
<1>24. StageCascade(g, p, now) = M2
  BY <1>4, TwoStages
<1>25. CheckTemporal(p, m2.intervals)
  <2>1. CheckTemporal(p, Overlay(Single("e2", Open(t)), Overlay(Single("e1", Open(s)), NoBindings)))
    BY <1>3, <1>5, <1>11, InOrder
  <2>2. m2.intervals = Overlay(Single("e2", Open(t)), Overlay(Single("e1", Open(s)), NoBindings))
    OBVIOUS
  <2> QED BY <2>1, <2>2
<1>26. \A w : CheckNegationsBatch(g, now, p, w.bindings, w.intervals)
  BY <1>3 DEF Shape, CheckNegationsBatch
<1> HIDE DEF m2, M2
<1>27. m2 \in EvaluatePattern(g, p, now) /\ EvaluatePattern(g, p, now) \in SUBSET M2
  BY <1>4, <1>22, <1>24, <1>25, <1>26 DEF EvaluatePattern
<1>28. MatchCount(p, c) = Cardinality(EvaluatePattern(g, p, now))
  BY <1>6 DEF MatchCount
<1>29. IsFiniteSet(EvaluatePattern(g, p, now))
  BY <1>23, <1>27, FS_Subset
<1>30. Cardinality(EvaluatePattern(g, p, now)) \in Nat /\ Cardinality(EvaluatePattern(g, p, now)) # 0
  BY <1>27, <1>29, FS_EmptySet, FS_CardinalityType
<1> QED BY <1>28, <1>30

\* What holds of the first, and of the next whenever of one, holds of all
LEMMA StepByStep ==
  ASSUME NEW m \in Nat, NEW S, 0 \in S, \A k \in Nat : k < m /\ k \in S => k + 1 \in S
  PROVE  0..m \subseteq S
<1> DEFINE B == {k \in 0..m : k \notin S}
<1> SUFFICES ASSUME B # {}
             PROVE  FALSE
  OBVIOUS
<1>1. B \in SUBSET Nat
  OBVIOUS
<1>2. PICK k \in B : \A j \in B : k <= j
  <2> HIDE DEF B
  <2> QED BY <1>1, FirstPosition
<1>3. k # 0 /\ k - 1 \in 0..m /\ k - 1 < m /\ k \in 0..m /\ k \notin S
  BY <1>2
<1>4. ~(k <= k - 1)
  BY <1>3
<1>5. k - 1 \in S
  BY <1>2, <1>3, <1>4
<1>6. (k - 1) + 1 \in S
  BY <1>3, <1>5
<1> QED BY <1>3, <1>6

\* The largest of some integers
LEMMA LargestIsMax ==
  ASSUME NEW S, NEW x \in S, \A y \in S : y \in Int /\ y <= x
  PROVE  Max(S) = x
<1>1. \A y \in S : x >= y
  OBVIOUS
<1>2. Max(S) \in S /\ \A y \in S : Max(S) >= y
  BY <1>1 DEF Max
<1>3. Max(S) >= x /\ Max(S) <= x /\ Max(S) \in Int /\ x \in Int
  BY <1>2
<1> QED BY <1>3

\* The part of a log before an instant is a log
LEMMA EarlierPart ==
  ASSUME NEW c \in Seq(CorpusEdges), NEW t
  PROVE  SplitAt(c, t)[1] \in Seq(CorpusEdges)
<1> DEFINE m == Len(c)
           Take(s, e) == IF e.interval.start < t THEN Append(s, e) ELSE s
           F(f, s) == IF s = {} THEN << >> ELSE Take(f[s \ {Max(s)}], c[Max(s)])
           S == {k \in Nat : \E f : f = [s \in SUBSET (1..k) |-> F(f, s)]}
           fold == CHOOSE f : f = [s \in SUBSET (1..m) |-> F(f, s)]
<1>0. m \in Nat /\ DOMAIN c = 1..m
  OBVIOUS
<1>1. 0 \in S
  <2> DEFINE f == [s \in SUBSET (1..0) |-> << >>]
  <2>1. \A s \in SUBSET (1..0) : s = {}
    OBVIOUS
  <2>2. f = [s \in SUBSET (1..0) |-> F(f, s)]
    BY <2>1
  <2> HIDE DEF f, F
  <2> QED BY <2>2
<1> HIDE DEF fold, m, Take
<1>2. ASSUME NEW k \in Nat, k \in S
      PROVE  k + 1 \in S
  <2>1. PICK f : f = [s \in SUBSET (1..k) |-> F(f, s)]
    BY <1>2
  <2> DEFINE g == [s \in SUBSET (1..(k + 1)) |-> IF s \in SUBSET (1..k) THEN f[s] ELSE F(f, s)]
  <2>2. ASSUME NEW s \in SUBSET (1..(k + 1))
        PROVE  g[s] = F(g, s)
    <3>1. CASE s \in SUBSET (1..k)
      <4>1. f[s] = F(f, s)
        <5> HIDE DEF F
        <5> QED BY <2>1, <3>1
      <4>2. g[s] = f[s]
        BY <3>1
      <4>3. s \ {Max(s)} \in SUBSET (1..k) /\ s \ {Max(s)} \in SUBSET (1..(k + 1))
        BY <3>1
      <4>4. g[s \ {Max(s)}] = f[s \ {Max(s)}]
        BY <4>3
      <4> HIDE DEF g
      <4> QED BY <4>1, <4>2, <4>4
    <3>2. CASE s \notin SUBSET (1..k)
      <4>1. Max(s) = k + 1
        <5>1. k + 1 \in s /\ \A y \in s : y \in Int /\ y <= k + 1
          BY <3>2
        <5> QED BY <5>1, LargestIsMax
      <4>2. s \ {Max(s)} \in SUBSET (1..k) /\ s \ {Max(s)} \in SUBSET (1..(k + 1))
        BY <4>1
      <4>3. g[s \ {Max(s)}] = f[s \ {Max(s)}] /\ g[s] = F(f, s)
        BY <3>2, <4>2
      <4> HIDE DEF g
      <4> QED BY <4>3
    <3> QED BY <3>1, <3>2
  <2>3. g = [s \in SUBSET (1..(k + 1)) |-> F(g, s)]
    <3> HIDE DEF F
    <3>1. g = [s \in SUBSET (1..(k + 1)) |-> g[s]]
      OBVIOUS
    <3> HIDE DEF g
    <3> QED BY <2>2, <3>1
  <2> HIDE DEF g, F
  <2>4. k + 1 \in Nat
    OBVIOUS
  <2> QED BY <2>3, <2>4
<1>3. 0..m \subseteq S
  <2> HIDE DEF S
  <2> QED BY <1>0, <1>1, <1>2, StepByStep
<1>4. fold = [s \in SUBSET (1..m) |-> F(fold, s)]
  <2>1. m \in S
    <3> HIDE DEF S
    <3> QED BY <1>0, <1>3
  <2>2. \E f : f = [s \in SUBSET (1..m) |-> F(f, s)]
    <3> HIDE DEF F
    <3> QED BY <2>1
  <2> HIDE DEF F, S
  <2> QED BY <2>2, Zenon DEF fold
<1>5. SplitAt(c, t)[1] = fold[1..m]
  <2>1. fold = CHOOSE f : f = [s \in SUBSET (DOMAIN c) |-> IF s = {} THEN << >>
                     ELSE IF c[Max(s)].interval.start < t THEN Append(f[s \ {Max(s)}], c[Max(s)])
                          ELSE f[s \ {Max(s)}]]
    BY <1>0, Zenon DEF fold, Take
  <2>2. FoldLeft(LAMBDA s, e : IF e.interval.start < t THEN Append(s, e) ELSE s, << >>, c) = fold[DOMAIN c]
    BY <2>1, Zenon DEF FoldLeft, MapThenFoldSet
  <2> QED BY <1>0, <2>2 DEF SplitAt
<1>6. \A s \in SUBSET (1..m) : fold[s] = F(fold, s)
  <2> HIDE DEF F
  <2> QED BY <1>4
<1> DEFINE G == {k \in Nat : k <= m => fold[1..k] \in Seq(CorpusEdges)}
<1>7. 0 \in G
  <2>1. 1..0 = {} /\ {} \in SUBSET (1..m)
    OBVIOUS
  <2>2. fold[{}] = << >>
    BY <1>6, <2>1
  <2>3. << >> \in Seq(CorpusEdges)
    OBVIOUS
  <2> HIDE DEF F
  <2>4. fold[1..0] \in Seq(CorpusEdges)
    BY <2>1, <2>2, <2>3, Zenon
  <2> QED BY <2>4
<1> HIDE DEF F
<1>8. ASSUME NEW k \in Nat, k < m, k \in G
      PROVE  k + 1 \in G
  <2>1. k + 1 \in 1..m /\ k <= m /\ k + 1 \in Nat
    BY <1>0, <1>8
  <2>2. Max(1..(k + 1)) = k + 1
    <3>1. k + 1 \in 1..(k + 1) /\ \A y \in 1..(k + 1) : y \in Int /\ y <= k + 1
      OBVIOUS
    <3> QED BY <3>1, LargestIsMax
  <2>3. (1..(k + 1)) \ {k + 1} = 1..k /\ 1..(k + 1) # {} /\ 1..(k + 1) \in SUBSET (1..m)
    <3>1. m \in Nat
      BY <1>0
    <3> QED BY <2>1, <3>1
  <2>4. fold[1..(k + 1)] = Take(fold[1..k], c[k + 1])
    BY <1>6, <2>2, <2>3 DEF F
  <2>5. fold[1..k] \in Seq(CorpusEdges)
    BY <1>8, <2>1
  <2>6. c[k + 1] \in CorpusEdges
    BY <1>0, <2>1
  <2>7. Take(fold[1..k], c[k + 1]) \in Seq(CorpusEdges)
    BY <2>5, <2>6 DEF Take
  <2> QED BY <2>1, <2>4, <2>7
<1>9. 0..m \subseteq G
  <2> HIDE DEF G
  <2> QED BY <1>0, <1>7, <1>8, StepByStep
<1> QED BY <1>0, <1>5, <1>9

-----------------------------------------------------------------------------
(***************************************************************************)
(* The session.  Once it has begun the log stays as it is, and what has    *)
(* been proposed since is of its statistics.                               *)
(***************************************************************************)
\* What may be built of the statistics of a log, and how it is scored
Minable(c) == {BuildPattern(idx, s) : idx \in Nat, s \in Stats(c)}

Scored(c) == {r \in [pattern : Minable(c), round : Int, scores : SUBSET {"match_quality", "surprise"}] :
                "surprise" \in r.scores}

\* What is true throughout a session
MiningInv ==
  /\ corpus \in Seq(CorpusEdges)
  /\ \E chosen, done \in BOOLEAN : miner = [minerful |-> chosen, generated |-> done]
  /\ rounds \in Nat /\ over \in BOOLEAN
  /\ ~Started => pending = << >> /\ round_scored = << >> /\ all_scored = << >>
  /\ miner.minerful => /\ pending \in Seq(Minable(corpus))
                       /\ round_scored \in Seq(Scored(corpus)) /\ all_scored \in Seq(Scored(corpus))

\* What generate proposes is of the statistics of the log
LEMMA GeneratedMinable ==
  ASSUME NEW c \in Seq(CorpusEdges), miner.minerful, NEW q \in Generated(c)
  PROVE  q \in Seq(Minable(c))
<1>1. CASE q = << >>
  BY <1>1
<1>2. CASE q # << >>
  <2>1. PICK order \in Rankings(c) : q = [i \in 1..Min({Budget, Len(order)}) |-> BuildPattern(i, order[i])]
    BY <1>2 DEF Generated
  <2>2. Cardinality(Stats(c)) \in Nat
    BY StatsFinite, FS_CardinalityType
  <2>3. order \in [1..Cardinality(Stats(c)) -> Stats(c)]
    BY <2>1 DEF Rankings, SetToSeqs
  <2>4. Len(order) = Cardinality(Stats(c)) /\ Len(order) \in Nat
    BY <2>2, <2>3
  <2>5. PICK m : m = Min({Budget, Len(order)})
    OBVIOUS
  <2>6. m \in Nat /\ m <= Len(order)
    <3>1. PICK n, k : n = Budget /\ k = Len(order)
      OBVIOUS
    <3>2. n \in Nat /\ k \in Nat
      BY <2>4, <3>1, DiscoveryAssumption
    <3>3. \E x \in {n, k} : \A y \in {n, k} : x <= y
      BY <3>2
    <3>4. Min({n, k}) \in {n, k} /\ \A y \in {n, k} : Min({n, k}) <= y
      BY <3>3 DEF Min
    <3> QED BY <2>5, <3>1, <3>2, <3>4
  <2>7. \A i \in 1..m : BuildPattern(i, order[i]) \in Minable(c)
    <3> TAKE i \in 1..m
    <3>1. i \in Nat /\ order[i] \in Stats(c)
      BY <2>3, <2>4, <2>6
    <3> QED BY <3>1 DEF Minable
  <2>8. q = [i \in 1..m |-> BuildPattern(i, order[i])]
    BY <2>1, <2>5
  <2> QED BY <2>6, <2>7, <2>8
<1> QED BY <1>1, <1>2

\* ... and is scored with surprise
LEMMA MinableScored ==
  ASSUME NEW c \in Seq(CorpusEdges), NEW p \in Minable(c), NEW n \in Int
  PROVE  [pattern |-> p, round |-> n, scores |-> Scores(p, c)] \in Scored(c)
<1>1. PICK idx, s : s \in Stats(c) /\ p = BuildPattern(idx, s)
  BY DEF Minable
<1>2. PICK i \in DOMAIN c, j \in DOMAIN c : BuiltOf(p, c, i, j)
  BY <1>1, StatsBorneOut DEF MinedFrom
<1>3. HasSurprise(p, c)
  BY <1>2, BuiltSurprises
<1>4. Scores(p, c) \in SUBSET {"match_quality", "surprise"} /\ "surprise" \in Scores(p, c)
  BY <1>3 DEF Scores
<1> QED BY <1>4 DEF Scored

\* Every step of a session keeps to this
LEMMA MiningStep == MiningInv /\ [DiscoveryNext]_discoveryVars => MiningInv'
<1> SUFFICES ASSUME MiningInv, [DiscoveryNext]_discoveryVars
             PROVE  MiningInv'
  OBVIOUS
<1>1. /\ corpus \in Seq(CorpusEdges) /\ rounds \in Nat /\ over \in BOOLEAN
      /\ ~Started => pending = << >> /\ round_scored = << >> /\ all_scored = << >>
      /\ miner.minerful => /\ pending \in Seq(Minable(corpus))
                           /\ round_scored \in Seq(Scored(corpus)) /\ all_scored \in Seq(Scored(corpus))
  BY DEF MiningInv
<1>2. PICK chosen \in BOOLEAN, done \in BOOLEAN : miner = [minerful |-> chosen, generated |-> done]
  BY DEF MiningInv
<1>3. ASSUME ~Started, corpus' \in Seq(CorpusEdges),
             UNCHANGED <<miner, rounds, over, pending, round_scored, all_scored, accepted, told>>
      PROVE  MiningInv'
  <2>1. /\ pending' = << >> /\ round_scored' = << >> /\ all_scored' = << >>
        /\ miner' = miner /\ rounds' = rounds /\ over' = over
    BY <1>1, <1>3
  <2>2. \A T : << >> \in Seq(T)
    OBVIOUS
  <2> QED BY <1>1, <1>2, <1>3, <2>1, <2>2 DEF MiningInv
<1>4. CASE Record
  <2>1. corpus' \in Seq(CorpusEdges)
    BY <1>1, <1>4 DEF Record
  <2> QED BY <1>3, <1>4, <2>1 DEF Record
<1>5. CASE HoldOut
  <2>1. PICK t : corpus' = SplitAt(corpus, t)[1]
    BY <1>5 DEF HoldOut
  <2>2. corpus' \in Seq(CorpusEdges)
    BY <1>1, <2>1, EarlierPart
  <2> QED BY <1>3, <1>5, <2>2 DEF HoldOut
<1>6. CASE StartRound
  <2> USE <1>6 DEF StartRound
  <2>1. pending' \in Generated(corpus) /\ corpus' = corpus /\ round_scored' = round_scored /\ all_scored' = all_scored
    OBVIOUS
  <2>2. miner' = [minerful |-> chosen, generated |-> chosen] /\ miner.minerful = chosen /\ miner'.minerful = chosen
    BY <1>2
  <2>3. rounds' \in Nat /\ over' \in BOOLEAN /\ (rounds' > 0 \/ over')
    BY <1>1
  <2>4. miner'.minerful => pending' \in Seq(Minable(corpus))
    BY <1>1, <2>1, <2>2, GeneratedMinable
  <2>5. Started'
    BY <2>3 DEF Started
  <2>6. miner'.minerful => round_scored' \in Seq(Scored(corpus)) /\ all_scored' \in Seq(Scored(corpus))
    BY <1>1, <2>1, <2>2
  <2> QED BY <1>1, <2>1, <2>2, <2>3, <2>4, <2>5, <2>6 DEF MiningInv
<1>7. CASE EvaluateCandidate
  <2> USE <1>7 DEF EvaluateCandidate
  <2>1. /\ pending # << >> /\ pending' = Tail(pending) /\ corpus' = corpus /\ miner' = miner
        /\ rounds' = rounds /\ over' = over /\ all_scored' = all_scored
    OBVIOUS
  <2>2. Started /\ Started'
    BY <1>1, <2>1 DEF Started
  <2>3. PICK r : r = [pattern |-> Head(pending), round |-> rounds - 1, scores |-> Scores(Head(pending), corpus)]
    OBVIOUS
  <2>4. round_scored' = Append(round_scored, r)
    BY <2>3
  <2>5. ASSUME miner.minerful
        PROVE  pending' \in Seq(Minable(corpus)) /\ round_scored' \in Seq(Scored(corpus))
    <3>1. Head(pending) \in Minable(corpus) /\ Tail(pending) \in Seq(Minable(corpus))
      BY <1>1, <2>1, <2>5
    <3>2. rounds - 1 \in Int
      BY <1>1
    <3>3. r \in Scored(corpus)
      BY <1>1, <2>3, <3>1, <3>2, MinableScored
    <3> QED BY <1>1, <2>1, <2>4, <2>5, <3>1, <3>3
  <2> QED BY <1>1, <1>2, <2>1, <2>2, <2>5 DEF MiningInv
<1>8. CASE EndRound
  <2> USE <1>8 DEF EndRound
  <2>1. /\ round_scored # << >> /\ round_scored' = << >> /\ all_scored' = all_scored \o round_scored
        /\ corpus' = corpus /\ miner' = miner /\ rounds' = rounds /\ over' = over /\ pending' = pending
    OBVIOUS
  <2>2. Started /\ Started'
    BY <1>1, <2>1 DEF Started
  <2>3. ASSUME miner.minerful
        PROVE  round_scored' \in Seq(Scored(corpus)) /\ all_scored' \in Seq(Scored(corpus))
    <3>1. PICK T : T = Scored(corpus)
      OBVIOUS
    <3>2. round_scored \in Seq(T) /\ all_scored \in Seq(T)
      BY <1>1, <2>3, <3>1
    <3> QED BY <2>1, <3>1, <3>2
  <2> QED BY <1>1, <1>2, <2>1, <2>2, <2>3 DEF MiningInv
<1>9. CASE UNCHANGED discoveryVars
  BY <1>9 DEF discoveryVars, MiningInv, Started
<1> QED BY <1>4, <1>5, <1>6, <1>7, <1>8, <1>9 DEF DiscoveryNext

\* ... and what is of the statistics of the log, the log bears out
LEMMA MinableBorneOut ==
  ASSUME ProperEdges, NEW c \in Seq(CorpusEdges), NEW p \in Minable(c)
  PROVE  /\ \E x, y \in ToSet(c) : Reads(p, x, y)
         /\ RelationOf(p) \in BeforeOrMeets => MatchCount(p, c) > 0
<1>1. PICK idx, s : s \in Stats(c) /\ p = BuildPattern(idx, s)
  BY DEF Minable
<1>2. PICK i \in DOMAIN c, j \in DOMAIN c : BuiltOf(p, c, i, j)
  BY <1>1, StatsBorneOut DEF MinedFrom
<1>3. Reads(p, c[i], c[j])
  BY <1>2, ReadsBack
<1>4. c[i] \in ToSet(c) /\ c[j] \in ToSet(c)
  BY DEF ToSet
<1>5. RelationOf(p) \in BeforeOrMeets => MatchCount(p, c) > 0
  BY <1>2, BuiltMatches
<1> QED BY <1>3, <1>4, <1>5

\* What the invariant says of the patterns is the property
LEMMA MiningBearsOut == ProperEdges /\ MiningInv => MinedIsBorneOut
<1> SUFFICES ASSUME ProperEdges, MiningInv
             PROVE  MinedIsBorneOut
  OBVIOUS
<1>1. CASE ~miner.minerful
  BY <1>1 DEF MinedIsBorneOut, Mined
<1>2. CASE miner.minerful
  <2>1. /\ corpus \in Seq(CorpusEdges) /\ pending \in Seq(Minable(corpus))
        /\ round_scored \in Seq(Scored(corpus)) /\ all_scored \in Seq(Scored(corpus))
    BY <1>2 DEF MiningInv
  <2>2. ASSUME NEW s \in ToSet(all_scored \o round_scored)
        PROVE  s \in Scored(corpus)
    <3>1. PICK T : T = Scored(corpus)
      OBVIOUS
    <3>2. all_scored \o round_scored \in Seq(T)
      BY <2>1, <3>1
    <3>3. PICK w : w = all_scored \o round_scored
      OBVIOUS
    <3>4. w \in Seq(T) /\ s \in ToSet(w)
      BY <2>2, <3>2, <3>3
    <3>5. s \in T
      BY <3>4 DEF ToSet
    <3> QED BY <3>1, <3>5
  <2>3. ASSUME NEW p \in Mined
        PROVE  p \in Minable(corpus)
    <3>1. CASE \E s \in ToSet(all_scored \o round_scored) : p = s.pattern
      BY <2>2, <3>1 DEF Scored
    <3>2. CASE p \in ToSet(pending)
      <4>1. PICK T : T = Minable(corpus)
        OBVIOUS
      <4>2. pending \in Seq(T)
        BY <2>1, <4>1
      <4>3. p \in T
        BY <3>2, <4>2 DEF ToSet
      <4> QED BY <4>1, <4>3
    <3> QED BY <1>2, <3>1, <3>2 DEF Mined, Candidates
  <2>4. \A p \in Mined :
          /\ \E x, y \in ToSet(corpus) : Reads(p, x, y)
          /\ RelationOf(p) \in BeforeOrMeets => MatchCount(p, corpus) > 0
    BY <2>1, <2>3, MinableBorneOut
  <2>5. \A s \in ToSet(all_scored \o round_scored) : "surprise" \in s.scores
    BY <2>2 DEF Scored
  <2> QED BY <2>4, <2>5 DEF MinedIsBorneOut
<1> QED BY <1>1, <1>2

\* In whatever log, and whatever was recorded, held out and mined, provided no
\* edge ends before it has begun: two edges of the log bear out every mined
\* pattern, one that says that one edge precedes the other matches, and none
\* is scored without surprise.
THEOREM MiningIsBorneOut ==
  ASSUME ProperEdges
  PROVE  DiscoverySpec => []MinedIsBorneOut
<1>1. DiscoveryInit => MiningInv
  <2> SUFFICES ASSUME DiscoveryInit
               PROVE  MiningInv
    OBVIOUS
  <2>1. /\ corpus = << >> /\ rounds = 0 /\ over = FALSE
        /\ pending = << >> /\ round_scored = << >> /\ all_scored = << >>
    BY DEF DiscoveryInit
  <2>2. \E chosen, done \in BOOLEAN : miner = [minerful |-> chosen, generated |-> done]
    BY DEF DiscoveryInit
  <2>3. corpus \in Seq(CorpusEdges) /\ rounds \in Nat /\ over \in BOOLEAN
    <3>1. corpus \in Seq(CorpusEdges) /\ rounds \in Nat
      BY <2>1
    <3>2. over \in BOOLEAN
      BY <2>1, Zenon
    <3> QED BY <3>1, <3>2
  <2>4. pending \in Seq(Minable(corpus)) /\ round_scored \in Seq(Scored(corpus)) /\ all_scored \in Seq(Scored(corpus))
    BY <2>1
  <2> QED BY <2>1, <2>2, <2>3, <2>4 DEF MiningInv
<1>2. MiningInv => MinedIsBorneOut
  BY MiningBearsOut
<1> QED BY <1>1, <1>2, MiningStep, PTL DEF DiscoverySpec
=============================================================================
