------------------------------ MODULE Intervals ------------------------------
(***************************************************************************)
(* Time intervals [start, end) and Allen's thirteen relations, as          *)
(* crates/fabula/src/interval.rs computes them.                            *)
(*                                                                         *)
(* An optional value is a set with at most one element, here and in every  *)
(* module of the project: `None` is {} and `Some(x)` is {x}.  An interval  *)
(* with end = {} is open-ended.                                            *)
(***************************************************************************)
EXTENDS Integers, FiniteSets, Sequences

\* Interval::new and Interval::open.  `new` does not ask that start < end.
Bounded(s, t) == [start |-> s, end |-> {t}]
Open(s)       == [start |-> s, end |-> {}]

IntervalsOver(T) == [start : T, end : {{}} \cup {{t} : t \in T}]

\* Interval::covers
Covers(iv, t) == iv.start <= t /\ \A e \in iv.end : t < e

IsBounded(iv) == iv.end # {}

EndOf(iv) == CHOOSE e \in iv.end : TRUE

(***************************************************************************)
(* Interval::relation of [s, t) and [u, v): the relations are tested in    *)
(* this order and the first that holds wins, which matters for empty       *)
(* intervals only.                                                         *)
(***************************************************************************)
TestOrder ==
  << "Before", "After", "Meets", "MetBy", "Equals", "Starts", "StartedBy",
     "Finishes", "FinishedBy", "During", "Contains", "Overlaps", "OverlappedBy" >>

\* Fault: MetBy compares the two ends
HoldsApartByEnds(rel, s, t, u, v) ==
  \/ rel = "Before" /\ t < u
  \/ rel = "After"  /\ v < s
  \/ rel = "Meets"  /\ t = u
  \/ rel = "MetBy"  /\ v = t

HoldsApart(rel, s, t, u, v) ==
  \/ rel = "Before" /\ t < u
  \/ rel = "After"  /\ v < s
  \/ rel = "Meets"  /\ t = u
  \/ rel = "MetBy"  /\ v = s

Holds(rel, s, t, u, v) ==
  \/ HoldsApart(rel, s, t, u, v)
  \/ rel = "Equals"       /\ s = u /\ t = v
  \/ rel = "Starts"       /\ s = u /\ t < v
  \/ rel = "StartedBy"    /\ s = u /\ t > v
  \/ rel = "Finishes"     /\ t = v /\ s > u
  \/ rel = "FinishedBy"   /\ t = v /\ s < u
  \/ rel = "During"       /\ s > u /\ t < v
  \/ rel = "Contains"     /\ s < u /\ t > v
  \/ rel = "Overlaps"     /\ s < u /\ t > u /\ t < v
  \/ rel = "OverlappedBy" /\ u < s /\ v > s /\ v < t

Relation(a, b) ==
  IF ~(IsBounded(a) /\ IsBounded(b)) THEN {}
  ELSE LET hits == {i \in DOMAIN TestOrder :
                      Holds(TestOrder[i], a.start, EndOf(a), b.start, EndOf(b))}
       IN  {TestOrder[i] : i \in {h \in hits : \A k \in hits : h <= k}}

\* AllenRelation::inverse
InverseRelation ==
  [ Before   |-> "After",     After      |-> "Before",   Meets    |-> "MetBy",
    MetBy    |-> "Meets",     Overlaps   |-> "OverlappedBy",
    OverlappedBy |-> "Overlaps", Starts  |-> "StartedBy", StartedBy |-> "Starts",
    During   |-> "Contains",  Contains   |-> "During",
    Finishes |-> "FinishedBy", FinishedBy |-> "Finishes", Equals  |-> "Equals" ]

\* AllenRelation::is_before_or_meets
BeforeOrMeets == {"Before", "Meets"}

\* Fault: intervals that only touch intersect
IntersectsTouching(a, b) == /\ \A e \in b.end : a.start <= e
                            /\ \A e \in a.end : b.start <= e

\* Interval::before and Interval::intersects
StartsAfterEnd(a, b) == \E e \in a.end : e <= b.start
Intersects(a, b)     == /\ \A e \in b.end : a.start < e
                        /\ \A e \in a.end : b.start < e

\* Fault: always the distance of the starts
GapOfStarts(a, b, rel) == {b.start - a.start}

(***************************************************************************)
(* Interval::gap_for_relation: the distance a metric bound is compared     *)
(* with, {} when the endpoint it needs is missing.                         *)
(***************************************************************************)
Gap(a, b, rel) ==
  CASE rel = "Before"       -> {b.start - e : e \in a.end}
    [] rel = "After"        -> {a.start - e : e \in b.end}
    [] rel = "Overlaps"     -> {e - b.start : e \in a.end}
    [] rel = "OverlappedBy" -> {e - a.start : e \in b.end}
    [] rel = "Starts"       -> {ends[2] - ends[1] : ends \in a.end \X b.end}
    [] rel = "StartedBy"    -> {ends[1] - ends[2] : ends \in a.end \X b.end}
    [] rel \in {"During", "Finishes"}       -> {a.start - b.start}
    [] rel \in {"Contains", "FinishedBy"}   -> {b.start - a.start}
    [] rel \in {"Meets", "MetBy", "Equals"} -> {0}
=============================================================================
