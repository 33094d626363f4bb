---------------------------- MODULE IntervalPairs ----------------------------
(***************************************************************************)
(* Intervals.tla, the algorithms of interval.rs, against what intervals    *)
(* mean: the instants they cover.  The two variables range over all the    *)
(* non-empty intervals on a small set of instants, open-ended ones too.    *)
(***************************************************************************)
EXTENDS Intervals

CONSTANT Times   \* the instants

ASSUME TimesAssumption == Times \subseteq Int

VARIABLES a, b

Proper == {iv \in IntervalsOver(Times) : \A e \in iv.end : iv.start < e}

Init == a \in Proper /\ b \in Proper

\* Another pair is compared
Compare == a' \in Proper /\ b' \in Proper

Spec == Init /\ [][Compare]_<<a, b>>

Instants(iv) == {t \in Times : Covers(iv, t)}

Disjoint == {"Before", "Meets", "After", "MetBy"}

(***************************************************************************)
(* Two intervals intersect exactly when some instant is covered by both,   *)
(* and the interval comparisons agree with the relation when it exists.    *)
(***************************************************************************)
SharesInstant ==
  /\ Intersects(a, b) <=> Instants(a) \cap Instants(b) # {}
  /\ \A r \in Relation(a, b) :
       /\ r \in Disjoint <=> ~Intersects(a, b)
       /\ r \in BeforeOrMeets <=> StartsAfterEnd(a, b)

(***************************************************************************)
(* The relation of the swapped pair is AllenRelation::inverse of the       *)
(* relation, and exists exactly when both intervals have an end.           *)
(***************************************************************************)
RelationInverts ==
  /\ Relation(b, a) = {InverseRelation[r] : r \in Relation(a, b)}
  /\ Relation(a, b) # {} <=> IsBounded(a) /\ IsBounded(b)

(***************************************************************************)
(* The distance a metric bound is compared with is the same seen from      *)
(* either side, and is never negative: it is computed by a subtraction     *)
(* that wraps on unsigned times.                                           *)
(***************************************************************************)
GapIsDistance ==
  \A r \in Relation(a, b) :
    /\ Gap(a, b, r) = Gap(b, a, InverseRelation[r])
    /\ Gap(a, b, r) # {} /\ \A d \in Gap(a, b, r) : d >= 0
=============================================================================
