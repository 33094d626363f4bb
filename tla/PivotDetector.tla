---------------------------- MODULE PivotDetector ---------------------------
(***************************************************************************)
(* How far the distribution of event types moves from tick to tick         *)
(* (crates/fabula-narratives/src/pivot.rs), and the metrics it is measured *)
(* with (distance.rs).                                                     *)
(*                                                                         *)
(* A distribution is the record of its counts; two are equal when they are *)
(* proportional.  Of a metric only what decides its value's sign and       *)
(* infinity is kept: "zero", "some", "most" (its upper bound, reached      *)
(* exactly by distributions with nothing in common) or "infinite".         *)
(***************************************************************************)
EXTENDS Integers, Sequences

CONSTANT EventTypes

VARIABLES current_counts,     \* event type -> count, this tick
          prev_distribution,  \* of the last tick with events, empty before it
          history             \* the distances, oldest first

pivotVars == <<current_counts, prev_distribution, history>>

NoCounts == [x \in {} |-> 0]

PivotInit == current_counts = NoCounts /\ prev_distribution = NoCounts /\ history = << >>

Count(d, k) == IF k \in DOMAIN d THEN d[k] ELSE 0

Mass(d) == LET upTo[S \in SUBSET DOMAIN d] ==
                 IF S = {} THEN 0
                 ELSE LET k == CHOOSE k \in S : TRUE IN d[k] + upTo[S \ {k}]
           IN  upTo[DOMAIN d]

Same(p, q) == \A k \in DOMAIN p \cup DOMAIN q : Count(p, k) * Mass(q) = Count(q, k) * Mass(p)

\* JensenShannon and Hellinger: 0 for the same distribution, 1 for disjoint ones
Bounded(p, q) == IF Same(p, q) THEN "zero"
                 ELSE IF DOMAIN p \cap DOMAIN q = {} THEN "most" ELSE "some"

\* KullbackLeibler: infinite when q misses what p has
Divergence(p, q) == IF ~(DOMAIN p \subseteq DOMAIN q) THEN "infinite"
                    ELSE IF Same(p, q) THEN "zero" ELSE "some"

Distance(metric, p, q) == IF metric = "KullbackLeibler" THEN Divergence(p, q) ELSE Bounded(p, q)

\* push
PushEvent(k) ==
  /\ current_counts' = [x \in DOMAIN current_counts \cup {k} |->
                        Count(current_counts, x) + (IF x = k THEN 1 ELSE 0)]
  /\ UNCHANGED <<prev_distribution, history>>

\* Fault: an empty tick forgets the distribution before it
OfLastTick(prev, current) == current

OfLastEventful(prev, current) == IF current = NoCounts THEN prev ELSE current

\* end_tick: without events, or none before, the distance is 0
EndPivotTick(metric) ==
  /\ history' = Append(history, IF NoCounts \in {prev_distribution, current_counts} THEN "zero"
                                ELSE Distance(metric, prev_distribution, current_counts))
  /\ prev_distribution' = OfLastEventful(prev_distribution, current_counts)
  /\ current_counts' = NoCounts

\* reset
PivotReset == current_counts' = NoCounts /\ prev_distribution' = NoCounts /\ history' = << >>
=============================================================================
