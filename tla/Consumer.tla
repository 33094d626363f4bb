------------------------------ MODULE Consumer ------------------------------
(***************************************************************************)
(* The caller of OrderedDelivery that also drains: what drain_completed    *)
(* returned so far is `delivered` (engine/mod.rs, drain_completed).        *)
(***************************************************************************)
EXTENDS OrderedDelivery

VARIABLE delivered

MatchesOf(S) == {<<pm.pattern_idx, pm.repetition_count, MatchOf(pm)>> : pm \in S}

\* drain_completed hides the matches of private patterns, and drops them
Drained == MatchesOf({pm \in Complete : ~IsPrivate(Library[pm.pattern_idx].name)})

ConsumerInit == Init /\ delivered = {}

ConsumerNext ==
  \/ OrderedNext /\ UNCHANGED delivered
  \/ DrainCompleted /\ delivered' = delivered \cup Drained

ConsumerSpec == ConsumerInit /\ [][ConsumerNext]_<<vars, delivered>>

\* A match drained once is not there to be drained again, though its
\* fingerprint is forgotten with it.
DeliveredOnce == MatchesOf(Complete) \cap delivered = {}

\* However drains and events interleave, every match of the graph has been
\* drained or waits to be.
AllDelivered ==
  Pending = {} =>
    \A i \in Pats :
      BatchMatches(i) \subseteq CompletedMatches(i) \cup {d[3] : d \in {x \in delivered : x[1] = i}}
=============================================================================
