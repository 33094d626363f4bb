------------------------------ MODULE GameLoop ------------------------------
(***************************************************************************)
(* The engine driven as SiftEngine's documentation tells a game master to  *)
(* (engine/mod.rs, end_tick): patterns first, then tick after tick: edges  *)
(* are inserted, each batch later than the last, and notified while the    *)
(* tick lasts, and end_tick closes it.                                     *)
(* No plain tick(), no commit of a fork.  Entities may leave, patterns be  *)
(* switched, completions be drained at any time; and at any time the       *)
(* status of the plant/payoff pairs is asked, each a pattern that sets     *)
(* something up and the pattern that resolves it (plant_status).           *)
(***************************************************************************)
EXTENDS SiftEngine

CONSTANTS
  LastEventTick,  \* bound: the last tick with events; ticks go on
  Pairs           \* the plant/payoff pairs registered: [plant, payoff, shared_binding]

Later(es) == \A i \in DOMAIN es : es[i].interval.start > now

TickEnds == \E threshold \in StaleThresholds : registered = Len(Library) /\ EndTick(threshold)

\* What happens while a tick lasts
Play ==
  \/ Register
  \/ /\ registered = Len(Library) /\ tick_counter <= LastEventTick
     /\ \/ \E es \in Batches : Later(es) /\ Insert(es)
        \/ \E i \in DOMAIN graph : Notify(i)
        \/ \E i \in Pats, on \in BOOLEAN : SetPatternEnabled(i, on)
        \/ \E node \in Nodes : KillPmsInvolving(node)
  \/ DrainCompleted

LoopNext == Play \/ TickEnds

\* The caller ends every tick it began
LoopSpec == Init /\ [][LoopNext]_vars /\ WF_vars(TickEnds)

\* plant_status; a pair one of whose patterns is not registered has none
PlantStatus(pair, threshold) ==
  LET active == {pm \in Active : pm.pattern_idx = pair.plant}
      since  == tick_counter - metrics[pair.plant].last_advanced_tick
  IN  [ plant_pattern              |-> Library[pair.plant].name,
        payoff_pattern             |-> Library[pair.payoff].name,
        active_plants              |-> Cardinality(active),
        payoff_completions         |-> metrics[pair.payoff].completion_count,
        ticks_since_plant_advanced |-> since,
        stale                      |-> active # {} /\ since >= threshold ]

Tracked == {pair \in Pairs : {pair.plant, pair.payoff} \subseteq Pats}

\* A match in progress never outlives its pattern's deadline, counted from the
\* tick its first stage matched and through every advance, nor idles for its
\* pattern's inactivity threshold.
NoneOverdue ==
  \A pm \in Active :
    /\ \A d \in Library[pm.pattern_idx].deadline_ticks : tick_counter - pm.created_at_tick <= d
    /\ \A d \in Library[pm.pattern_idx].inactivity_threshold :
         \/ tick_counter - pm.last_advanced_tick < d
         \/ tick_counter = pm.last_advanced_tick

\* The accumulators know of every match written or completed in this tick and
\* still stored, so the next TickDelta will name its pattern.
TickRemembered ==
  \A pm \in pms : pm.last_advanced_tick = tick_counter =>
    Library[pm.pattern_idx].name \in
      (IF pm.state = "Complete" THEN acc.completed ELSE acc.advanced)

\* plant_status and stale_patterns agree on which plants gather dust, though
\* only stale_patterns asks whether the pattern is enabled.
StaleReportsAgree ==
  \A pair \in Tracked, threshold \in StaleThresholds :
    PlantStatus(pair, threshold).stale
      <=> pair.plant \in StalePatterns(pms, tick_counter, threshold)

InProgressSince(i, c) == \E pm \in Active : pm.pattern_idx = i /\ pm.created_at_tick = c

\* Whatever a pattern with a deadline began, it ends: completed, or removed
\* with everything that grew from it.
DeadlinesEnd ==
  \A i \in DOMAIN Library, c \in 0..LastEventTick :
    InProgressSince(i, c) /\ Library[i].deadline_ticks # {} ~> ~InProgressSince(i, c)
=============================================================================
