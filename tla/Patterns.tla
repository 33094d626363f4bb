------------------------------ MODULE Patterns ------------------------------
(***************************************************************************)
(* Patterns as the engine sees them (crates/fabula/src/pattern.rs).  A     *)
(* pattern is a record                                                     *)
(*   name, stages, temporal, negations, group, deadline_ticks,             *)
(*   inactivity_threshold, repeat_range, unordered_groups, private,        *)
(*   advance_in_place                                                      *)
(* whose stages are numbered from 1.  stages is a sequence of              *)
(* [anchor, clauses]; a clause is [source, label, target, negated].        *)
(* unordered_groups is a set of sets of stage indices; mutual-exclusion    *)
(* group, deadline, inactivity threshold and repeat range are optional.    *)
(* Metadata, importance and let bindings are left out.                     *)
(***************************************************************************)
EXTENDS Integers, Sequences, FiniteSets

Clause(x, l, t)    == [source |-> x, label |-> l, target |-> t, negated |-> FALSE]
NotClause(x, l, t) == [source |-> x, label |-> l, target |-> t, negated |-> TRUE]
Stage(a, cs)       == [anchor |-> a, clauses |-> cs]

\* A negation window: no match of the clauses after between_start and before
\* between_end, or ever after when between_end is {}.
Unless(from, to, cs) ==
  [between_start |-> from, between_end |-> to, clauses |-> cs]

\* A pattern with every option at the builder's default.
Plain(name, stages) ==
  [ name |-> name, stages |-> stages, temporal |-> {}, negations |-> {},
    group |-> {}, deadline_ticks |-> {}, inactivity_threshold |-> {},
    repeat_range |-> {}, unordered_groups |-> {}, private |-> FALSE,
    advance_in_place |-> FALSE ]

StageCount(p) == Len(p.stages)

\* Pattern::unordered_group_for: the group of stage s, {} when it has none
UnorderedGroup(p, s) == UNION {g \in p.unordered_groups : s \in g}

InGroup(p, s) == UnorderedGroup(p, s) # {}

\* Pattern::same_unordered_group
SameGroup(p, s, t) == \E g \in p.unordered_groups : {s, t} \subseteq g

\* build_stage_steps: a segment is an ordered stage or a whole group
Segment(p, s) == IF InGroup(p, s) THEN UnorderedGroup(p, s) ELSE {s}

\* Segments that follow each other, for consecutive group members
NextSegment(p, s, t) ==
  \E l \in Segment(p, s), r \in Segment(p, t) :
     /\ r = l + 1
     /\ \A k \in Segment(p, s) : k <= l
     /\ \A k \in Segment(p, t) : r <= k

SegmentEnd(p, s)   == (CHOOSE m \in Segment(p, s) : \A k \in Segment(p, s) : k <= m) + 1
SegmentStart(p, s) == CHOOSE m \in Segment(p, s) : \A k \in Segment(p, s) : m <= k

\* The first stage with this anchor, as a set
AnchorStage(p, x) ==
  {s \in 1..StageCount(p) : /\ p.stages[s].anchor = x
                            /\ \A t \in 1..(s - 1) : p.stages[t].anchor # x}

\* Variables a repeat clears from the binding map when its segment loops
LoopVars(p, rr) ==
  UNION {{p.stages[s].anchor}
         \cup UNION {{c.source} \cup (IF c.target.kind = "bind" THEN {c.target.var} ELSE {})
                     : c \in {p.stages[s].clauses[i] : i \in DOMAIN p.stages[s].clauses}}
         : s \in rr.stage_start .. (rr.stage_end - 1)} \ rr.shared_vars
=============================================================================
