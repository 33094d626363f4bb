--------------------------- MODULE PatternBuilder ---------------------------
(***************************************************************************)
(* Patterns as they are written: crates/fabula/src/builder.rs, with what   *)
(* Patterns.tla leaves out (metadata, importance, let bindings, the        *)
(* operators of constraints) and in the order it was given.  An optional   *)
(* field is a set.  A builder is the pattern under construction, and every *)
(* method of it an operator; a group lists its stage indices, from 1.      *)
(*                                                                         *)
(* A value is a record of one field: [str |-> s], [num |-> n],             *)
(* [bool |-> b] or [node |-> s].                                           *)
(***************************************************************************)
EXTENDS Integers, Sequences, SequencesExt

NewPattern(name) ==
  [ name |-> name, stages |-> << >>, temporal |-> << >>, negations |-> << >>, metadata |-> {},
    deadline |-> {}, inactivity |-> {}, groups |-> << >>, private |-> FALSE, importance |-> 1,
    advance_in_place |-> FALSE ]

-----------------------------------------------------------------------------
(* StageBuilder and NegationBuilder: clauses *)

ToLiteral(v)       == [kind |-> "literal", value |-> v]
ToVar(x)           == [kind |-> "bind", var |-> x]
Constrained(op, v) == [kind |-> "constraint", op |-> op, value |-> v]
Compared(op, x)    == [kind |-> "compared", op |-> op, var |-> x]
AnyOf(vs)          == [kind |-> "one_of", values |-> vs]
InRange(lo, hi)    == [kind |-> "between", lo |-> lo, hi |-> hi]
Anything           == [kind |-> "any"]

EdgeTo(x, l, t)  == [source |-> x, label |-> l, target |-> t, negated |-> FALSE]
NotEdge(x, l, t) == [source |-> x, label |-> l, target |-> t, negated |-> TRUE]

StageOf(anchor, clauses) == [anchor |-> anchor, clauses |-> clauses, lets |-> << >>]

LetBinding(stage, name, expr) ==
  [stage EXCEPT !.lets = Append(@, [name |-> name, expr |-> expr])]

-----------------------------------------------------------------------------
(* PatternBuilder *)

AddStage(b, stage) == [b EXCEPT !.stages = Append(@, stage)]

AddUnorderedGroup(b, stages) ==
  [b EXCEPT !.stages = @ \o stages,
            !.groups = IF stages = << >> THEN @
                       ELSE Append(@, [i \in DOMAIN stages |-> Len(b.stages) + i])]

AddTemporal(b, left, relation, right, gap) ==
  [b EXCEPT !.temporal = Append(@, [left |-> left, relation |-> relation, right |-> right, gap |-> gap])]

AddNegation(b, global, from, to, clauses) ==
  [b EXCEPT !.negations = Append(@, [ between_start |-> from, between_end |-> to,
                                      clauses |-> clauses, is_global |-> global ])]

UnlessBetween(b, from, to, clauses) == AddNegation(b, FALSE, {from}, {to}, clauses)
UnlessAfter(b, from, clauses)       == AddNegation(b, FALSE, {from}, {}, clauses)
UnlessGlobal(b, clauses)            == AddNegation(b, TRUE, {}, {}, clauses)

AddMetadata(b, key, value) ==
  [b EXCEPT !.metadata = {m \in @ : m[1] # key} \cup {<<key, value>>}]

Deadline(b, ticks)            == [b EXCEPT !.deadline = {ticks}]
InactivityThreshold(b, ticks) == [b EXCEPT !.inactivity = {ticks}]
Private(b)                    == [b EXCEPT !.private = TRUE]
Importance(b, weight)         == [b EXCEPT !.importance = weight]
AdvanceInPlace(b)             == [b EXCEPT !.advance_in_place = TRUE]

\* build: a global negation spans the stages there are in the end, and is open
\* when they all stand for one anchor
Build(b) ==
  LET first == {b.stages[i].anchor : i \in DOMAIN b.stages \cap {1}}
      last  == {b.stages[i].anchor : i \in DOMAIN b.stages \cap {Len(b.stages)}}
      Resolved(neg) == IF ~neg.is_global THEN neg
                       ELSE [neg EXCEPT !.between_start = first, !.between_end = last \ first,
                                        !.is_global = FALSE]
  IN  [b EXCEPT !.negations = [i \in DOMAIN @ |-> Resolved(@[i])]]
=============================================================================
