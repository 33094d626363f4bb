----------------------------- MODULE Composition -----------------------------
(***************************************************************************)
(* Building patterns from patterns (crates/fabula/src/compose.rs).         *)
(*                                                                         *)
(* In patterns that are composed, variables and pattern names are          *)
(* sequences of strings: the code's "a_e1" is <<"a", "e1">>, so that a     *)
(* prefix never makes two variables the same.                              *)
(***************************************************************************)
EXTENDS Patterns, TLC

Renamed(x, prefix, keep) == IF x \in keep THEN x ELSE prefix \o x

\* rename_vars
RenameVars(p, prefix, keep) ==
  LET R(x)       == Renamed(x, prefix, keep)
      Target(t)  == IF t.kind = "in" THEN t ELSE [t EXCEPT !.var = R(@)]
      Clauses(s) == [i \in DOMAIN s |->
                      [s[i] EXCEPT !.source = R(@), !.target = Target(@)]]
  IN  [ p EXCEPT
        !.stages    = [s \in DOMAIN @ |-> Stage(R(@[s].anchor), Clauses(@[s].clauses))],
        !.temporal  = {[tc EXCEPT !.left = R(@), !.right = R(@)] : tc \in @},
        !.negations = {Unless(R(neg.between_start), {R(x) : x \in neg.between_end},
                              Clauses(neg.clauses)) : neg \in @} ]

\* Unordered groups of stages that now follow n others
Shifted(groups, n) == {{i + n : i \in g} : g \in groups}

\* Fault: the second part's groups are dropped with its other options
JoinedUngrouped(name, p, q) ==
  [ Plain(name, p.stages \o q.stages) EXCEPT
    !.temporal         = p.temporal \cup q.temporal,
    !.negations        = p.negations \cup q.negations,
    !.unordered_groups = p.unordered_groups,
    !.advance_in_place = p.advance_in_place \/ q.advance_in_place ]

\* p's stages and then q's: what every operator returns.  Group, deadline,
\* inactivity threshold and privacy of the parts are dropped.
Joined(name, p, q) ==
  [ Plain(name, p.stages \o q.stages) EXCEPT
    !.temporal         = p.temporal \cup q.temporal,
    !.negations        = p.negations \cup q.negations,
    !.unordered_groups = p.unordered_groups \cup Shifted(q.unordered_groups, StageCount(p)),
    !.advance_in_place = p.advance_in_place \/ q.advance_in_place ]

\* sequence
SequenceOf(name, a, b, shared) ==
  Joined(name, RenameVars(a, <<"a">>, shared), RenameVars(b, <<"b">>, shared))

\* Fault: what the repetitions share is told apart too
RepeatUnshared(name, p, count, shared) ==
  LET unrolled[i \in 0..count] ==
        IF i = 0 THEN Plain(name, << >>)
        ELSE Joined(name, unrolled[i - 1], RenameVars(p, <<"rep", ToString(i - 1)>>, {}))
  IN  unrolled[count]

\* repeat
RepeatOf(name, p, count, shared) ==
  LET unrolled[i \in 0..count] ==
        IF i = 0 THEN Plain(name, << >>)
        ELSE Joined(name, unrolled[i - 1],
                    RenameVars(p, <<"rep", ToString(i - 1)>>, shared))
  IN  unrolled[count]

\* repeat_range; its assertions are 1 <= min <= max
RepeatRangeOf(name, p, min, max, shared) ==
  [ Joined(name, RenameVars(p, <<"first">>, shared), RenameVars(p, <<"last">>, shared)) EXCEPT
    !.repeat_range = {[ stage_start |-> StageCount(p) + 1, stage_end |-> 2 * StageCount(p) + 1,
                        min_reps |-> min, max_reps |-> max, shared_vars |-> shared ]} ]

\* choice, as the sequence of patterns to register
ChoiceOf(name, alternatives, exclusive) ==
  [ i \in DOMAIN alternatives |->
    [ alternatives[i] EXCEPT !.name = name \o @,
                             !.group = {name : x \in {e \in {exclusive} : e}} ] ]
=============================================================================
