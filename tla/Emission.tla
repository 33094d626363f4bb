------------------------------ MODULE Emission ------------------------------
(***************************************************************************)
(* The way back to text (crates/fabula-discovery/src/emit.rs), for         *)
(* patterns whose values are strings.                                      *)
(***************************************************************************)
EXTENDS DslCompiler

\* quote_string, of strings without a quotation mark
QuoteOf(s) == CHOOSE w \in DOMAIN Quoted : Quoted[w] = s

\* format_num
NumeralOf(n) ==
  LET Digits(m) == CHOOSE w \in DOMAIN Numerals : Numerals[w] = m
  IN  IF n < 0 THEN <<"-", Digits(-n)>> ELSE <<Digits(n)>>

\* emit_constraint: the DSL cannot say a range, and says the first of several
EmitTarget(t) ==
  CASE t.kind = "bind"       -> <<"->", "?", t.var>>
    [] t.kind = "literal"    -> <<"=", QuoteOf(t.value.str)>>
    [] t.kind = "constraint" -> <<t.op, QuoteOf(t.value.str)>>
    [] t.kind = "compared"   -> <<t.op, "?", t.var>>
    [] t.kind = "between"    -> <<">=", QuoteOf(t.lo.str)>>
    [] t.kind = "any"        -> <<"->", "?", "_any">>
    [] t.kind = "one_of"     -> <<"=", QuoteOf(IF t.values = << >> THEN "" ELSE t.values[1].str)>>

\* emit_clause
EmitClause(c) ==
  (IF c.negated THEN <<"!">> ELSE << >>) \o <<c.source, ".", QuoteOf(c.label)>> \o EmitTarget(c.target)

EmitClauses(cs) == <<"{">> \o FlattenSeq(Each(EmitClause, cs)) \o <<"}">>

\* emit_stage: let bindings are left out
EmitStage(s) == <<"stage", s.anchor>> \o EmitClauses(s.clauses)

\* Fault: groups are not told from other stages
EmitInOrder(p) == FlattenSeq(Each(EmitStage, p.stages))

\* A group is emitted where its first stage stands; its other stages are then
\* passed over.
EmitStages(p) ==
  LET Members(g)  == FlattenSeq(Each(LAMBDA i : EmitStage(p.stages[i]), g))
      Led(i)      == {g \in DOMAIN p.groups : p.groups[g][1] = i}
      Emitted(i)  == \E j \in 1..(i - 1) : \E g \in Led(j) : i \in ToSet(p.groups[g])
      At(i)       == IF Emitted(i) THEN << >>
                     ELSE IF Led(i) = {} THEN EmitStage(p.stages[i])
                     ELSE <<"concurrent", "{">> \o Members(p.groups[Min(Led(i))]) \o <<"}">>
  IN  FlattenSeq([i \in DOMAIN p.stages |-> At(i)])

\* emit_negation; of an optional anchor there is at most one
EmitNegation(neg) ==
  <<"unless">>
  \o (IF neg.is_global THEN << >>
      ELSE <<IF neg.between_end = {} THEN "after" ELSE "between">>
           \o SetToSeq(neg.between_start) \o SetToSeq(neg.between_end))
  \o EmitClauses(neg.clauses)

\* emit_temporal and emit_gap
EmitTemporal(tc) ==
  LET Word0 == CHOOSE w \in DOMAIN AllenRelation : AllenRelation[w] = tc.relation
      Bound(b) == FlattenSeq(Each(NumeralOf, SetToSeq(b)))
      Gap(g)   == IF g.min \cup g.max = {} THEN << >>
                  ELSE <<"gap">> \o Bound(g.min) \o <<"..">> \o Bound(g.max)
  IN  <<"temporal", tc.left, Word0, tc.right>> \o FlattenSeq(Each(Gap, SetToSeq(tc.gap)))

\* pattern_to_dsl.  Metadata is sorted by its keys; any order does here.
PatternToDsl(p) ==
  (IF p.private THEN <<"private">> ELSE << >>) \o <<"pattern", p.name, "{">>
  \o EmitStages(p)
  \o FlattenSeq(Each(EmitNegation, p.negations))
  \o FlattenSeq(Each(EmitTemporal, p.temporal))
  \o FlattenSeq(Each(LAMBDA d : <<"deadline">> \o NumeralOf(d), SetToSeq(p.deadline)))
  \o FlattenSeq(Each(LAMBDA m : <<"meta", "(", QuoteOf(m[1]), ",", QuoteOf(m[2]), ")">>, SetToSeq(p.metadata)))
  \o <<"}">>

\* What a pattern is once it has been through text: the documented losses
\* (ranges and alternatives) and those that are not (importance, in-place
\* advancing, inactivity, let bindings, and what = and any become).
Washed(p) ==
  LET Target0(t) ==
        CASE t.kind = "between" -> Constrained(">=", t.lo)
          [] t.kind = "any"     -> ToVar("_any")
          [] t.kind = "one_of"  -> ToLiteral(IF t.values = << >> THEN [str |-> ""] ELSE t.values[1])
          [] t.kind = "constraint" /\ t.op = "=" -> ToLiteral(t.value)
          [] OTHER              -> t
      Clause0(c) == [c EXCEPT !.target = Target0(@)]
  IN  [p EXCEPT
         !.stages = Each(LAMBDA s : StageOf(s.anchor, Each(Clause0, s.clauses)), @),
         !.temporal = Each(LAMBDA tc : [tc EXCEPT !.gap = {g \in @ : g.min \cup g.max # {}}], @),
         !.negations = Each(LAMBDA n : [n EXCEPT !.clauses = Each(Clause0, @)], @),
         !.inactivity = {}, !.importance = 1, !.advance_in_place = FALSE]
=============================================================================
