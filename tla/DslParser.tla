----------------------------- MODULE DslParser ------------------------------
(***************************************************************************)
(* The text of the DSL and the recursive descent parser that reads it      *)
(* (crates/fabula-dsl: lexer.rs, ast.rs and parser.rs).                    *)
(*                                                                         *)
(* A text is a sequence of words, each of which the lexer makes one token  *)
(* of; spelling, spacing and comments are left out.  A name is written     *)
(* bare, so that a name that is a keyword becomes the keyword.             *)
(*                                                                         *)
(* A parser of something is an operator from the tokens left to a set,     *)
(* empty on an error, of what it read and the tokens after it.             *)
(***************************************************************************)
EXTENDS PatternBuilder, TLC

CONSTANTS
  Numerals,   \* the numbers that are written: a function from words to Int
  Quoted      \* the quoted strings: a function from words to what they quote

Keywords == { "pattern", "stage", "unless", "between", "after", "graph", "now", "temporal", "true",
              "false", "compose", "sharing", "concurrent", "in", "importance", "let", "template",
              "instantiate" }

Symbols == { "{", "}", ".", "->", "=", "<", ">", "<=", ">=", "!", "@", "..", "?", ">>", "|", "*",
             "/", "(", ")", "[", "]", ",", "+", "-", ":", ";" }

\* Lexer::next_token and read_ident: [k |-> kind, v |-> what it carries]
Token(word) ==
  CASE word \in Keywords \cup Symbols -> [k |-> word, v |-> word]
    [] word \in DOMAIN Numerals       -> [k |-> "number", v |-> Numerals[word]]
    [] word \in DOMAIN Quoted         -> [k |-> "string", v |-> Quoted[word]]
    [] OTHER                          -> [k |-> "ident", v |-> word]

Tokenize(text) == [i \in DOMAIN text |-> Token(text[i])]

-----------------------------------------------------------------------------
(* Syntax trees that are not already what the builder takes *)

Kind(ts) == IF ts = << >> THEN "eof" ELSE ts[1].k

\* Identifiers that have a meaning where a declaration may begin
Word(ts) == IF Kind(ts) = "ident" THEN ts[1].v ELSE ""

\* A clause of the syntax tree knows whether its source was written ?x
Written(clause, variable) ==
  [ source |-> clause.source, label |-> clause.label, target |-> clause.target,
    negated |-> clause.negated, variable |-> variable ]

\* PatternBody: instances are the instantiate directives, each with the number
\* of stages before it
EmptyBody ==
  [ stages |-> << >>, instances |-> << >>, negations |-> << >>, temporals |-> << >>,
    metadata |-> << >>, deadline |-> {}, groups |-> << >> ]

-----------------------------------------------------------------------------
(* The parser                                                              *)

Read(x, rest) == {<<x, rest>>}

Then(result, F(_, _)) == UNION {F(r[1], r[2]) : r \in result}

\* Parser::expect, when the token itself does not matter
Past(kind, ts, F(_)) == IF Kind(ts) = kind THEN F(Tail(ts)) ELSE {}

OneOfKinds(kinds, ts) == IF Kind(ts) \in kinds THEN Read(ts[1].v, Tail(ts)) ELSE {}

\* Fault: after and before stay keywords everywhere
StrictIdent(ts) == OneOfKinds({"ident"}, ts)

\* expect_ident: keywords that are names wherever a name is expected
Ident(ts) == OneOfKinds({ "ident", "between", "after", "compose", "sharing", "concurrent", "in",
                          "importance" }, ts)

IdentOrString(ts) == OneOfKinds({"ident", "string"}, ts)

String(ts) == OneOfKinds({"string"}, ts)

Number(ts) ==
  IF Kind(ts) # "-" THEN OneOfKinds({"number"}, ts)
  ELSE Then(OneOfKinds({"number"}, Tail(ts)), LAMBDA n, r : Read(-n, r))

\* parse_constraint_value: nothing but a number after a minus
ConstraintValue(ts) ==
  IF Kind(ts) = "string" THEN Read([str |-> ts[1].v], Tail(ts))
  ELSE Then(Number(ts), LAMBDA n, r : Read([num |-> n], r))

\* parse_literal_target and parse_edge_target_literal
LiteralValue(ts) ==
  IF Kind(ts) \in {"true", "false"} THEN Read([bool |-> Kind(ts) = "true"], Tail(ts))
  ELSE ConstraintValue(ts)

\* Items up to a closing brace, which is left
RECURSIVE UpToBrace(_, _)
UpToBrace(Item(_), ts) ==
  IF Kind(ts) = "}" THEN Read(<< >>, ts)
  ELSE Then(Item(ts), LAMBDA x, r : Then(UpToBrace(Item, r), LAMBDA xs, q : Read(<<x>> \o xs, q)))

\* One item or more, with a separator between them
RECURSIVE Separated(_, _, _)
Separated(Item(_), by, ts) ==
  Then(Item(ts), LAMBDA x, r :
    IF Kind(r) # by THEN Read(<<x>>, r)
    ELSE Then(Separated(Item, by, Tail(r)), LAMBDA xs, q : Read(<<x>> \o xs, q)))

Braced(Item(_), ts) ==
  Past("{", ts, LAMBDA in : Then(UpToBrace(Item, in), LAMBDA xs, r : Read(xs, Tail(r))))

\* In parentheses, possibly none
Arguments(Item(_), ts) ==
  Past("(", ts, LAMBDA in :
    IF Kind(in) = ")" THEN Read(<< >>, Tail(in))
    ELSE Then(Separated(Item, ",", in), LAMBDA xs, r : Past(")", r, LAMBDA q : Read(xs, q))))

-----------------------------------------------------------------------------
\* What follows a label in a clause: parse_clause and parse_constraint_target
Target(ts) ==
  LET op   == Kind(ts)
      rest == Tail(ts)
      Var(F(_)) == Then(Ident(Tail(rest)), LAMBDA x, r : Read(F(x), r))
  IN  CASE op \in {"=", "<", ">", "<=", ">="} /\ Kind(rest) = "?" ->
             Var(LAMBDA x : Compared(op, x))
        [] op = "=" /\ Kind(rest) # "?" ->
             Then(LiteralValue(rest), LAMBDA v, r : Read(ToLiteral(v), r))
        [] op \in {"<", ">", "<=", ">="} /\ Kind(rest) # "?" ->
             Then(ConstraintValue(rest), LAMBDA v, r : Read(Constrained(op, v), r))
        [] op = "->" /\ Kind(rest) = "?" -> Var(ToVar)
        [] op = "->" /\ Kind(rest) # "?" ->
             Then(Ident(rest), LAMBDA x, r : Read(ToLiteral([node |-> x]), r))
        [] op = "in" ->
             Past("[", rest, LAMBDA in :
               Then(Separated(ConstraintValue, ",", in), LAMBDA vs, r :
                 Past("]", r, LAMBDA q : Read(AnyOf(vs), q))))
        [] OTHER -> {}

\* parse_clause; a variable source is no keyword
ParseClause(ts) ==
  LET negated  == Kind(ts) = "!"
      bare     == IF negated THEN Tail(ts) ELSE ts
      variable == Kind(bare) = "?"
      named    == IF variable THEN Tail(bare) ELSE bare
  IN  IF variable /\ Kind(named) # "ident" THEN {}
      ELSE Then(Ident(named), LAMBDA x, r1 :
             Past(".", r1, LAMBDA r2 :
               Then(IdentOrString(r2), LAMBDA l, r3 :
                 Then(Target(r3), LAMBDA t, r :
                   Read(Written([EdgeTo(x, l, t) EXCEPT !.negated = negated], variable), r)))))

ParseStage(ts) ==
  Past("stage", ts, LAMBDA r1 :
    Then(Ident(r1), LAMBDA anchor, r2 :
      Then(Braced(ParseClause, r2), LAMBDA cs, r : Read(StageOf(anchor, cs), r))))

\* parse_negation, as what the builder is asked for
ParseNegation(ts) ==
  LET Block(global, from, to, r) ==
        Then(Braced(ParseClause, r), LAMBDA cs, q :
          Read([global |-> global, from |-> from, to |-> to, clauses |-> cs], q))
      Kinds(rest) ==
        CASE Kind(rest) = "between" ->
               Then(Ident(Tail(rest)), LAMBDA x, r :
                 Then(Ident(r), LAMBDA y, q : Block(FALSE, {x}, {y}, q)))
          [] Kind(rest) = "after" ->
               Then(Ident(Tail(rest)), LAMBDA x, r : Block(FALSE, {x}, {}, r))
          [] OTHER -> Block(TRUE, {}, {}, rest)
  IN  Past("unless", ts, Kinds)

\* parse_gap_range: a number alone is both bounds
GapRange(ts) ==
  LET Bound(rest, F(_)) == Then(Number(rest), LAMBDA n, r : Read(F({n}), r))
      Starts(rest)      == Kind(rest) \in {"number", "-"}
  IN  IF Kind(ts) = ".." THEN Bound(Tail(ts), LAMBDA n : [min |-> {}, max |-> n])
      ELSE Then(Number(ts), LAMBDA n, r :
             IF Kind(r) # ".." THEN Read([min |-> {n}, max |-> {n}], r)
             ELSE IF Starts(Tail(r)) THEN Bound(Tail(r), LAMBDA m : [min |-> {n}, max |-> m])
             ELSE Read([min |-> {n}, max |-> {}], Tail(r)))

ParseTemporal(ts) ==
  LET Of(x, rel, y, gap) == [left |-> x, relation |-> rel, right |-> y, gap |-> gap]
  IN  Past("temporal", ts, LAMBDA r1 :
        Then(Ident(r1), LAMBDA x, r2 : Then(Ident(r2), LAMBDA rel, r3 : Then(Ident(r3), LAMBDA y, r :
          IF Word(r) = "gap" THEN Then(GapRange(Tail(r)), LAMBDA g, q : Read(Of(x, rel, y, {g}), q))
          ELSE Read(Of(x, rel, y, {}), r)))))

ParseMeta(ts) ==
  Past("(", Tail(ts), LAMBDA r1 : Then(String(r1), LAMBDA key, r2 :
    Past(",", r2, LAMBDA r3 : Then(String(r3), LAMBDA value, r4 :
      Past(")", r4, LAMBDA r : Read(<<key, value>>, r))))))

\* parse_expr, parse_term and parse_factor: two levels of operators, each
\* associating to the left.  An expression is [var |-> x], [value |-> v] or
\* [op |-> o, left |-> l, right |-> r].
OperatorsAt == <<{"+", "-"}, {"*", "/"}>>

RECURSIVE ParseExpr(_, _), MoreOperands(_, _, _)
ParseExpr(level, ts) ==
  CASE level \in DOMAIN OperatorsAt ->
         Then(ParseExpr(level + 1, ts), LAMBDA left, r : MoreOperands(level, left, r))
    [] level \notin DOMAIN OperatorsAt /\ Kind(ts) = "(" ->
         Then(ParseExpr(1, Tail(ts)), LAMBDA e, r : Past(")", r, LAMBDA q : Read(e, q)))
    [] level \notin DOMAIN OperatorsAt /\ Kind(ts) = "?" ->
         Then(Ident(Tail(ts)), LAMBDA x, r : Read([var |-> x], r))
    [] OTHER -> Then(ConstraintValue(ts), LAMBDA v, r : Read([value |-> v], r))

MoreOperands(level, left, ts) ==
  IF Kind(ts) \notin OperatorsAt[level] THEN Read(left, ts)
  ELSE Then(ParseExpr(level + 1, Tail(ts)), LAMBDA right, r :
         MoreOperands(level, [op |-> Kind(ts), left |-> left, right |-> right], r))

ParseLet(ts) ==
  Past("let", ts, LAMBDA r1 : Then(Ident(r1), LAMBDA name, r2 : Past("=", r2, LAMBDA r3 :
    Then(ParseExpr(1, r3), LAMBDA e, r : Read([name |-> name, expr |-> e], r)))))

ParseInstantiate(ts) ==
  Past("instantiate", ts, LAMBDA r1 : Then(Ident(r1), LAMBDA name, r2 :
    Then(Arguments(String, r2), LAMBDA args, r : Read([template |-> name, args |-> args], r))))

-----------------------------------------------------------------------------
\* Fault: groups are numbered by the declarations before them
GroupByDeclaration(body, group) ==
  [i \in DOMAIN group |-> Len(body.stages) + Len(body.negations) + i]

GroupIndices(body, group) == [i \in DOMAIN group |-> Len(body.stages) + i]

\* parse_pattern_body: declarations go to lists of their own, in any order
RECURSIVE ParseBody(_, _)
ParseBody(body, ts) ==
  LET count == Len(body.stages)
      Add(field, Item(_)) ==
        Then(Item(ts), LAMBDA x, r : ParseBody([body EXCEPT ![field] = Append(@, x)], r))
  IN  CASE Kind(ts) \in {"}", "eof"}  -> Read(body, ts)
        [] Kind(ts) = "stage"         -> Add("stages", ParseStage)
        [] Kind(ts) = "unless"        -> Add("negations", ParseNegation)
        [] Kind(ts) = "temporal"      -> Add("temporals", ParseTemporal)
        [] Word(ts) = "meta"          -> Add("metadata", ParseMeta)
        [] Word(ts) = "deadline" ->
             Then(Number(Tail(ts)), LAMBDA n, r : ParseBody([body EXCEPT !.deadline = {n}], r))
        [] Kind(ts) = "instantiate" ->
             Then(ParseInstantiate(ts), LAMBDA x, r :
               ParseBody([body EXCEPT !.instances = Append(@, [at |-> count, call |-> x])], r))
        [] Kind(ts) = "concurrent" ->
             Then(Braced(ParseStage, Tail(ts)), LAMBDA group, r :
               ParseBody([body EXCEPT
                 !.stages = @ \o group,
                 !.groups = IF group = << >> THEN @ ELSE Append(@, GroupIndices(body, group))], r))
        [] Kind(ts) = "let" /\ count > 0 ->
             Then(ParseLet(ts), LAMBDA x, r :
               ParseBody([body EXCEPT !.stages[count] = LetBinding(@, x.name, x.expr)], r))
        [] OTHER -> {}

\* parse_pattern: the syntax tree of a pattern is its body and its header
ParsePattern(ts) ==
  LET Body(name, importance, r) ==
        Past("{", r, LAMBDA in : Then(ParseBody(EmptyBody, in), LAMBDA body, q1 :
          Past("}", q1, LAMBDA q : Read([ name |-> name, importance |-> importance, private |-> FALSE,
                                          advance_in_place |-> FALSE, body |-> body ], q))))
  IN  Past("pattern", ts, LAMBDA r1 : Then(Ident(r1), LAMBDA name, r2 :
        IF Kind(r2) # "importance" THEN Body(name, 1, r2)
        ELSE Then(Number(Tail(r2)), LAMBDA n, r : Body(name, n, r))))

\* The modifiers before pattern, each once, in any order
RECURSIVE ParseModified(_, _)
ParseModified(modifiers, ts) ==
  CASE Kind(ts) = "pattern" ->
         Then(ParsePattern(ts), LAMBDA p, r :
           Read([p EXCEPT !.private = "private" \in modifiers,
                          !.advance_in_place = "advance_in_place" \in modifiers], r))
    [] Word(ts) \in {"private", "advance_in_place"} \ modifiers ->
         ParseModified(modifiers \cup {Word(ts)}, Tail(ts))
    [] OTHER -> {}

-----------------------------------------------------------------------------
ParseTemplate(ts) ==
  Past("template", ts, LAMBDA r1 : Then(Ident(r1), LAMBDA name, r2 :
    Then(Arguments(Ident, r2), LAMBDA params, r3 : Then(Braced(ParseStage, r3), LAMBDA stages, r :
      IF stages = << >> THEN {}
      ELSE Read([name |-> name, params |-> params, stages |-> stages], r)))))

Sharing(ts) ==
  IF Kind(ts) # "sharing" THEN Read(<< >>, ts)
  ELSE Past("(", Tail(ts), LAMBDA in : Then(Separated(Ident, ",", in), LAMBDA xs, r :
         Past(")", r, LAMBDA q : Read(xs, q))))

\* A count is a number cast to an unsigned integer
AsCount(n) == Max({0, n})

\* The number of repetitions, as <<min, {max}>>, without a max when unbounded
Repetitions(ts) ==
  Then(Number(ts), LAMBDA n, r :
    LET min == AsCount(n)
    IN  IF Kind(r) # ".." THEN Read(<<min, {min}>>, r)
        ELSE IF Kind(Tail(r)) \in {"number", "-"}
        THEN Then(Number(Tail(r)), LAMBDA m, q : Read(<<min, {AsCount(m)}>>, q))
        ELSE Read(<<min, {}>>, Tail(r)))

\* parse_compose
ParseComposition(first, ts) ==
  LET Of(how, parts) == [how |-> how, parts |-> parts, shared |-> << >>]
      WithSharing(c, rest) ==
        Then(Sharing(rest), LAMBDA xs, q : Read([c EXCEPT !.shared = xs], q))
  IN  CASE Kind(ts) = ">>" ->
             Then(Ident(Tail(ts)), LAMBDA y, r : WithSharing(Of("sequence", <<first, y>>), r))
        [] Kind(ts) = "|" ->
             Then(Separated(Ident, "|", Tail(ts)), LAMBDA ys, r :
               IF Word(r) = "nonexclusive" THEN Read(Of("any", <<first>> \o ys), Tail(r))
               ELSE Read(Of("choice", <<first>> \o ys), r))
        [] Kind(ts) = "*" ->
             Then(Repetitions(Tail(ts)), LAMBDA reps, r :
               WithSharing([min |-> reps[1], max |-> reps[2]] @@ Of("repeat", <<first>>), r))
        [] OTHER -> {}

ParseCompose(ts) ==
  Past("compose", ts, LAMBDA r1 : Then(Ident(r1), LAMBDA name, r2 : Past("=", r2, LAMBDA r3 :
    Then(Ident(r3), LAMBDA first, r4 : Then(ParseComposition(first, r4), LAMBDA c, r :
      Read(("name" :> name) @@ c, r))))))

\* parse_graph_edge
ParseEdge(ts) ==
  LET At(rest) ==
        Then(Number(rest), LAMBDA s, r :
          IF Kind(r) # ".." THEN Read([start |-> s, end |-> {}], r)
          ELSE Then(Number(Tail(r)), LAMBDA e, q : Read([start |-> s, end |-> {e}], q)))
      To(rest) ==
        CASE Kind(rest) = "="  -> LiteralValue(Tail(rest))
          [] Kind(rest) = "->" -> Then(Ident(Tail(rest)), LAMBDA x, r : Read([node |-> x], r))
          [] OTHER             -> {}
  IN  Then(At(Tail(ts)), LAMBDA iv, r1 : Then(Ident(r1), LAMBDA x, r2 : Past(".", r2, LAMBDA r3 :
        Then(IdentOrString(r3), LAMBDA l, r4 : Then(To(r4), LAMBDA v, r :
          Read([source |-> x, label |-> l, target |-> v, interval |-> iv], r))))))

\* parse_graph, as its edges and its clock
RECURSIVE ParseGraphBody(_, _)
ParseGraphBody(g, ts) ==
  CASE Kind(ts) = "}" -> Read(g, Tail(ts))
    [] Kind(ts) = "now" ->
         Past("=", Tail(ts), LAMBDA r1 : Then(Number(r1), LAMBDA n, r :
           ParseGraphBody([g EXCEPT !.now = {n}], r)))
    [] Kind(ts) = "@" ->
         Then(ParseEdge(ts), LAMBDA e, r : ParseGraphBody([g EXCEPT !.edges = Append(@, e)], r))
    [] OTHER -> {}

ParseGraph(ts) ==
  Past("graph", ts, LAMBDA r : Past("{", r, LAMBDA in :
    ParseGraphBody([edges |-> << >>, now |-> {}], in)))

\* parse_document: the items in the order they were declared
RECURSIVE ParseItems(_, _)
ParseItems(items, ts) ==
  LET Add(kind, result) ==
        Then(result, LAMBDA x, r : ParseItems(Append(items, [item |-> kind, ast |-> x]), r))
  IN  CASE Kind(ts) = "eof"      -> Read(items, ts)
        [] Kind(ts) = "graph"    -> Add("graph", ParseGraph(ts))
        [] Kind(ts) = "compose"  -> Add("compose", ParseCompose(ts))
        [] Kind(ts) = "template" -> Add("template", ParseTemplate(ts))
        [] OTHER                 -> Add("pattern", ParseModified({}, ts))
=============================================================================
