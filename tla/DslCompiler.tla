---------------------------- MODULE DslCompiler -----------------------------
(***************************************************************************)
(* The compiler (crates/fabula-dsl/src/compiler.rs and parse_document of   *)
(* lib.rs): templates are expanded, scopes are checked, and the builder is *)
(* called.  What may fail is a set, empty on an error.  The mapper of      *)
(* labels and values is the default one, which never fails.                *)
(*                                                                         *)
(* With it what a compiled let computes: expr.rs, the default evaluator of *)
(* let_evaluator.rs and eval_stage_lets of free.rs.  An expression is      *)
(* [var |-> x], [value |-> v] or [op |-> o, left |-> l, right |-> r]; `b`  *)
(* binds variables to values, of which only a number can be reckoned with. *)
(***************************************************************************)
EXTENDS DslParser

-----------------------------------------------------------------------------
(* Let bindings                                                            *)

IsVar(e) == DOMAIN e = {"var"}
IsOp(e)  == "op" \in DOMAIN e

\* Expr::vars
RECURSIVE VarsOf(_)
VarsOf(e) ==
  CASE IsVar(e) -> {e.var}
    [] IsOp(e)  -> VarsOf(e.left) \cup VarsOf(e.right)
    [] OTHER    -> {}

IsNumber(v) == DOMAIN v = {"num"}

\* ArithmeticValue of MemValue: a set, empty when it fails.  Quotients are
\* rounded: the numbers are integers here.
Arithmetic(op, x, y) ==
  IF ~IsNumber(x) \/ ~IsNumber(y) \/ (op = "/" /\ y.num = 0) THEN {}
  ELSE {[num |-> CASE op = "+" -> x.num + y.num
                   [] op = "-" -> x.num - y.num
                   [] op = "*" -> x.num * y.num
                   [] op = "/" -> x.num \div y.num]}

\* Expr::eval: a variable bound to a node has no value
RECURSIVE Eval(_, _)
Eval(e, b) ==
  CASE IsVar(e) -> {b[x] : x \in {y \in {e.var} \cap DOMAIN b : DOMAIN b[y] # {"node"}}}
    [] IsOp(e)  -> UNION {Arithmetic(e.op, x, y) : x \in Eval(e.left, b), y \in Eval(e.right, b)}
    [] OTHER    -> {e.value}

\* eval_stage_lets: in the order they were given, each seeing those before;
\* one that fails, or whose name is taken, fails the stage
EvalStageLets(stage, b) ==
  FoldLeft(LAMBDA results, let :
             UNION {{(let.name :> v) @@ m : v \in Eval(let.expr, m)}
                    : m \in {r \in results : let.name \notin DOMAIN r}},
           {b}, stage.lets)

-----------------------------------------------------------------------------
(* Documents                                                               *)

\* The first value, as a set, that a sequence of pairs has for a key
Found(pairs, key) ==
  LET hits == {i \in DOMAIN pairs : pairs[i][1] = key}
  IN  {pairs[i][2] : i \in {j \in hits : \A k \in hits : j <= k}}

-----------------------------------------------------------------------------
(* Templates *)

\* substitute_in_clause: a word that is a parameter, wherever it may stand but
\* as a label
Substituted(clause, params, args) ==
  LET At(x)    == {i \in DOMAIN params : params[i] = x}
      Sub(x)   == IF At(x) = {} THEN x ELSE args[Max(At(x))]
      Value(v) == IF DOMAIN v = {"str"} THEN [str |-> Sub(v.str)] ELSE v
      t        == clause.target
  IN  [clause EXCEPT !.source = Sub(@),
         !.target =
           CASE t.kind \in {"bind", "compared"} -> [t EXCEPT !.var = Sub(@)]
             [] t.kind = "one_of" -> AnyOf([i \in DOMAIN t.values |-> Value(t.values[i])])
             [] t.kind = "literal" ->
                  ToLiteral(IF DOMAIN t.value = {"node"} THEN [node |-> Sub(t.value.node)]
                            ELSE Value(t.value))
             [] OTHER -> t]

\* Fault: every instance has the same anchors
UnnumberedPrefix(idx) == "inst__"

InstancePrefix(idx) == "inst" \o ToString(idx) \o "__"

\* expand_template: the anchors of an instance are its own
ExpandTemplate(template, args, idx) ==
  LET anchors    == {template.stages[i].anchor : i \in DOMAIN template.stages}
      Renamed(x) == IF x \in anchors THEN InstancePrefix(idx) \o x ELSE x
      Clauses(s) == [i \in DOMAIN s.clauses |->
                      Substituted([s.clauses[i] EXCEPT !.source = Renamed(@)], template.params, args)]
  IN  IF Len(args) # Len(template.params) THEN {}
      ELSE {[i \in DOMAIN template.stages |->
              [template.stages[i] EXCEPT !.anchor = Renamed(@), !.clauses = Clauses(template.stages[i])]]}

\* expand_pattern_instantiations: the stages of every instance among those
\* declared.  The groups keep the numbers the declared stages had.
ExpandInstances(body, templates) ==
  LET Expansion(i) == UNION {ExpandTemplate(t, body.instances[i].call.args, i - 1)
                             : t \in Found(templates, body.instances[i].call.template)}
      Stages(i)    == CHOOSE s \in Expansion(i) : TRUE
      Before(n)    == FlattenSeq([i \in DOMAIN body.instances |->
                        IF body.instances[i].at = n THEN Stages(i) ELSE << >>])
      Here(n)      == Before(n) \o (IF n = Len(body.stages) THEN << >> ELSE <<body.stages[n + 1]>>)
  IN  IF \E i \in DOMAIN body.instances : Expansion(i) = {} THEN {}
      ELSE {[body EXCEPT !.stages = FlattenSeq([n \in 1..(Len(@) + 1) |-> Here(n - 1)]),
                         !.instances = << >>]}

-----------------------------------------------------------------------------
(* Scopes *)

BindsOf(clauses) == {clauses[i].target.var : i \in {j \in DOMAIN clauses : clauses[j].target.kind = "bind"}}

LetNames(stage) == {stage.lets[i].name : i \in DOMAIN stage.lets}

\* Fault: a clause may read what a later one binds
OrderlessScope(clauses, k, scope) == scope \cup BindsOf(clauses)

ScopeAt(clauses, k, scope) == scope \cup BindsOf(SubSeq(clauses, 1, k - 1))

\* validate_clause_sources
ClausesScoped(clauses, scope) ==
  \A k \in DOMAIN clauses :
    LET c == clauses[k]
    IN  /\ c.variable => c.source \in ScopeAt(clauses, k, scope)
        /\ c.target.kind = "compared" => c.target.var \in ScopeAt(clauses, k, scope)
        /\ c.negated => c.target.kind \in {"literal", "one_of"}

BoundBefore(body, i) ==
  UNION {{body.stages[j].anchor} \cup BindsOf(body.stages[j].clauses) \cup LetNames(body.stages[j])
         : j \in 1..(i - 1)}

\* Fault: the members of every group bind for every stage
GroupBindsOfAll(body, i) ==
  UNION {UNION {{body.stages[j].anchor} \cup BindsOf(body.stages[j].clauses)
                : j \in ToSet(body.groups[g]) \cap DOMAIN body.stages}
         : g \in DOMAIN body.groups}

\* group_prebound: what the members of a stage's group bind, in any order
GroupBinds(body, i) ==
  UNION {UNION {{body.stages[j].anchor} \cup BindsOf(body.stages[j].clauses)
                : j \in ToSet(body.groups[g]) \cap DOMAIN body.stages}
         : g \in {h \in DOMAIN body.groups : i \in ToSet(body.groups[h])}}

LetsScoped(stage, bound) ==
  \A k \in DOMAIN stage.lets :
    LET seen == bound \cup {stage.lets[j].name : j \in 1..(k - 1)}
    IN  stage.lets[k].name \notin seen /\ VarsOf(stage.lets[k].expr) \subseteq seen

StageScoped(body, i) ==
  LET s     == body.stages[i]
      bound == BoundBefore(body, i)
  IN  /\ ClausesScoped(s.clauses, bound \cup {s.anchor} \cup GroupBinds(body, i))
      /\ s.anchor \notin BindsOf(s.clauses)
      /\ LetsScoped(s, bound \cup {s.anchor} \cup BindsOf(s.clauses))

NegationScoped(body, neg) ==
  LET Anchors(g) == {body.stages[j].anchor : j \in ToSet(body.groups[g]) \cap DOMAIN body.stages}
  IN  /\ ClausesScoped(neg.clauses, BoundBefore(body, Len(body.stages) + 1))
      /\ neg.to # {} => \A g \in DOMAIN body.groups : ~(neg.from \cup neg.to \subseteq Anchors(g))

-----------------------------------------------------------------------------
(* Patterns *)

\* parse_allen_relation
AllenRelation ==
  [ before |-> "Before", after |-> "After", meets |-> "Meets", met_by |-> "MetBy",
    overlaps |-> "Overlaps", overlapped_by |-> "OverlappedBy", during |-> "During",
    contains |-> "Contains", starts |-> "Starts", started_by |-> "StartedBy",
    finishes |-> "Finishes", finished_by |-> "FinishedBy", equals |-> "Equals" ]

\* add_clause_to_stage: how the source was written is forgotten
ForStage(c) == [EdgeTo(c.source, c.label, c.target) EXCEPT !.negated = c.negated]

\* add_clause_to_negation: a ! is dropped
ForNegation(c) == EdgeTo(c.source, c.label, c.target)

Each(F(_), s) == [i \in DOMAIN s |-> F(s[i])]

\* The calls compile_pattern_with makes of the builder
Built(ast) ==
  LET b0 == FoldLeft(LAMBDA b, s : AddStage(b, [s EXCEPT !.clauses = Each(ForStage, @)]),
                     NewPattern(ast.name), ast.body.stages)
      b1 == FoldLeft(LAMBDA b, n : AddNegation(b, n.global, n.from, n.to, Each(ForNegation, n.clauses)),
                     b0, ast.body.negations)
      b2 == FoldLeft(LAMBDA b, t : AddTemporal(b, t.left, AllenRelation[t.relation], t.right, t.gap),
                     b1, ast.body.temporals)
      b3 == FoldLeft(LAMBDA b, m : AddMetadata(b, m[1], m[2]), b2, ast.body.metadata)
      b4 == FoldLeft(Deadline, b3, SetToSeq(ast.body.deadline))
  IN  [Build(Importance(b4, ast.importance)) EXCEPT
         !.groups = ast.body.groups, !.private = ast.private, !.advance_in_place = ast.advance_in_place]

\* compile_pattern_with
CompileExpanded(ast) ==
  LET body == ast.body
  IN  IF /\ \A i \in DOMAIN body.stages : StageScoped(body, i)
         /\ \A i \in DOMAIN body.negations : NegationScoped(body, body.negations[i])
         /\ \A i \in DOMAIN body.temporals : body.temporals[i].relation \in DOMAIN AllenRelation
         /\ \A ticks \in body.deadline : ticks >= 1
      THEN {Built(ast)} ELSE {}

\* compile_pattern_with_templates
CompilePattern(ast, templates) ==
  UNION {CompileExpanded([ast EXCEPT !.body = body]) : body \in ExpandInstances(ast.body, templates)}

\* compile_compose_with, as the composition asked for; Composition.tla has
\* what it makes of its parts.  A choice keeps its parts under other names.
CompileCompose(ast, named) ==
  LET parts == Each(LAMBDA x : Found(named, x), ast.parts)
      Part(i) == CHOOSE p \in parts[i] : TRUE
      Made(how) == [name |-> ast.name, how |-> how, parts |-> [i \in DOMAIN parts |-> Part(i)], shared |-> ast.shared]
      exact == ast.max = {ast.min}
  IN  CASE \E i \in DOMAIN parts : parts[i] = {} -> {}
        [] \A i \in DOMAIN parts : parts[i] # {} ->
             CASE ast.how = "sequence" -> {<<Made("sequence")>>}
               [] ast.how \in {"choice", "any"} ->
                    {[i \in DOMAIN parts |->
                       [Made(ast.how) EXCEPT !.name = ast.name \o "_" \o Part(i).name, !.parts = <<Part(i)>>]]}
               [] ast.how = "repeat" ->
                    IF ast.min < 1 \/ \E m \in ast.max : m < ast.min THEN {}
                    ELSE {<<[reps |-> <<ast.min, ast.max>>]
                            @@ Made(IF exact THEN "repeat" ELSE "repeat_range")>>}

\* compile_graph
CompileGraph(ast) == [edges |-> ast.edges, now |-> IF ast.now = {} THEN 0 ELSE Max(ast.now)]

-----------------------------------------------------------------------------
(* Documents *)

\* Fault: templates may be used before they are declared
AllTemplates(done, items) ==
  Each(LAMBDA i : <<i.ast.name, i.ast>>, SelectSeq(items, LAMBDA i : i.item = "template"))

TemplatesFor(done, items) == done.templates

\* An item of parse_document_with: of a name given twice the last is known,
\* and a choice of several lends its first its own name unless it is taken
ReadItem(done, item, items) ==
  LET ast == item.ast
      Know(d, ps) == [d EXCEPT !.patterns = @ \o ps,
                               !.named = Reverse(Each(LAMBDA p : <<p.name, p>>, ps)) \o @]
      Lend(d, ps) == IF Len(ps) > 1 /\ Found(d.named, ast.name) = {}
                     THEN [d EXCEPT !.named = <<<<ast.name, ps[1]>>>> \o @] ELSE d
  IN  CASE item.item = "template" -> {[done EXCEPT !.templates = Append(@, <<ast.name, ast>>)]}
        [] item.item = "graph"    -> {[done EXCEPT !.graphs = Append(@, CompileGraph(ast))]}
        [] item.item = "pattern"  -> {Know(done, <<p>>) : p \in CompilePattern(ast, TemplatesFor(done, items))}
        [] item.item = "compose"  -> {Lend(Know(done, ps), ps) : ps \in CompileCompose(ast, done.named)}

\* parse_document_with: the patterns and the graphs of a text
ReadDocument(text) ==
  LET Nothing  == [patterns |-> << >>, graphs |-> << >>, named |-> << >>, templates |-> << >>]
      Of(items) == FoldLeft(LAMBDA results, item : UNION {ReadItem(d, item, items) : d \in results},
                            {Nothing}, items)
  IN  {[patterns |-> d.patterns, graphs |-> d.graphs]
       : d \in UNION {Of(r[1]) : r \in ParseItems(<< >>, Tokenize(text))}}
=============================================================================
