--------------------------- MODULE TemporalGraph ----------------------------
(***************************************************************************)
(* The store the engine queries: the DataSource trait                      *)
(* (crates/fabula/src/datasource.rs) as the in-memory adapter answers it   *)
(* (crates/fabula-memory/src/lib.rs).                                      *)
(*                                                                         *)
(* A graph is the sequence of its edges in insertion order; an edge is a   *)
(* record [source, label, target, interval].  Order matters in one place   *)
(* only: a query's answers come in insertion order and the matcher binds   *)
(* from the first.  A value is a node exactly when it is in Nodes          *)
(* (DataSource::value_as_node); every other value is a literal.            *)
(***************************************************************************)
EXTENDS Intervals

CONSTANT Nodes   \* the graph's node identifiers

\* DataSource::edges_from, as the positions of the edges it answers
EdgesFrom(g, node, label, at) ==
  {i \in DOMAIN g : g[i].source = node /\ g[i].label = label /\ Covers(g[i].interval, at)}

\* The edge an answer begins with
FirstOf(g, hits) == g[CHOOSE i \in hits : \A j \in hits : i <= j]

\* DataSource::scan, the edges in no particular order
Scan(g, label, at) ==
  {e \in {g[i] : i \in DOMAIN g} : e.label = label /\ Covers(e.interval, at)}

\* DataSource::scan_any_time
ScanAnyTime(g, label) == {e \in {g[i] : i \in DOMAIN g} : e.label = label}

(***************************************************************************)
(* What a clause accepts as target (pattern::Target and ValueConstraint).  *)
(*   [kind |-> "bind", var |-> x]             bind x, or join with it      *)
(*   [kind |-> "in", vals |-> S]              a literal or a constraint on *)
(*                                            the value alone: its members *)
(*   [kind |-> "var", var |-> x, rel |-> R]   EqVar, LtVar, ...: the pairs *)
(*                                            <<bound value, value>>       *)
(* `b` is the binding map, a function from variables to values.            *)
(***************************************************************************)
Bind(x)         == [kind |-> "bind", var |-> x]
OneOf(S)        == [kind |-> "in", vals |-> S]
Literal(v)      == OneOf({v})

BoundToNode(b, x) == x \in DOMAIN b /\ b[x] \in Nodes

\* resolve_target: a variable constraint needs its variable bound to a literal
Resolvable(target, b) ==
  target.kind = "var" => target.var \in DOMAIN b /\ b[target.var] \notin Nodes

\* resolve_constraint and ValueConstraint::matches, for a resolvable target
ConstraintAccepts(target, value, b) ==
  CASE target.kind = "in"  -> value \in target.vals
    [] target.kind = "var" -> <<b[target.var], value>> \in target.rel
    [] OTHER               -> TRUE

\* Fault: the join with a bound variable is forgotten
TargetUnjoined(target, value, b) ==
  Resolvable(target, b) /\ ConstraintAccepts(target, value, b)

\* target_matches_ds: a bound variable must be bound to this very value
TargetAccepts(target, value, b) ==
  /\ Resolvable(target, b)
  /\ ConstraintAccepts(target, value, b)
  /\ target.kind = "bind" /\ target.var \in DOMAIN b => b[target.var] = value
=============================================================================
