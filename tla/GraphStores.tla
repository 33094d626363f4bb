---------------------------- MODULE GraphStores -----------------------------
(***************************************************************************)
(* The three stores behind DataSource, told of the same edges: MemGraph    *)
(* (crates/fabula-memory), a vector; PetTemporalGraph (fabula-petgraph),   *)
(* adjacency lists; GrafeoGraph (fabula-grafeo), a property graph whose    *)
(* edges are records of properties.                                        *)
(*                                                                         *)
(* A value is a tagged record: a reference to a node, or a literal.        *)
(***************************************************************************)
EXTENDS TemporalGraph, SequencesExt, FiniteSetsExt

VARIABLES edges,        \* MemGraph: edges, in order of insertion
          node_index,   \* PetTemporalGraph: the nodes in order of their indices
          adjacent,     \* ... and of each node its edges, newest first
          node_map,     \* GrafeoGraph: the nodes with an id
          relations,    \* ... and its edges, [from, type, properties]
          current_time  \* of all three

storeVars == <<edges, node_index, adjacent, node_map, relations, current_time>>

Ref(n) == [kind |-> "node", of |-> n]
Str(s) == [kind |-> "str", of |-> s]

\* value_as_node, the same in the three
ValueAsNode(v) == {v.of : x \in {k \in {"node"} : v.kind = k}}

StoresInit ==
  /\ edges = << >> /\ current_time = 0
  /\ node_index = << >> /\ adjacent = << >>
  /\ node_map = {} /\ relations = << >>

\* add_node of PetTemporalGraph
IndexAfter(index, n) == IF Contains(index, n) THEN index ELSE Append(index, n)

\* add_edge of PetTemporalGraph, add_edge_to_node when the value is a node,
\* which is known before the source then
IndexAfterEdge(e) ==
  IndexAfter(IF ValueAsNode(e.target) = {} THEN node_index ELSE IndexAfter(node_index, e.target.of),
             e.source)

\* An edge is put in front of its source's list, as a loop
AdjacentAfter(index, e) ==
  LET Of(n) == IF n \in DOMAIN adjacent THEN adjacent[n] ELSE << >>
  IN  [n \in ToSet(index) |->
        IF n = e.source
        THEN <<[label |-> e.label, value |-> e.target, interval |-> e.interval]>> \o Of(n)
        ELSE Of(n)]

\* Fault: a value keeps no trace of having been a node
PlainProperties(e) ==
  [ value |-> e.target.of, valid_from |-> e.interval.start, valid_to |-> e.interval.end,
    is_node_ref |-> FALSE ]

\* to_grafeo: a node's id and a string become the same text
Properties(e) ==
  [ value |-> e.target.of, valid_from |-> e.interval.start, valid_to |-> e.interval.end,
    is_node_ref |-> e.target.kind = "node" ]

\* edge_interval and edge_value
IntervalOf(p) == [start |-> p.valid_from, end |-> p.valid_to]
ValueOf(p)    == IF p.is_node_ref THEN Ref(p.value) ELSE Str(p.value)

\* Insertion into the two adapters that cannot close an edge
InsertElsewhere(e) ==
  /\ node_index' = IndexAfterEdge(e)
  /\ adjacent'   = AdjacentAfter(IndexAfterEdge(e), e)
  /\ node_map'   = node_map \cup {e.source} \cup ValueAsNode(e.target)
  /\ relations'  = Append(relations, [from |-> e.source, type |-> e.label,
                                      properties |-> Properties(e)])

\* add_edge, add_edge_bounded; add_ref, add_str and add_num are cases of it
AddEdge(e) == edges' = Append(edges, e) /\ InsertElsewhere(e) /\ UNCHANGED current_time

\* set_time
SetTime(t) == current_time' = t /\ UNCHANGED <<edges, node_index, adjacent, node_map, relations>>

OpenEdges(g, n, label) ==
  {i \in DOMAIN g : g[i].source = n /\ g[i].label = label /\ ~IsBounded(g[i].interval)}

\* end_edge: the latest open edge ends at `at`, be it before its start
Ended(g, n, label, at) ==
  LET open == OpenEdges(g, n, label)
  IN  IF open = {} THEN g ELSE [g EXCEPT ![Max(open)].interval.end = {at}]

EndEdge(n, label, at) ==
  /\ edges' = Ended(edges, n, label, at)
  /\ UNCHANGED <<node_index, adjacent, node_map, relations, current_time>>

\* Fault: the old edge is taken to end with the instant after the new one's start
EndOneLate(g, e) == Append(Ended(g, e.source, e.label, e.interval.start + 1), e)

\* upsert_edge
Upserted(g, e) == Append(Ended(g, e.source, e.label, e.interval.start), e)

UpsertEdge(e) ==
  /\ edges' = Upserted(edges, e)
  /\ UNCHANGED <<node_index, adjacent, node_map, relations, current_time>>

\* The edges each store holds, as a function of the places where it keeps them,
\* each of which a query comes past once
MemEdges == edges
PetEdges ==
  LET places == UNION {{<<i, k>> : k \in DOMAIN adjacent[node_index[i]]} : i \in DOMAIN node_index}
      Weight(p) == adjacent[node_index[p[1]]][p[2]]
  IN  [p \in places |->
        [ source |-> node_index[p[1]], label |-> Weight(p).label,
          target |-> Weight(p).value, interval |-> Weight(p).interval ]]
DbEdges  ==
  [i \in {k \in DOMAIN relations : relations[k].from \in node_map} |->
    [ source |-> relations[i].from, label |-> relations[i].type,
      target |-> ValueOf(relations[i].properties), interval |-> IntervalOf(relations[i].properties) ]]

\* edges_from and edges_from_any_time over a store's edges, as places
From(g, n, label)       == {i \in DOMAIN g : g[i].source = n /\ g[i].label = label}
FromAt(g, n, label, at) == {i \in From(g, n, label) : Covers(g[i].interval, at)}

\* scan and scan_any_time, for a constraint given by the values it accepts
ScanIn(g, label, accepted)     == {i \in DOMAIN g : g[i].label = label /\ g[i].target \in accepted}
ScanAt(g, label, accepted, at) == {i \in ScanIn(g, label, accepted) : Covers(g[i].interval, at)}

\* What is found at the places S, as often each
Tally(g, S) == [e \in {g[i] : i \in S} |-> Cardinality({i \in S : g[i] = e})]

\* DataSource::predecessors, as the default method answers it
Predecessors(g, n, label) ==
  {i \in DOMAIN g : g[i].label = label /\ n \in ValueAsNode(g[i].target)}
=============================================================================
