------------------------------ MODULE Causality ------------------------------
(***************************************************************************)
(* The causes of an event, traced backward along causal edges              *)
(* (crates/fabula/src/causality.rs).                                       *)
(*                                                                         *)
(* A path is [nodes, edges, branches], from the effect back; its edges are *)
(* the positions of edges in the graph.  `weights` maps the causal labels  *)
(* to their weights.  Cleanliness multiplies a mean, an exponential and a  *)
(* reciprocal; what they are computed from is modelled.                    *)
(***************************************************************************)
EXTENDS GraphStores

\* causal_predecessors
CausalPredecessors(g, n, weights) == UNION {Predecessors(g, n, l) : l \in DOMAIN weights}

StartOf(g, i) == g[i].interval.start

\* Fault: a cause may be as late as its effect
NotLater(g, path, i) ==
  path.edges = << >> \/ StartOf(g, i) <= StartOf(g, Last(path.edges))

\* A cause is earlier than what it caused
Earlier(g, path, i) ==
  path.edges = << >> \/ StartOf(g, i) < StartOf(g, Last(path.edges))

\* Fault: the branches passed before are forgotten
ForgetfulExtensions(g, path, weights) ==
  LET preds == CausalPredecessors(g, Last(path.nodes), weights)
  IN  {[ nodes |-> Append(path.nodes, g[i].source), edges |-> Append(path.edges, i),
         branches |-> Cardinality(preds) - 1 ]
       : i \in {k \in preds : ~Contains(path.nodes, g[k].source) /\ Earlier(g, path, k)}}

\* One hop further back, by every predecessor the path has not been at; each
\* predecessor but the one followed is a branch
Extensions(g, path, weights) ==
  LET preds == CausalPredecessors(g, Last(path.nodes), weights)
  IN  {[ nodes |-> Append(path.nodes, g[i].source), edges |-> Append(path.edges, i),
         branches |-> path.branches + Cardinality(preds) - 1 ]
       : i \in {k \in preds : ~Contains(path.nodes, g[k].source) /\ Earlier(g, path, k)}}

\* causal_paths, before sorting: the worklist, hop by hop; every path of at
\* least one edge is kept, whether it was extended or not
CausalPaths(g, effect, max_hops, weights) ==
  LET hop[h \in 0..max_hops] ==
        IF h = 0 THEN {[nodes |-> <<effect>>, edges |-> << >>, branches |-> 0]}
        ELSE UNION {Extensions(g, p, weights) : p \in hop[h - 1]}
  IN  UNION {hop[h] : h \in 1..max_hops}

\* finalize_path, root cause first: the distances between neighbours add up,
\* and a chain is as strong as its weakest edge
Finalized(g, path, weights) ==
  LET chain == Reverse(path.edges)
      weight == [k \in DOMAIN chain |-> weights[g[chain[k]].label]]
  IN  [ nodes |-> Reverse(path.nodes),
        weight |-> <<FoldLeft(LAMBDA x, y : x + y, 0, weight), Len(chain)>>,
        total_gap |-> FoldLeft(LAMBDA x, y : x + y, 0,
                        [k \in 1..(Len(chain) - 1) |->
                          LET d == StartOf(g, chain[k + 1]) - StartOf(g, chain[k])
                          IN  IF d < 0 THEN -d ELSE d]),
        divergent_branches |-> path.branches,
        confidence |-> Min(ToSet(weight)) ]

\* cleanliness_score: what makes one path at least as clean as another
AtLeastAsClean(p, q) ==
  /\ p.weight[1] * q.weight[2] >= q.weight[1] * p.weight[2]
  /\ p.total_gap <= q.total_gap /\ p.divergent_branches <= q.divergent_branches

\* event_causal_surprise: the paths among which the cleanest is; none, and the
\* event is as surprising as can be
Cleanest(g, effect, max_hops, weights) ==
  LET paths == {Finalized(g, p, weights) : p \in CausalPaths(g, effect, max_hops, weights)}
  IN  {p \in paths : \A q \in paths : AtLeastAsClean(q, p) => AtLeastAsClean(p, q)}
=============================================================================
