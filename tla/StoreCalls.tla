----------------------------- MODULE StoreCalls ------------------------------
(***************************************************************************)
(* A caller of the graph stores: events and their causes are added in any  *)
(* order of their times; states of things are kept with upsert_edge and    *)
(* end_edge at the caller's clock.  Causes are asked for at any moment.    *)
(***************************************************************************)
EXTENDS Causality

CONSTANTS Links,        \* edges the caller may add
          States,       \* <<node, label>> of the things kept up to date
          StateValues,  \* what they may be
          Weights,      \* causal labels and their weights
          MaxHops, MaxEdges, MaxTime

ASSUME CallsAssumption ==
  /\ MaxTime \in Nat /\ MaxHops \in Nat
  /\ IsFiniteSet(DOMAIN Weights) /\ \A l \in DOMAIN Weights : Weights[l] \in Nat
  /\ \A v \in StateValues : v \in {Ref(v.of), Str(v.of)}
  /\ \A e \in Links :
       /\ e = [source |-> e.source, label |-> e.label, target |-> e.target, interval |-> e.interval]
       /\ e.target \in {Ref(e.target.of), Str(e.target.of)}
       /\ e.interval = [start |-> e.interval.start, end |-> e.interval.end]
       /\ e.interval.start \in Int
       /\ \A s \in States : s[2] # e.label

AddLink == \E e \in Links : Len(edges) < MaxEdges /\ AddEdge(e)

KeepState ==
  \E s \in States, v \in StateValues :
    /\ Len(edges) < MaxEdges
    /\ UpsertEdge([source |-> s[1], label |-> s[2], target |-> v, interval |-> Open(current_time)])

EndState == \E s \in States : EndEdge(s[1], s[2], current_time)

ClockMoves == \E t \in (current_time + 1)..MaxTime : SetTime(t)

CallsNext == AddLink \/ KeepState \/ EndState \/ ClockMoves

CallsSpec == StoresInit /\ [][CallsNext]_storeVars

-----------------------------------------------------------------------------
Asked      == {e.source : e \in Links} \cup UNION {ValueAsNode(e.target) : e \in Links}
LinkLabels == {e.label : e \in Links}
Targets    == {e.target : e \in Links}

\* The three adapters answer every query with the same edges, as often each,
\* though not in the same order.
AdaptersAgree ==
  \A label \in LinkLabels, at \in 0..MaxTime :
    /\ \A n \in Asked :
         LET mine == Tally(MemEdges, FromAt(MemEdges, n, label, at))
         IN  /\ mine = Tally(PetEdges, FromAt(PetEdges, n, label, at))
             /\ mine = Tally(DbEdges, FromAt(DbEdges, n, label, at))
    /\ \A v \in Targets :
         LET mine == Tally(MemEdges, ScanAt(MemEdges, label, {v}, at))
         IN  /\ mine = Tally(PetEdges, ScanAt(PetEdges, label, {v}, at))
             /\ mine = Tally(DbEdges, ScanAt(DbEdges, label, {v}, at))

\* A state kept with upsert_edge and end_edge, at instants that never go back,
\* has at most one value at every instant, at most one edge is open, and that
\* is the one told last.
StateHasOneValue ==
  \A s \in States :
    /\ Cardinality(OpenEdges(edges, s[1], s[2])) <= 1
    /\ \A i \in OpenEdges(edges, s[1], s[2]) : \A j \in (i + 1)..Len(edges) :
         edges[j].source # s[1] \/ edges[j].label # s[2]
    /\ \A t \in 0..MaxTime : Cardinality(FromAt(edges, s[1], s[2], t)) <= 1

PathsTo(n) == CausalPaths(edges, n, MaxHops, Weights)

Causal(i) == edges[i].label \in DOMAIN Weights /\ ValueAsNode(edges[i].target) # {}

Heads(c) == {edges[c[k]].source : k \in DOMAIN c}

\* Edges that lead from node to node, to n in the end, each later than the one
\* before, and meet no node twice
IsChain(n, c) ==
  /\ \A k \in 1..(Len(c) - 1) : /\ StartOf(edges, c[k]) < StartOf(edges, c[k + 1])
                                /\ edges[c[k]].target = Ref(edges[c[k + 1]].source)
  /\ edges[Last(c)].target = Ref(n)
  /\ n \notin Heads(c) /\ Cardinality(Heads(c)) = Len(c)

Chains(n) ==
  {c \in UNION {[1..h -> {i \in DOMAIN edges : Causal(i)}] : h \in 1..MaxHops} : IsChain(n, c)}

\* What a causal path is: causal edges of different starts that, in the order
\* of their starts, lead from node to node, to the effect in the end, and meet
\* no node twice.  causal_paths finds exactly those, whatever the order in
\* which the edges were added.
PathsAreChains ==
  \A n \in Asked : {Reverse(p.edges) : p \in PathsTo(n)} = Chains(n)

\* Short paths outrank long ones when the weights are equal: of every path the
\* last step alone is at least as clean, so a path of one edge is among the
\* cleanest, which decide how surprising an event is.
ShortPathsOutrank ==
  Cardinality({Weights[l] : l \in DOMAIN Weights}) = 1 =>
    \A n \in Asked :
      /\ \A p \in PathsTo(n) :
           \E q \in PathsTo(n) :
             /\ Len(q.edges) = 1 /\ q.edges[1] = p.edges[1]
             /\ AtLeastAsClean(Finalized(edges, q, Weights), Finalized(edges, p, Weights))
      /\ PathsTo(n) # {} => \E q \in Cleanest(edges, n, MaxHops, Weights) : Len(q.nodes) = 2
=============================================================================
