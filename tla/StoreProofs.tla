---------------------------- MODULE StoreProofs -----------------------------
(***************************************************************************)
(* What callers of the graph stores may rely on, for every set of edges,   *)
(* of states and of instants.                                              *)
(*                                                                         *)
(* The first part is about upsert_edge and end_edge, at a clock that never *)
(* goes back: of the edges of one state only the last can be open, and     *)
(* every other ended no later than its successor began.                    *)
(*                                                                         *)
(* The second part is about the three adapters: their indices never drift  *)
(* apart, whatever was added, upserted and ended.                          *)
(*                                                                         *)
(* The third part is about causal_paths: hop by hop, it finds exactly the  *)
(* chains of causal edges there are, and short ones outrank long ones.     *)
(***************************************************************************)
EXTENDS StoreCalls, FiniteSetTheorems, TLAPS

\* The edge of a state
OfState(e, s) == e.source = s[1] /\ e.label = s[2]

\* What the edges of states can be
KeptEdges ==
  [ source : {s[1] : s \in States}, label : {s[2] : s \in States}, target : StateValues,
    interval : [start : Nat, end : SUBSET Nat] ]

\* Two edges of a state, in the order they were told
Succeeds(a, b) == IsBounded(a.interval) /\ \A x \in a.interval.end : x <= b.interval.start

\* At the instant t: nothing of a state begins or ends later than t
Begun(e, t) == e.interval.start <= t /\ \A x \in e.interval.end : x <= t

Kept(g, t) ==
  /\ g \in Seq(Links \cup KeptEdges)
  /\ \A s \in States : \A i \in DOMAIN g : OfState(g[i], s) =>
       /\ Begun(g[i], t)
       /\ \A j \in DOMAIN g : i < j /\ OfState(g[j], s) => Succeeds(g[i], g[j])

\* The inductive invariant of states
StatesInv == current_time \in Nat /\ Kept(edges, current_time)

\* An edge of a state is not a link
LEMMA StatesAreKept ==
  ASSUME NEW s \in States, NEW e \in Links \cup KeptEdges, OfState(e, s)
  PROVE  e \in KeptEdges
BY CallsAssumption DEF OfState

\* An edge of a state, its end moved, is one
LEMMA EndMoved ==
  ASSUME NEW e \in KeptEdges, NEW x \in SUBSET Nat
  PROVE  /\ [e EXCEPT !.interval.end = x] \in KeptEdges
         /\ [e EXCEPT !.interval.end = x].source = e.source
         /\ [e EXCEPT !.interval.end = x].label = e.label
         /\ [e EXCEPT !.interval.end = x].interval.start = e.interval.start
         /\ [e EXCEPT !.interval.end = x].interval.end = x
BY DEF KeptEdges

\* A state's edges are numbers of instants
LEMMA KeptInstants ==
  ASSUME NEW e \in KeptEdges
  PROVE  e.interval.start \in Nat /\ e.interval.end \in SUBSET Nat
BY DEF KeptEdges

\* One thing at most
LEMMA OneAtMost ==
  ASSUME NEW S, \A x, y \in S : x = y
  PROVE  Cardinality(S) <= 1
<1>1. CASE S = {}
  BY <1>1, FS_EmptySet
<1>2. CASE S # {}
  <2>1. PICK x \in S : TRUE
    BY <1>2
  <2>2. S = {x}
    BY <2>1
  <2>3. Cardinality({x}) = 1
    BY FS_Singleton
  <2> QED BY <2>2, <2>3
<1> QED BY <1>1, <1>2

\* Of the edges of a state at most one is open
LEMMA OneOpen ==
  ASSUME NEW g, NEW t, Kept(g, t), NEW s \in States, NEW i \in OpenEdges(g, s[1], s[2])
  PROVE  /\ OpenEdges(g, s[1], s[2]) = {i} /\ Max(OpenEdges(g, s[1], s[2])) = i
         /\ i \in DOMAIN g /\ OfState(g[i], s)
         /\ \A j \in DOMAIN g : i < j => ~OfState(g[j], s)
<1>1. i \in DOMAIN g /\ OfState(g[i], s) /\ ~IsBounded(g[i].interval)
  BY DEF OpenEdges, OfState
<1>2. g \in Seq(Links \cup KeptEdges)
  BY DEF Kept
<1>3. \A j \in OpenEdges(g, s[1], s[2]) : j = i
  <2> SUFFICES ASSUME NEW j \in OpenEdges(g, s[1], s[2]), j # i
               PROVE  FALSE
    OBVIOUS
  <2>1. j \in DOMAIN g /\ OfState(g[j], s) /\ ~IsBounded(g[j].interval)
    BY DEF OpenEdges, OfState
  <2>2. i \in Nat /\ j \in Nat
    BY <1>1, <1>2, <2>1
  <2>3. CASE i < j
    BY <1>1, <2>1, <2>3 DEF Kept, Succeeds
  <2>4. CASE j < i
    BY <1>1, <2>1, <2>4 DEF Kept, Succeeds
  <2> QED BY <2>2, <2>3, <2>4
<1>4. OpenEdges(g, s[1], s[2]) = {i}
  BY <1>3
<1>5. i \in Nat
  BY <1>1, <1>2
<1>6. Max({i}) = i
  BY <1>5 DEF Max
<1>7. \A j \in DOMAIN g : i < j => ~OfState(g[j], s)
  BY <1>1 DEF Kept, Succeeds
<1> QED BY <1>1, <1>4, <1>6, <1>7

\* end_edge at the clock's instant keeps the order, and leaves nothing open
LEMMA EndingKeeps ==
  ASSUME NEW t \in Nat, NEW g, Kept(g, t), NEW s \in States
  PROVE  /\ Kept(Ended(g, s[1], s[2], t), t)
         /\ DOMAIN Ended(g, s[1], s[2], t) = DOMAIN g
         /\ \A i \in DOMAIN g :
              LET e == Ended(g, s[1], s[2], t)[i]
              IN  /\ OfState(e, s) => IsBounded(e.interval)
                  /\ e = g[i] \/ (g[i].label = s[2] /\ e.label = s[2])
<1>1. g \in Seq(Links \cup KeptEdges)
  BY DEF Kept
<1>2. CASE OpenEdges(g, s[1], s[2]) = {}
  <2>1. Ended(g, s[1], s[2], t) = g
    BY <1>2 DEF Ended
  <2>2. \A i \in DOMAIN g : OfState(g[i], s) => IsBounded(g[i].interval)
    BY <1>2 DEF OpenEdges, OfState
  <2> QED BY <2>1, <2>2
<1>3. CASE OpenEdges(g, s[1], s[2]) # {}
  <2>1. PICK m \in OpenEdges(g, s[1], s[2]) : TRUE
    BY <1>3
  <2>2. /\ OpenEdges(g, s[1], s[2]) = {m} /\ Max(OpenEdges(g, s[1], s[2])) = m
        /\ m \in DOMAIN g /\ OfState(g[m], s)
        /\ \A j \in DOMAIN g : m < j => ~OfState(g[j], s)
    BY OneOpen
  <2>3. PICK h : h = Ended(g, s[1], s[2], t)
    OBVIOUS
  <2>4. h = [g EXCEPT ![m].interval.end = {t}]
    BY <1>3, <2>2, <2>3 DEF Ended
  <2>5. g[m] \in KeptEdges
    BY <1>1, <2>2, StatesAreKept
  <2>6. /\ h[m] = [g[m] EXCEPT !.interval.end = {t}]
        /\ \A i \in DOMAIN g : i # m => h[i] = g[i]
        /\ DOMAIN h = DOMAIN g
    BY <1>1, <2>2, <2>4
  <2>7. /\ h[m] \in KeptEdges /\ h[m].source = g[m].source /\ h[m].label = g[m].label
        /\ h[m].interval.start = g[m].interval.start /\ h[m].interval.end = {t}
    <3>1. {t} \in SUBSET Nat
      OBVIOUS
    <3>2. PICK e : e = g[m]
      OBVIOUS
    <3>3. e \in KeptEdges
      BY <2>5, <3>2
    <3>4. PICK x : x = {t}
      OBVIOUS
    <3>5. /\ [e EXCEPT !.interval.end = x] \in KeptEdges
          /\ [e EXCEPT !.interval.end = x].source = e.source
          /\ [e EXCEPT !.interval.end = x].label = e.label
          /\ [e EXCEPT !.interval.end = x].interval.start = e.interval.start
          /\ [e EXCEPT !.interval.end = x].interval.end = x
      BY <3>1, <3>3, <3>4, EndMoved
    <3>6. h[m] = [e EXCEPT !.interval.end = x]
      BY <2>6, <3>2, <3>4, Zenon
    <3> QED BY <3>2, <3>4, <3>5, <3>6, Zenon
  <2>8. h \in Seq(Links \cup KeptEdges)
    <3>1. PICK S : S = Links \cup KeptEdges
      OBVIOUS
    <3>2. g \in Seq(S) /\ h[m] \in S /\ m \in DOMAIN g
      BY <1>1, <2>2, <2>7, <3>1
    <3>3. PICK e : h = [g EXCEPT ![m] = e]
      BY <2>4, Zenon
    <3>4. e \in S
      BY <2>6, <3>2, <3>3
    <3>5. [g EXCEPT ![m] = e] \in Seq(S)
      BY ONLY <3>2, <3>4
    <3> QED BY <3>1, <3>3, <3>5
  <2>9. \A i \in DOMAIN g : OfState(h[i], s) => IsBounded(h[i].interval)
    <3> SUFFICES ASSUME NEW i \in DOMAIN g, OfState(h[i], s)
                 PROVE  IsBounded(h[i].interval)
      OBVIOUS
    <3>1. CASE i = m
      BY <3>1, <2>7 DEF IsBounded
    <3>2. CASE i # m
      BY <3>2, <2>2, <2>6 DEF OpenEdges, OfState
    <3> QED BY <3>1, <3>2
  <2>10. ASSUME NEW r \in States, NEW i \in DOMAIN h, OfState(h[i], r)
         PROVE  /\ Begun(h[i], t)
                /\ \A j \in DOMAIN h : i < j /\ OfState(h[j], r) => Succeeds(h[i], h[j])
    <3>1. OfState(g[i], r) /\ i \in DOMAIN g /\ h[i].interval.start = g[i].interval.start
      BY <2>6, <2>7, <2>10 DEF OfState
    <3>2. Begun(g[i], t)
      BY <3>1 DEF Kept
    <3>3. Begun(h[i], t)
      <4>1. CASE i = m
        BY <2>7, <3>1, <3>2, <4>1 DEF Begun
      <4>2. CASE i # m
        BY <2>6, <3>1, <3>2, <4>2 DEF Begun
      <4> QED BY <4>1, <4>2
    <3>4. ASSUME NEW j \in DOMAIN h, i < j, OfState(h[j], r)
          PROVE  Succeeds(h[i], h[j])
      <4>1. OfState(g[j], r) /\ j \in DOMAIN g /\ h[j].interval.start = g[j].interval.start
        BY <2>6, <2>7, <3>4 DEF OfState
      <4>2. Succeeds(g[i], g[j])
        BY <3>1, <3>4, <4>1 DEF Kept
      <4>3. i # m
        <5> SUFFICES ASSUME i = m
                     PROVE  FALSE
          OBVIOUS
        <5>1. OfState(g[j], s)
          BY <2>2, <3>1, <4>1 DEF OfState
        <5> QED BY <5>1, <2>2, <3>4, <4>1
      <4> QED BY <4>1, <4>2, <4>3, <2>6, <3>1 DEF Succeeds
    <3> QED BY <3>3, <3>4
  <2>11. Kept(h, t)
    BY <2>8, <2>10 DEF Kept
  <2>12. \A i \in DOMAIN g : h[i] = g[i] \/ (g[i].label = s[2] /\ h[i].label = s[2])
    BY <2>2, <2>6, <2>7 DEF OfState
  <2> QED BY <2>3, <2>6, <2>9, <2>11, <2>12
<1> QED BY <1>2, <1>3

\* An edge of no state keeps the order of the states
LEMMA LinkKeeps ==
  ASSUME NEW t \in Nat, NEW g, Kept(g, t), NEW e \in Links
  PROVE  Kept(Append(g, e), t)
<1>1. PICK S : S = Links \cup KeptEdges
  OBVIOUS
<1>2. g \in Seq(S) /\ e \in S
  BY <1>1 DEF Kept
<1>3. PICK h : h = Append(g, e)
  OBVIOUS
<1>4. /\ h \in Seq(S) /\ DOMAIN h = 1..(Len(g) + 1) /\ h[Len(g) + 1] = e
      /\ DOMAIN g = 1..Len(g) /\ \A i \in DOMAIN g : h[i] = g[i]
  BY ONLY <1>2, <1>3
<1>5. \A s \in States : ~OfState(e, s)
  BY CallsAssumption DEF OfState
<1>6. \A s \in States, i \in DOMAIN h : OfState(h[i], s) => i \in DOMAIN g /\ h[i] = g[i]
  BY <1>2, <1>4, <1>5
<1>7. Kept(h, t)
  BY <1>1, <1>4, <1>6 DEF Kept
<1> QED BY <1>3, <1>7

\* An edge of a state, told when the earlier ones have ended, keeps the order
LEMMA StateKeeps ==
  ASSUME NEW t \in Nat, NEW g, Kept(g, t), NEW s \in States, NEW v \in StateValues,
         \A i \in DOMAIN g : OfState(g[i], s) => IsBounded(g[i].interval)
  PROVE  Kept(Append(g, [source |-> s[1], label |-> s[2], target |-> v, interval |-> Open(t)]), t)
<1>1. PICK S : S = Links \cup KeptEdges
  OBVIOUS
<1>2. PICK e : e = [source |-> s[1], label |-> s[2], target |-> v, interval |-> Open(t)]
  OBVIOUS
<1>3. e \in KeptEdges /\ e.interval.start = t /\ e.interval.end = {} /\ OfState(e, s)
  BY <1>2 DEF KeptEdges, Open, OfState
<1>4. g \in Seq(S) /\ e \in S
  BY <1>1, <1>3 DEF Kept
<1>5. PICK h : h = Append(g, e)
  OBVIOUS
<1>6. /\ h \in Seq(S) /\ DOMAIN h = 1..(Len(g) + 1) /\ h[Len(g) + 1] = e
      /\ DOMAIN g = 1..Len(g) /\ \A i \in DOMAIN g : h[i] = g[i]
  BY ONLY <1>4, <1>5
<1>7. ASSUME NEW r \in States, NEW i \in DOMAIN h, OfState(h[i], r)
      PROVE  /\ Begun(h[i], t)
             /\ \A j \in DOMAIN h : i < j /\ OfState(h[j], r) => Succeeds(h[i], h[j])
  <2>1. CASE i = Len(g) + 1
    BY <1>3, <1>4, <1>6, <2>1 DEF Begun
  <2>2. CASE i \in DOMAIN g
    <3>1. h[i] = g[i] /\ OfState(g[i], r)
      BY <1>6, <1>7, <2>2
    <3>2. Begun(g[i], t)
      BY <2>2, <3>1 DEF Kept
    <3>3. ASSUME NEW j \in DOMAIN h, i < j, OfState(h[j], r)
          PROVE  Succeeds(h[i], h[j])
      <4>1. CASE j \in DOMAIN g
        BY <1>6, <2>2, <3>1, <3>3, <4>1 DEF Kept
      <4>2. CASE j = Len(g) + 1
        <5>1. OfState(e, r)
          BY <1>6, <3>3, <4>2
        <5>2. OfState(g[i], s)
          BY <1>3, <3>1, <5>1 DEF OfState
        <5>3. IsBounded(g[i].interval)
          BY <2>2, <5>2
        <5> QED BY <1>3, <1>6, <3>1, <3>2, <4>2, <5>3 DEF Begun, Succeeds
      <4> QED BY <1>4, <1>6, <4>1, <4>2
    <3> QED BY <3>1, <3>2, <3>3
  <2> QED BY <1>4, <1>6, <2>1, <2>2
<1>8. Kept(h, t)
  BY <1>1, <1>6, <1>7 DEF Kept
<1> QED BY <1>2, <1>5, <1>8

\* What was kept at an instant is kept later
LEMMA ClockKeeps ==
  ASSUME NEW t \in Nat, NEW u \in Nat, t < u, NEW g, Kept(g, t)
  PROVE  Kept(g, u)
<1>1. ASSUME NEW s \in States, NEW i \in DOMAIN g, OfState(g[i], s)
      PROVE  Begun(g[i], u)
  <2>1. Begun(g[i], t) /\ g[i] \in Links \cup KeptEdges
    BY <1>1 DEF Kept
  <2>2. g[i].interval.start \in Nat /\ g[i].interval.end \in SUBSET Nat
    BY <1>1, <2>1, StatesAreKept, KeptInstants
  <2> QED BY <2>1, <2>2 DEF Begun
<1> QED BY <1>1 DEF Kept

\* The invariant holds throughout
LEMMA StatesStep ==
  ASSUME StatesInv, [CallsNext]_storeVars
  PROVE  StatesInv'
<1> USE DEF StatesInv
<1>1. CASE AddLink
  BY <1>1, LinkKeeps DEF AddLink, AddEdge
<1>2. CASE KeepState
  <2>1. PICK s \in States, v \in StateValues :
          UpsertEdge([source |-> s[1], label |-> s[2], target |-> v, interval |-> Open(current_time)])
    BY <1>2 DEF KeepState
  <2>2. PICK g : g = Ended(edges, s[1], s[2], current_time)
    OBVIOUS
  <2>3. Kept(g, current_time)
        /\ \A i \in DOMAIN g : OfState(g[i], s) => IsBounded(g[i].interval)
    BY <2>2, EndingKeeps
  <2>4. edges' = Append(g, [source |-> s[1], label |-> s[2], target |-> v,
                            interval |-> Open(current_time)])
    BY <2>1, <2>2 DEF UpsertEdge, Upserted, Open
  <2>5. Kept(edges', current_time)
    BY <2>3, <2>4, StateKeeps
  <2> QED BY <2>1, <2>5 DEF UpsertEdge
<1>3. CASE EndState
  <2>1. PICK s \in States : EndEdge(s[1], s[2], current_time)
    BY <1>3 DEF EndState
  <2>2. Kept(edges', current_time)
    BY <2>1, EndingKeeps DEF EndEdge
  <2> QED BY <2>1, <2>2 DEF EndEdge
<1>4. CASE ClockMoves
  <2>1. PICK t \in (current_time + 1)..MaxTime : SetTime(t)
    BY <1>4 DEF ClockMoves
  <2>2. t \in Nat /\ current_time < t
    BY CallsAssumption
  <2>3. Kept(edges, t)
    BY <2>2, ClockKeeps
  <2> QED BY <2>1, <2>2, <2>3 DEF SetTime
<1>5. CASE UNCHANGED storeVars
  BY <1>5 DEF storeVars, Kept
<1> QED BY <1>1, <1>2, <1>3, <1>4, <1>5 DEF CallsNext

\* Two edges of a state hold at no instant both
LEMMA StateHolds ==
  StatesInv => StateHasOneValue
<1> SUFFICES ASSUME StatesInv, NEW s \in States
             PROVE  /\ Cardinality(OpenEdges(edges, s[1], s[2])) <= 1
                    /\ \A i \in OpenEdges(edges, s[1], s[2]) : \A j \in (i + 1)..Len(edges) :
                         edges[j].source # s[1] \/ edges[j].label # s[2]
                    /\ \A t \in 0..MaxTime : Cardinality(FromAt(edges, s[1], s[2], t)) <= 1
  BY DEF StateHasOneValue
<1>1. Kept(edges, current_time) /\ current_time \in Nat
  BY DEF StatesInv
<1>2. edges \in Seq(Links \cup KeptEdges) /\ DOMAIN edges = 1..Len(edges) /\ Len(edges) \in Nat
  BY <1>1 DEF Kept
<1>3. Cardinality(OpenEdges(edges, s[1], s[2])) <= 1
  <2>1. \A i, j \in OpenEdges(edges, s[1], s[2]) : i = j
    BY <1>1, OneOpen
  <2> QED BY <2>1, OneAtMost
<1>4. ASSUME NEW i \in OpenEdges(edges, s[1], s[2]), NEW j \in (i + 1)..Len(edges)
      PROVE  edges[j].source # s[1] \/ edges[j].label # s[2]
  <2>1. i \in DOMAIN edges /\ \A k \in DOMAIN edges : i < k => ~OfState(edges[k], s)
    BY <1>1, OneOpen
  <2>2. j \in DOMAIN edges /\ i < j
    BY <1>2, <2>1
  <2> QED BY <2>1, <2>2 DEF OfState
<1>5. ASSUME NEW t \in 0..MaxTime
      PROVE  Cardinality(FromAt(edges, s[1], s[2], t)) <= 1
  <2>1. \A i \in FromAt(edges, s[1], s[2], t) :
          i \in DOMAIN edges /\ OfState(edges[i], s) /\ Covers(edges[i].interval, t)
    BY DEF FromAt, From, OfState
  <2>2. ASSUME NEW i \in FromAt(edges, s[1], s[2], t), NEW j \in FromAt(edges, s[1], s[2], t), i < j
        PROVE  FALSE
    <3>1. Succeeds(edges[i], edges[j])
      BY <1>1, <2>1, <2>2 DEF Kept
    <3>2. PICK x \in edges[i].interval.end : x <= edges[j].interval.start
      BY <3>1 DEF Succeeds, IsBounded
    <3>3. edges[i] \in KeptEdges /\ edges[j] \in KeptEdges
      BY <1>2, <2>1, StatesAreKept
    <3>4. x \in Nat /\ edges[j].interval.start \in Nat
      BY <3>3, KeptInstants
    <3>5. t < x /\ edges[j].interval.start <= t
      BY <2>1, <3>2 DEF Covers
    <3> QED BY <3>2, <3>4, <3>5, CallsAssumption
  <2>3. \A i, j \in FromAt(edges, s[1], s[2], t) : i = j
    BY <1>2, <2>1, <2>2
  <2> QED BY <2>3, OneAtMost
<1> QED BY <1>3, <1>4, <1>5

\* A thing kept up to date with upsert_edge and end_edge, at a clock that never
\* goes back, has at most one value at every instant, and if an edge of its is
\* open it is the one told last.
THEOREM StatesAreFunctions == CallsSpec => []StateHasOneValue
<1>1. StoresInit => StatesInv
  BY DEF StoresInit, StatesInv, Kept
<1>2. StatesInv /\ [CallsNext]_storeVars => StatesInv'
  BY StatesStep
<1> QED BY <1>1, <1>2, StateHolds, PTL DEF CallsSpec

-----------------------------------------------------------------------------
(***************************************************************************)
(* The adapters.  Each holds a link as often as it was told of it: the     *)
(* vector at the places of the link, PetTemporalGraph in the list of the   *)
(* link's source, GrafeoGraph as records from which the link can be read.  *)
(***************************************************************************)

\* The places of an edge
Occurs(g, e) == {i \in DOMAIN g : g[i] = e}

\* As many, of finitely many
AsMany(S, T) == IsFiniteSet(S) /\ IsFiniteSet(T) /\ Cardinality(S) = Cardinality(T)

\* Things told apart by what they are mapped to are as many as that
LEMMA SameByMap ==
  ASSUME NEW S, NEW T, NEW f \in [S -> T], IsFiniteSet(S),
         \A x, y \in S : f[x] = f[y] => x = y, \A z \in T : \E x \in S : f[x] = z
  PROVE  IsFiniteSet(T) /\ Cardinality(T) = Cardinality(S)
<1>1. f \in Bijection(S, T)
  BY DEF Bijection, Injection, Surjection, IsInjective
<1>2. ExistsBijection(S, T)
  BY <1>1 DEF ExistsBijection
<1> QED BY <1>2, FS_Bijection

\* A sequence has finitely many places
LEMMA PlacesFinite ==
  ASSUME NEW S, NEW g \in Seq(S), NEW e
  PROVE  IsFiniteSet(Occurs(g, e)) /\ Cardinality(Occurs(g, e)) \in Nat
<1>1. Len(g) \in Nat /\ DOMAIN g = 1..Len(g)
  OBVIOUS
<1>2. IsFiniteSet(1..Len(g))
  BY <1>1, FS_Interval
<1>3. Occurs(g, e) \in SUBSET (1..Len(g))
  BY <1>1 DEF Occurs
<1>4. IsFiniteSet(Occurs(g, e))
  BY <1>2, <1>3, FS_Subset
<1> QED BY <1>4, FS_CardinalityType

\* One place more, at the end, for what is appended
LEMMA OccursAppended ==
  ASSUME NEW S, NEW g \in Seq(S), NEW x \in S, NEW e
  PROVE  Cardinality(Occurs(Append(g, x), e))
           = IF x = e THEN Cardinality(Occurs(g, e)) + 1 ELSE Cardinality(Occurs(g, e))
<1>1. PICK h : h = Append(g, x)
  OBVIOUS
<1>2. /\ DOMAIN h = 1..(Len(g) + 1) /\ h[Len(g) + 1] = x
      /\ DOMAIN g = 1..Len(g) /\ Len(g) \in Nat /\ \A i \in DOMAIN g : h[i] = g[i]
  BY <1>1
<1>3. CASE x = e
  <2>1. Occurs(h, e) = Occurs(g, e) \cup {Len(g) + 1} /\ Len(g) + 1 \notin Occurs(g, e)
    BY <1>2, <1>3 DEF Occurs
  <2>2. IsFiniteSet(Occurs(g, e))
    BY PlacesFinite
  <2>3. Cardinality(Occurs(g, e) \cup {Len(g) + 1}) = Cardinality(Occurs(g, e)) + 1
    BY <2>1, <2>2, FS_AddElement
  <2> QED BY <1>1, <1>3, <2>1, <2>3
<1>4. CASE x # e
  <2>1. Occurs(h, e) = Occurs(g, e)
    BY <1>2, <1>4 DEF Occurs
  <2> QED BY <1>1, <1>4, <2>1
<1> QED BY <1>3, <1>4

\* One place more, in front, for what is put there
LEMMA OccursPrepended ==
  ASSUME NEW S, NEW g \in Seq(S), NEW x \in S, NEW e
  PROVE  Cardinality(Occurs(<<x>> \o g, e))
           = IF x = e THEN Cardinality(Occurs(g, e)) + 1 ELSE Cardinality(Occurs(g, e))
<1>1. PICK h : h = <<x>> \o g
  OBVIOUS
<1>2. /\ DOMAIN h = 1..(Len(g) + 1) /\ h[1] = x /\ Len(g) \in Nat
      /\ DOMAIN g = 1..Len(g) /\ \A i \in DOMAIN g : h[i + 1] = g[i]
  BY <1>1
<1> DEFINE Moved == {i + 1 : i \in Occurs(g, e)}
           f     == [i \in Occurs(g, e) |-> i + 1]
<1>3. IsFiniteSet(Occurs(g, e)) /\ Occurs(g, e) \in SUBSET (1..Len(g))
  BY <1>2, PlacesFinite DEF Occurs
<1>4. IsFiniteSet(Moved) /\ Cardinality(Moved) = Cardinality(Occurs(g, e))
  <2>1. f \in [Occurs(g, e) -> Moved]
    OBVIOUS
  <2>2. \A i, j \in Occurs(g, e) : f[i] = f[j] => i = j
    BY <1>2, <1>3
  <2>3. \A z \in Moved : \E i \in Occurs(g, e) : f[i] = z
    OBVIOUS
  <2> HIDE DEF Moved, f
  <2> QED BY <1>3, <2>1, <2>2, <2>3, SameByMap
<1>5. 1 \notin Moved
  BY <1>2, <1>3
<1>6. \A j \in DOMAIN h : j # 1 => h[j] = g[j - 1] /\ j - 1 \in DOMAIN g
  <2> SUFFICES ASSUME NEW j \in DOMAIN h, j # 1
               PROVE  h[j] = g[j - 1] /\ j - 1 \in DOMAIN g
    OBVIOUS
  <2>1. j - 1 \in DOMAIN g /\ (j - 1) + 1 = j
    BY <1>2
  <2>2. h[(j - 1) + 1] = g[j - 1]
    BY <1>2, <2>1
  <2> QED BY <2>1, <2>2
<1>7. {j \in DOMAIN h : j # 1 /\ h[j] = e} = Moved
  <2>1. ASSUME NEW j \in DOMAIN h, j # 1, h[j] = e
        PROVE  j \in Moved
    <3>1. j - 1 \in Occurs(g, e) /\ j = (j - 1) + 1
      BY <1>2, <1>6, <2>1 DEF Occurs
    <3> QED BY <3>1
  <2>2. ASSUME NEW j \in Moved
        PROVE  j \in DOMAIN h /\ j # 1 /\ h[j] = e
    <3>1. PICK i \in Occurs(g, e) : j = i + 1
      OBVIOUS
    <3> QED BY <1>2, <3>1 DEF Occurs
  <2> QED BY <2>1, <2>2
<1>8. CASE x = e
  <2>1. Occurs(h, e) = Moved \cup {1}
    <3> HIDE DEF Moved
    <3> QED BY <1>2, <1>7, <1>8 DEF Occurs
  <2>2. Cardinality(Moved \cup {1}) = Cardinality(Moved) + 1
    <3> HIDE DEF Moved
    <3> QED BY <1>4, <1>5, FS_AddElement
  <2> QED BY <1>1, <1>4, <1>8, <2>1, <2>2
<1>9. CASE x # e
  <2>1. Occurs(h, e) = Moved
    <3> HIDE DEF Moved
    <3> QED BY <1>2, <1>7, <1>9 DEF Occurs
  <2> QED BY <1>1, <1>4, <1>9, <2>1
<1> QED BY <1>8, <1>9

\* The places of the edges in A, and two stores that hold each of those as often
Holding(g, A)  == {i \in DOMAIN g : g[i] \in A}
Alike(g, h, A) == \A e \in A : AsMany(Occurs(g, e), Occurs(h, e))

\* As often each at the places S of the one as at the places T of the other
AsOften(g, S, h, T) == Tally(g, S) = Tally(h, T)

\* Stores that hold each of the edges asked for as often tell the same tally
LEMMA TallySame ==
  \A g, h, A : Alike(g, h, A) => AsOften(g, Holding(g, A), h, Holding(h, A))
<1> SUFFICES ASSUME NEW g, NEW h, NEW A, Alike(g, h, A)
             PROVE  AsOften(g, Holding(g, A), h, Holding(h, A))
  OBVIOUS
<1> USE DEF Alike
<1> DEFINE S == {i \in DOMAIN g : g[i] \in A}
           T == {i \in DOMAIN h : h[i] \in A}
<1>1. \A e \in {g[i] : i \in S} : e \in A /\ {i \in S : g[i] = e} = Occurs(g, e) /\ Occurs(g, e) # {}
  BY DEF Occurs
<1>2. \A e \in {h[i] : i \in T} : e \in A /\ {i \in T : h[i] = e} = Occurs(h, e) /\ Occurs(h, e) # {}
  BY DEF Occurs
<1>3. \A e \in A : Occurs(g, e) = {} <=> Occurs(h, e) = {}
  BY FS_EmptySet DEF AsMany
<1>4. {g[i] : i \in S} = {h[i] : i \in T}
  <2>1. \A e \in {g[i] : i \in S} : e \in {h[i] : i \in T}
    BY <1>1, <1>3 DEF Occurs
  <2>2. \A e \in {h[i] : i \in T} : e \in {g[i] : i \in S}
    BY <1>2, <1>3 DEF Occurs
  <2> QED BY <2>1, <2>2
<1>5. \A e \in {g[i] : i \in S} : Cardinality({i \in S : g[i] = e}) = Cardinality({i \in T : h[i] = e})
  <2> SUFFICES ASSUME NEW e \in {g[i] : i \in S}
               PROVE  Cardinality({i \in S : g[i] = e}) = Cardinality({i \in T : h[i] = e})
    OBVIOUS
  <2>1. e \in A /\ {i \in S : g[i] = e} = Occurs(g, e)
    BY <1>1
  <2>2. {i \in T : h[i] = e} = Occurs(h, e)
    BY <1>2, <1>4
  <2>3. Cardinality(Occurs(g, e)) = Cardinality(Occurs(h, e))
    BY <2>1 DEF AsMany
  <2> HIDE DEF S, T
  <2> QED BY <2>1, <2>2, <2>3, Zenon
<1> HIDE DEF S, T
<1>6. Tally(g, S) = Tally(h, T)
  BY <1>4, <1>5 DEF Tally
<1> QED BY <1>6 DEF S, T, Holding, AsOften

\* A link, as PetTemporalGraph keeps it with its source and as GrafeoGraph does
Filed(e)   == [label |-> e.label, value |-> e.target, interval |-> e.interval]
Related(e) == [from |-> e.source, type |-> e.label, properties |-> Properties(e)]

\* The list of a node, empty when there is no such node
Listed(n) == IF n \in DOMAIN adjacent THEN adjacent[n] ELSE << >>

\* No node has two indices
OneIndex(index) == \A i, j \in DOMAIN index : index[i] = index[j] => i = j

PetInv ==
  /\ node_index \in Seq(Asked) /\ OneIndex(node_index)
  /\ DOMAIN adjacent = ToSet(node_index)
  /\ \A n \in DOMAIN adjacent : adjacent[n] \in Seq({Filed(e) : e \in {x \in Links : x.source = n}})
  /\ \A e \in Links : Cardinality(Occurs(Listed(e.source), Filed(e))) = Cardinality(Occurs(edges, e))

DbInv ==
  /\ relations \in Seq({Related(e) : e \in Links})
  /\ \A i \in DOMAIN relations : relations[i].from \in node_map
  /\ \A e \in Links : Cardinality(Occurs(relations, Related(e))) = Cardinality(Occurs(edges, e))

\* The inductive invariant of the three stores
AdaptersInv == StatesInv /\ PetInv /\ DbInv

\* A link can be read from what the adapters keep of it
LEMMA LinkRead ==
  ASSUME NEW e \in Links
  PROVE  /\ e = [source |-> e.source, label |-> e.label, target |-> e.target, interval |-> e.interval]
         /\ ValueOf(Properties(e)) = e.target /\ IntervalOf(Properties(e)) = e.interval
<1>1. /\ e = [source |-> e.source, label |-> e.label, target |-> e.target, interval |-> e.interval]
      /\ e.target \in {Ref(e.target.of), Str(e.target.of)}
      /\ e.interval = [start |-> e.interval.start, end |-> e.interval.end]
  BY CallsAssumption
<1>2. IntervalOf(Properties(e)) = e.interval
  BY <1>1 DEF IntervalOf, Properties
<1>3. ValueOf(Properties(e)) = e.target
  <2>1. CASE e.target = Ref(e.target.of)
    <3>1. e.target.kind = "node"
      BY <2>1 DEF Ref
    <3> QED BY <2>1, <3>1 DEF ValueOf, Properties
  <2>2. CASE e.target = Str(e.target.of)
    <3>1. e.target.kind # "node"
      BY <2>2 DEF Str
    <3> QED BY <2>2, <3>1 DEF ValueOf, Properties
  <2> QED BY <1>1, <2>1, <2>2
<1> QED BY <1>1, <1>2, <1>3

\* Links filed alike with one source, or related alike, are one link
LEMMA LinksToldApart ==
  ASSUME NEW e \in Links, NEW x \in Links
  PROVE  /\ e.source = x.source /\ Filed(e) = Filed(x) => e = x
         /\ Related(e) = Related(x) => e = x
<1>1. e.source = x.source /\ Filed(e) = Filed(x) => e = x
  BY LinkRead DEF Filed
<1>2. ASSUME Related(e) = Related(x)
      PROVE  e = x
  <2>1. e.source = x.source /\ e.label = x.label /\ Properties(e) = Properties(x)
    BY <1>2 DEF Related
  <2>2. e.target = x.target /\ e.interval = x.interval
    BY <2>1, LinkRead
  <2> QED BY <2>1, <2>2, LinkRead
<1> QED BY <1>1, <1>2

\* add_node gives a new node the next index, and an old one none
LEMMA IndexGrows ==
  ASSUME NEW index \in Seq(Asked), OneIndex(index), NEW n \in Asked
  PROVE  /\ IndexAfter(index, n) \in Seq(Asked) /\ OneIndex(IndexAfter(index, n))
         /\ ToSet(IndexAfter(index, n)) = ToSet(index) \cup {n}
<1>1. CASE Contains(index, n)
  <2>1. n \in ToSet(index)
    BY <1>1 DEF Contains, ToSet
  <2> QED BY <1>1, <2>1 DEF IndexAfter
<1>2. CASE ~Contains(index, n)
  <2>1. PICK h : h = Append(index, n)
    OBVIOUS
  <2>2. /\ h \in Seq(Asked) /\ DOMAIN h = 1..(Len(index) + 1) /\ h[Len(index) + 1] = n
        /\ Len(index) \in Nat /\ DOMAIN index = 1..Len(index) /\ \A i \in DOMAIN index : h[i] = index[i]
    BY <2>1
  <2>3. \A i \in DOMAIN index : index[i] # n
    BY <1>2, <2>2 DEF Contains
  <2>4. OneIndex(h)
    BY <2>2, <2>3 DEF OneIndex
  <2>5. ToSet(h) = ToSet(index) \cup {n}
    BY <2>2 DEF ToSet
  <2>6. IndexAfter(index, n) = h
    BY <1>2, <2>1 DEF IndexAfter
  <2> QED BY <2>2, <2>4, <2>5, <2>6
<1> QED BY <1>1, <1>2

\* add_edge knows both ends of an edge
LEMMA EdgeIndexed ==
  ASSUME node_index \in Seq(Asked), OneIndex(node_index), NEW e \in Links
  PROVE  /\ IndexAfterEdge(e) \in Seq(Asked) /\ OneIndex(IndexAfterEdge(e))
         /\ ToSet(node_index) \cup {e.source} \subseteq ToSet(IndexAfterEdge(e))
<1>1. e.source \in Asked /\ ValueAsNode(e.target) \subseteq Asked
  BY DEF Asked
<1>2. CASE ValueAsNode(e.target) = {}
  BY <1>1, <1>2, IndexGrows DEF IndexAfterEdge
<1>3. CASE ValueAsNode(e.target) # {}
  <2>1. e.target.of \in Asked
    BY <1>1, <1>3 DEF ValueAsNode
  <2>2. PICK index : index = IndexAfter(node_index, e.target.of)
    OBVIOUS
  <2>3. index \in Seq(Asked) /\ OneIndex(index) /\ ToSet(index) = ToSet(node_index) \cup {e.target.of}
    BY <2>1, <2>2, IndexGrows
  <2>4. IndexAfterEdge(e) = IndexAfter(index, e.source)
    BY <1>3, <2>2 DEF IndexAfterEdge
  <2> QED BY <1>1, <2>3, <2>4, IndexGrows
<1> QED BY <1>2, <1>3

\* Insertion makes the list of the source longer by the edge, and no other
LEMMA ListGrows ==
  ASSUME PetInv, NEW e \in Links, adjacent' = AdjacentAfter(IndexAfterEdge(e), e), NEW n
  PROVE  /\ DOMAIN adjacent' = ToSet(IndexAfterEdge(e))
         /\ Listed(n)' = IF n = e.source THEN <<Filed(e)>> \o Listed(n) ELSE Listed(n)
<1>1. PICK Ns : Ns = ToSet(IndexAfterEdge(e))
  OBVIOUS
<1>2. DOMAIN adjacent \cup {e.source} \subseteq Ns
  BY <1>1, EdgeIndexed DEF PetInv
<1>3. adjacent' = [m \in Ns |-> IF m = e.source THEN <<Filed(e)>> \o Listed(m) ELSE Listed(m)]
  BY <1>1 DEF AdjacentAfter, Filed, Listed
<1>4. CASE n \in Ns
  BY <1>1, <1>3, <1>4 DEF Listed
<1>5. CASE n \notin Ns
  BY <1>1, <1>2, <1>3, <1>5 DEF Listed
<1> QED BY <1>4, <1>5

\* The lists are sequences
LEMMA ListsAreLists ==
  ASSUME PetInv, NEW n
  PROVE  Listed(n) \in Seq({Filed(e) : e \in {x \in Links : x.source = n}})
BY DEF PetInv, Listed

\* A link told to all is kept by all
LEMMA AdaptersTold ==
  ASSUME AdaptersInv, NEW e \in Links, AddEdge(e)
  PROVE  PetInv' /\ DbInv'
<1>1. edges' = Append(edges, e) /\ edges \in Seq(Links \cup KeptEdges)
  BY DEF AddEdge, AdaptersInv, StatesInv, Kept
<1>2. /\ node_index' = IndexAfterEdge(e) /\ adjacent' = AdjacentAfter(IndexAfterEdge(e), e)
      /\ relations' = Append(relations, Related(e))
      /\ node_map \cup {e.source} \subseteq node_map'
  BY DEF AddEdge, InsertElsewhere, Related
<1>3. PetInv /\ DbInv
  BY DEF AdaptersInv
<1>4. \A x \in Links : Cardinality(Occurs(edges, x))' =
        IF x = e THEN Cardinality(Occurs(edges, x)) + 1 ELSE Cardinality(Occurs(edges, x))
  <2> SUFFICES ASSUME NEW x \in Links
               PROVE  Cardinality(Occurs(edges', x)) =
                        IF x = e THEN Cardinality(Occurs(edges, x)) + 1 ELSE Cardinality(Occurs(edges, x))
    BY DEF Occurs
  <2>1. PICK S : S = Links \cup KeptEdges
    OBVIOUS
  <2>2. edges \in Seq(S) /\ e \in S
    BY <1>1, <2>1
  <2> QED BY <1>1, <2>2, OccursAppended
<1>5. node_index' \in Seq(Asked) /\ OneIndex(node_index)'
  BY <1>2, <1>3, EdgeIndexed DEF PetInv, OneIndex
<1>6. DOMAIN adjacent' = ToSet(node_index')
  BY <1>2, <1>3, ListGrows
<1>7. \A n : Listed(n)' \in Seq({Filed(x) : x \in {y \in Links : y.source = n}})
  <2> SUFFICES ASSUME NEW n
               PROVE  Listed(n)' \in Seq({Filed(x) : x \in {y \in Links : y.source = n}})
    OBVIOUS
  <2>1. PICK S : S = {Filed(x) : x \in {y \in Links : y.source = n}}
    OBVIOUS
  <2>2. Listed(n) \in Seq(S)
    BY <1>3, <2>1, ListsAreLists
  <2>3. Listed(n)' = IF n = e.source THEN <<Filed(e)>> \o Listed(n) ELSE Listed(n)
    BY <1>2, <1>3, ListGrows
  <2>4. n = e.source => Filed(e) \in S
    BY <2>1
  <2>5. n = e.source => <<Filed(e)>> \o Listed(n) \in Seq(S)
    BY <2>2, <2>4
  <2>6. Listed(n)' \in Seq(S)
    BY ONLY <2>2, <2>3, <2>5
  <2> QED BY <2>1, <2>6
<1>8. \A n \in DOMAIN adjacent' : adjacent'[n] \in Seq({Filed(x) : x \in {y \in Links : y.source = n}})
  BY <1>7 DEF Listed
<1>9. \A x \in Links : Cardinality(Occurs(Listed(x.source)', Filed(x))) =
        IF x = e THEN Cardinality(Occurs(Listed(x.source), Filed(x))) + 1
        ELSE Cardinality(Occurs(Listed(x.source), Filed(x)))
  <2> SUFFICES ASSUME NEW x \in Links
               PROVE  Cardinality(Occurs(Listed(x.source)', Filed(x))) =
                        IF x = e THEN Cardinality(Occurs(Listed(x.source), Filed(x))) + 1
                        ELSE Cardinality(Occurs(Listed(x.source), Filed(x)))
    OBVIOUS
  <2>1. PICK S : S = {Filed(z) : z \in {y \in Links : y.source = x.source}}
    OBVIOUS
  <2>2. PICK list : list = Listed(x.source)
    OBVIOUS
  <2>3. list \in Seq(S)
    BY <1>3, <2>1, <2>2, ListsAreLists
  <2>4. Listed(x.source)' = IF x.source = e.source THEN <<Filed(e)>> \o list ELSE list
    BY <1>2, <1>3, <2>2, ListGrows
  <2>5. CASE x.source = e.source
    <3>1. Filed(e) \in S
      BY <2>1, <2>5
    <3>2. Filed(e) = Filed(x) <=> x = e
      BY <2>5, LinksToldApart
    <3> QED BY <2>2, <2>3, <2>4, <2>5, <3>1, <3>2, OccursPrepended
  <2>6. CASE x.source # e.source
    BY <2>2, <2>4, <2>6
  <2> QED BY <2>5, <2>6
<1>10. \A x \in Links : Cardinality(Occurs(Listed(x.source), Filed(x)))' = Cardinality(Occurs(edges, x))'
  <2> SUFFICES ASSUME NEW x \in Links
               PROVE  Cardinality(Occurs(Listed(x.source)', Filed(x))) = Cardinality(Occurs(edges, x))'
    BY DEF Occurs, Filed
  <2> QED BY <1>3, <1>4, <1>9 DEF PetInv
<1>11. PetInv'
  BY <1>5, <1>6, <1>8, <1>10 DEF PetInv, Filed, Asked, Occurs
<1>12. PICK R : R = {Related(x) : x \in Links}
  OBVIOUS
<1>13. relations \in Seq(R) /\ Related(e) \in R /\ Related(e).from = e.source
  BY <1>3, <1>12 DEF DbInv, Related
<1>14. relations' \in Seq(R)
  BY <1>2, <1>13
<1>15. \A i \in DOMAIN relations' : relations'[i].from \in node_map'
  <2>1. /\ DOMAIN relations' = 1..(Len(relations) + 1) /\ relations'[Len(relations) + 1] = Related(e)
        /\ DOMAIN relations = 1..Len(relations) /\ Len(relations) \in Nat
        /\ \A i \in DOMAIN relations : relations'[i] = relations[i]
    BY <1>2, <1>13
  <2>2. \A i \in DOMAIN relations : relations[i].from \in node_map
    BY <1>3 DEF DbInv
  <2> QED BY <1>2, <1>13, <2>1, <2>2
<1>16. \A x \in Links : Cardinality(Occurs(relations', Related(x))) = Cardinality(Occurs(edges, x))'
  <2> SUFFICES ASSUME NEW x \in Links
               PROVE  Cardinality(Occurs(relations', Related(x))) = Cardinality(Occurs(edges, x))'
    OBVIOUS
  <2>1. Related(e) = Related(x) <=> x = e
    BY LinksToldApart
  <2>2. Cardinality(Occurs(relations', Related(x))) =
          IF x = e THEN Cardinality(Occurs(relations, Related(x))) + 1
          ELSE Cardinality(Occurs(relations, Related(x)))
    BY <1>2, <1>13, <2>1, OccursAppended
  <2> QED BY <1>3, <1>4, <2>2 DEF DbInv
<1>17. DbInv'
  BY <1>12, <1>14, <1>15, <1>16 DEF DbInv, Related, Properties, Occurs
<1> QED BY <1>11, <1>17

\* What leaves the other stores and the places of links alone keeps the rest
LEMMA AdaptersLeft ==
  ASSUME PetInv, DbInv, UNCHANGED <<node_index, adjacent, node_map, relations>>,
         \A e \in Links : Occurs(edges', e) = Occurs(edges, e)
  PROVE  PetInv' /\ DbInv'
<1>1. \A n : Listed(n)' = Listed(n)
  BY DEF Listed
<1>2. PetInv'
  <2>1. \A e \in Links : Cardinality(Occurs(Listed(e.source)', Filed(e))) = Cardinality(Occurs(edges', e))
    BY <1>1 DEF PetInv
  <2>2. \A e \in Links : Cardinality(Occurs(Listed(e.source), Filed(e)))' = Cardinality(Occurs(edges, e))'
    BY <2>1 DEF Occurs, Filed
  <2> QED BY <2>2 DEF PetInv, OneIndex, Asked, Filed
<1>3. DbInv'
  <2>1. \A e \in Links : Cardinality(Occurs(relations, Related(e))) = Cardinality(Occurs(edges', e))
    BY DEF DbInv
  <2>2. \A e \in Links : Cardinality(Occurs(relations, Related(e)))' = Cardinality(Occurs(edges, e))'
    BY <2>1 DEF Occurs, Related, Properties
  <2> QED BY <2>2 DEF DbInv, Related, Properties
<1> QED BY <1>2, <1>3

\* Ending a state's edge moves no link
LEMMA EndingMovesNoLink ==
  ASSUME StatesInv, NEW s \in States, NEW e \in Links
  PROVE  Occurs(Ended(edges, s[1], s[2], current_time), e) = Occurs(edges, e)
<1>1. PICK h : h = Ended(edges, s[1], s[2], current_time)
  OBVIOUS
<1>2. /\ DOMAIN h = DOMAIN edges
      /\ \A i \in DOMAIN edges : h[i] = edges[i] \/ (edges[i].label = s[2] /\ h[i].label = s[2])
  BY <1>1, EndingKeeps DEF StatesInv
<1>3. e.label # s[2]
  BY CallsAssumption
<1> QED BY <1>1, <1>2, <1>3 DEF Occurs

\* The invariant of the stores holds throughout
LEMMA AdaptersStep ==
  ASSUME AdaptersInv, [CallsNext]_storeVars
  PROVE  AdaptersInv'
<1>1. StatesInv /\ PetInv /\ DbInv
  BY DEF AdaptersInv
<1>2. StatesInv'
  BY <1>1, StatesStep
<1>3. CASE AddLink
  BY <1>2, <1>3, AdaptersTold DEF AddLink, AdaptersInv
<1>4. CASE KeepState
  <2>1. PICK s \in States, v \in StateValues :
          UpsertEdge([source |-> s[1], label |-> s[2], target |-> v, interval |-> Open(current_time)])
    BY <1>4 DEF KeepState
  <2>2. PICK g : g = Ended(edges, s[1], s[2], current_time)
    OBVIOUS
  <2>3. PICK x : x = [source |-> s[1], label |-> s[2], target |-> v, interval |-> Open(current_time)]
    OBVIOUS
  <2>4. edges' = Append(g, x)
    BY <2>1, <2>2, <2>3 DEF UpsertEdge, Upserted, Open
  <2>5. g \in Seq(Links \cup KeptEdges)
    BY <1>1, <2>2, EndingKeeps DEF StatesInv, Kept
  <2>6. \A e \in Links : Occurs(edges', e) = Occurs(edges, e)
    <3> SUFFICES ASSUME NEW e \in Links
                 PROVE  Occurs(edges', e) = Occurs(edges, e)
      OBVIOUS
    <3>1. Occurs(g, e) = Occurs(edges, e)
      BY <1>1, <2>2, EndingMovesNoLink
    <3>2. x # e
      BY <2>3, CallsAssumption
    <3>3. /\ DOMAIN edges' = 1..(Len(g) + 1) /\ edges'[Len(g) + 1] = x
          /\ DOMAIN g = 1..Len(g) /\ Len(g) \in Nat /\ \A i \in DOMAIN g : edges'[i] = g[i]
      BY <2>4, <2>5
    <3>4. Occurs(edges', e) = Occurs(g, e)
      BY <3>2, <3>3 DEF Occurs
    <3> QED BY <3>1, <3>4
  <2> QED BY <1>1, <1>2, <2>1, <2>6, AdaptersLeft DEF UpsertEdge, AdaptersInv
<1>5. CASE EndState
  <2>1. PICK s \in States : EndEdge(s[1], s[2], current_time)
    BY <1>5 DEF EndState
  <2>2. \A e \in Links : Occurs(edges', e) = Occurs(edges, e)
    BY <1>1, <2>1, EndingMovesNoLink DEF EndEdge
  <2> QED BY <1>1, <1>2, <2>1, <2>2, AdaptersLeft DEF EndEdge, AdaptersInv
<1>6. CASE ClockMoves
  <2>1. UNCHANGED <<edges, node_index, adjacent, node_map, relations>>
    BY <1>6 DEF ClockMoves, SetTime
  <2> QED BY <1>1, <1>2, <2>1, AdaptersLeft DEF AdaptersInv
<1>7. CASE UNCHANGED storeVars
  <2>1. UNCHANGED <<edges, node_index, adjacent, node_map, relations>>
    BY <1>7 DEF storeVars
  <2> QED BY <1>1, <1>2, <2>1, AdaptersLeft DEF AdaptersInv
<1> QED BY <1>3, <1>4, <1>5, <1>6, <1>7 DEF CallsNext

\* A store's edges of a causal label, or of any label of links, are links
OnlyLinks(g) == \A i \in DOMAIN g : g[i].label \in LinkLabels => g[i] \in Links

\* The two answer edges_from and scan alike
AnswerAlike(g, h, label, at) ==
  /\ \A n : AsOften(g, FromAt(g, n, label, at), h, FromAt(h, n, label, at))
  /\ \A v : AsOften(g, ScanAt(g, label, {v}, at), h, ScanAt(h, label, {v}, at))

\* Stores that hold the same links as often answer alike
LEMMA SameAnswers ==
  \A g, h : OnlyLinks(g) /\ OnlyLinks(h) /\ Alike(g, h, Links) =>
    \A label \in LinkLabels : \A at : AnswerAlike(g, h, label, at)
<1> SUFFICES ASSUME NEW g, NEW h, OnlyLinks(g), OnlyLinks(h), Alike(g, h, Links),
                    NEW label \in LinkLabels, NEW at
             PROVE  AnswerAlike(g, h, label, at)
  OBVIOUS
<1>1. ASSUME NEW n
      PROVE  AsOften(g, FromAt(g, n, label, at), h, FromAt(h, n, label, at))
  <2>1. PICK A : A = {e \in Links : e.source = n /\ e.label = label /\ Covers(e.interval, at)}
    OBVIOUS
  <2>2. FromAt(g, n, label, at) = Holding(g, A)
    BY <2>1 DEF FromAt, From, OnlyLinks, Holding
  <2>3. FromAt(h, n, label, at) = Holding(h, A)
    BY <2>1 DEF FromAt, From, OnlyLinks, Holding
  <2>4. Alike(g, h, A)
    BY <2>1 DEF Alike
  <2> QED BY <2>2, <2>3, <2>4, TallySame, Zenon
<1>2. ASSUME NEW v
      PROVE  AsOften(g, ScanAt(g, label, {v}, at), h, ScanAt(h, label, {v}, at))
  <2>1. PICK A : A = {e \in Links : e.target = v /\ e.label = label /\ Covers(e.interval, at)}
    OBVIOUS
  <2>2. ScanAt(g, label, {v}, at) = Holding(g, A)
    BY <2>1 DEF ScanAt, ScanIn, OnlyLinks, Holding
  <2>3. ScanAt(h, label, {v}, at) = Holding(h, A)
    BY <2>1 DEF ScanAt, ScanIn, OnlyLinks, Holding
  <2>4. Alike(g, h, A)
    BY <2>1 DEF Alike
  <2> QED BY <2>2, <2>3, <2>4, TallySame, Zenon
<1> QED BY <1>1, <1>2, Zenon DEF AnswerAlike

\* MemGraph holds links finitely often
LEMMA MemHolds ==
  ASSUME AdaptersInv
  PROVE  /\ OnlyLinks(MemEdges)
         /\ \A e \in Links : IsFiniteSet(Occurs(MemEdges, e))
<1>1. PICK S : S = Links \cup KeptEdges
  OBVIOUS
<1>2. edges \in Seq(S)
  BY <1>1 DEF AdaptersInv, StatesInv, Kept
<1>3. \A e \in KeptEdges : e.label \notin LinkLabels
  <2> SUFFICES ASSUME NEW x \in KeptEdges
               PROVE  x.label \notin LinkLabels
    OBVIOUS
  <2>1. PICK s \in States : x.label = s[2]
    BY DEF KeptEdges
  <2>2. \A e \in Links : e.label # s[2]
    BY CallsAssumption
  <2> QED BY <2>1, <2>2 DEF LinkLabels
<1>4. \A i \in DOMAIN edges : edges[i] \in S
  BY <1>2
<1>5. OnlyLinks(edges)
  BY <1>1, <1>3, <1>4 DEF OnlyLinks
<1> QED BY <1>2, <1>5, PlacesFinite DEF MemEdges

\* GrafeoGraph holds links, and each as often as MemGraph
LEMMA DbHolds ==
  ASSUME AdaptersInv
  PROVE  /\ OnlyLinks(DbEdges)
         /\ \A e \in Links : AsMany(Occurs(MemEdges, e), Occurs(DbEdges, e))
<1>1. /\ relations \in Seq({Related(e) : e \in Links})
      /\ \A i \in DOMAIN relations : relations[i].from \in node_map
  BY DEF AdaptersInv, DbInv
<1>2. \A i \in DOMAIN relations : \E e \in Links : relations[i] = Related(e)
  BY <1>1
<1>3. {k \in DOMAIN relations : relations[k].from \in node_map} = DOMAIN relations
  BY <1>1
<1>4. DOMAIN DbEdges = DOMAIN relations
  BY <1>3 DEF DbEdges
<1>5. ASSUME NEW i \in DOMAIN relations, NEW e \in Links, relations[i] = Related(e)
      PROVE  DbEdges[i] = e
  <2>1. DbEdges[i] = [source |-> relations[i].from, label |-> relations[i].type,
                      target |-> ValueOf(relations[i].properties),
                      interval |-> IntervalOf(relations[i].properties)]
    BY <1>3 DEF DbEdges
  <2>2. DbEdges[i] = [source |-> e.source, label |-> e.label, target |-> e.target,
                      interval |-> e.interval]
    BY <1>5, <2>1, LinkRead DEF Related
  <2> QED BY <2>2, LinkRead
<1>6. OnlyLinks(DbEdges)
  <2>1. \A i \in DOMAIN DbEdges : DbEdges[i] \in Links
    BY <1>2, <1>4, <1>5
  <2> QED BY <2>1 DEF OnlyLinks
<1>7. ASSUME NEW e \in Links
      PROVE  AsMany(Occurs(MemEdges, e), Occurs(DbEdges, e))
  <2>1. \A i \in DOMAIN relations : DbEdges[i] = e <=> relations[i] = Related(e)
    BY <1>2, <1>5
  <2>2. Occurs(DbEdges, e) = Occurs(relations, Related(e))
    BY <1>4, <2>1 DEF Occurs
  <2>3. IsFiniteSet(Occurs(relations, Related(e)))
    BY <1>1, PlacesFinite
  <2>4. IsFiniteSet(Occurs(MemEdges, e))
    BY MemHolds
  <2>5. Cardinality(Occurs(relations, Related(e))) = Cardinality(Occurs(MemEdges, e))
    BY DEF AdaptersInv, DbInv, MemEdges
  <2> QED BY <2>2, <2>3, <2>4, <2>5 DEF AsMany
<1> QED BY <1>6, <1>7

\* PetTemporalGraph holds links, and each as often as MemGraph: all of a link's
\* places are in the list of the one index of its source
LEMMA PetHolds ==
  ASSUME AdaptersInv
  PROVE  /\ OnlyLinks(PetEdges)
         /\ \A e \in Links : AsMany(Occurs(MemEdges, e), Occurs(PetEdges, e))
<1>1. /\ node_index \in Seq(Asked) /\ OneIndex(node_index) /\ DOMAIN adjacent = ToSet(node_index)
      /\ \A n \in DOMAIN adjacent :
           adjacent[n] \in Seq({Filed(e) : e \in {x \in Links : x.source = n}})
  BY DEF AdaptersInv, PetInv
<1> DEFINE places == UNION {{<<i, k>> : k \in DOMAIN adjacent[node_index[i]]} : i \in DOMAIN node_index}
<1>2. DOMAIN PetEdges = places
  BY DEF PetEdges
<1>3. ASSUME NEW i \in DOMAIN node_index, NEW k \in DOMAIN adjacent[node_index[i]]
      PROVE  /\ <<i, k>> \in places
             /\ PetEdges[<<i, k>>] =
                  [ source |-> node_index[i], label |-> adjacent[node_index[i]][k].label,
                    target |-> adjacent[node_index[i]][k].value,
                    interval |-> adjacent[node_index[i]][k].interval ]
  <2>1. <<i, k>> \in places
    BY <1>3
  <2> QED BY <2>1 DEF PetEdges
<1>4. ASSUME NEW i \in DOMAIN node_index, NEW k \in DOMAIN adjacent[node_index[i]]
      PROVE  \E e \in Links : /\ e.source = node_index[i] /\ adjacent[node_index[i]][k] = Filed(e)
                              /\ PetEdges[<<i, k>>] = e
  <2>1. node_index[i] \in DOMAIN adjacent
    BY <1>1 DEF ToSet
  <2>2. PICK n : n = node_index[i]
    OBVIOUS
  <2>3. adjacent[n] \in Seq({Filed(e) : e \in {x \in Links : x.source = n}})
    BY <1>1, <2>1, <2>2
  <2>4. adjacent[n][k] \in {Filed(e) : e \in {x \in Links : x.source = n}}
    BY <1>4, <2>2, <2>3
  <2>5. PICK e \in Links : e.source = n /\ adjacent[n][k] = Filed(e)
    BY <2>4
  <2>6. PetEdges[<<i, k>>] = [source |-> e.source, label |-> e.label, target |-> e.target,
                              interval |-> e.interval]
    BY <1>3, <2>2, <2>5 DEF Filed
  <2> QED BY <2>2, <2>5, <2>6, LinkRead
<1>5. \A p \in places : \E i \in DOMAIN node_index :
        \E k \in DOMAIN adjacent[node_index[i]] : p = <<i, k>>
  OBVIOUS
<1> HIDE DEF places
<1>6. OnlyLinks(PetEdges)
  <2>1. \A p \in DOMAIN PetEdges : PetEdges[p] \in Links
    BY <1>2, <1>4, <1>5
  <2> QED BY <2>1 DEF OnlyLinks
<1>7. ASSUME NEW e \in Links
      PROVE  AsMany(Occurs(MemEdges, e), Occurs(PetEdges, e))
  <2>1. PICK H : H = Occurs(Listed(e.source), Filed(e))
    OBVIOUS
  <2>2. Listed(e.source) \in Seq({Filed(z) : z \in {x \in Links : x.source = e.source}})
    BY ListsAreLists DEF AdaptersInv
  <2>3. IsFiniteSet(H) /\ Cardinality(H) = Cardinality(Occurs(MemEdges, e))
    BY <2>1, <2>2, PlacesFinite DEF AdaptersInv, PetInv, MemEdges
  <2>4. IsFiniteSet(Occurs(MemEdges, e))
    BY MemHolds
  <2>5. IsFiniteSet(Occurs(PetEdges, e)) /\ Cardinality(Occurs(PetEdges, e)) = Cardinality(H)
    <3>1. CASE e.source \in DOMAIN adjacent
      <4>1. PICK i \in DOMAIN node_index : node_index[i] = e.source
        BY <1>1, <3>1 DEF ToSet
      <4>2. Listed(e.source) = adjacent[node_index[i]]
        BY <3>1, <4>1 DEF Listed
      <4>3. \A k \in H : k \in DOMAIN adjacent[node_index[i]] /\ adjacent[node_index[i]][k] = Filed(e)
        BY <2>1, <4>2 DEF Occurs
      <4>4. ASSUME NEW k \in H
            PROVE  <<i, k>> \in Occurs(PetEdges, e)
        <5>1. k \in DOMAIN adjacent[node_index[i]] /\ adjacent[node_index[i]][k] = Filed(e)
          BY <4>3
        <5>2. PICK x \in Links : /\ x.source = node_index[i] /\ adjacent[node_index[i]][k] = Filed(x)
                                 /\ PetEdges[<<i, k>>] = x
          BY <1>4, <5>1
        <5>3. x = e
          BY <4>1, <5>1, <5>2, LinksToldApart
        <5> QED BY <1>2, <1>3, <5>1, <5>2, <5>3 DEF Occurs
      <4>5. ASSUME NEW p \in Occurs(PetEdges, e)
            PROVE  \E k \in H : p = <<i, k>>
        <5>1. p \in places /\ PetEdges[p] = e
          BY <1>2 DEF Occurs
        <5>2. PICK j \in DOMAIN node_index : \E k \in DOMAIN adjacent[node_index[j]] : p = <<j, k>>
          BY <1>5, <5>1
        <5>3. PICK k \in DOMAIN adjacent[node_index[j]] : p = <<j, k>>
          BY <5>2
        <5>4. PICK x \in Links : /\ x.source = node_index[j] /\ adjacent[node_index[j]][k] = Filed(x)
                                 /\ PetEdges[<<j, k>>] = x
          BY <1>4, <5>2, <5>3
        <5>5. x = e
          BY <5>1, <5>3, <5>4
        <5>6. j = i
          BY <1>1, <4>1, <5>4, <5>5 DEF OneIndex
        <5>7. k \in H
          BY <2>1, <4>2, <5>3, <5>4, <5>5, <5>6 DEF Occurs
        <5> QED BY <5>3, <5>6, <5>7
      <4> DEFINE f == [k \in H |-> <<i, k>>]
      <4>6. f \in [H -> Occurs(PetEdges, e)]
        BY <4>4
      <4>7. \A x, y \in H : f[x] = f[y] => x = y
        OBVIOUS
      <4>8. \A z \in Occurs(PetEdges, e) : \E x \in H : f[x] = z
        BY <4>5
      <4> HIDE DEF f
      <4> QED BY <2>3, <4>6, <4>7, <4>8, SameByMap
    <3>2. CASE e.source \notin DOMAIN adjacent
      <4>1. H = {}
        BY <2>1, <3>2 DEF Listed, Occurs
      <4>2. ASSUME NEW p \in Occurs(PetEdges, e)
            PROVE  FALSE
        <5>1. p \in places /\ PetEdges[p] = e
          BY <1>2 DEF Occurs
        <5>2. PICK j \in DOMAIN node_index : \E k \in DOMAIN adjacent[node_index[j]] : p = <<j, k>>
          BY <1>5, <5>1
        <5>3. PICK k \in DOMAIN adjacent[node_index[j]] : p = <<j, k>>
          BY <5>2
        <5>4. e.source = node_index[j]
          BY <1>4, <5>1, <5>2, <5>3
        <5> QED BY <1>1, <3>2, <5>4 DEF ToSet
      <4>3. Occurs(PetEdges, e) = {}
        BY <4>2
      <4> QED BY <4>1, <4>3, FS_EmptySet
    <3> QED BY <3>1, <3>2
  <2> QED BY <2>3, <2>4, <2>5 DEF AsMany
<1> QED BY <1>6, <1>7

\* Stores that keep the invariant agree
LEMMA AdaptersAnswer ==
  AdaptersInv => AdaptersAgree
<1> SUFFICES ASSUME AdaptersInv
             PROVE  AdaptersAgree
  OBVIOUS
<1>1. /\ OnlyLinks(MemEdges) /\ OnlyLinks(PetEdges) /\ OnlyLinks(DbEdges)
      /\ Alike(MemEdges, PetEdges, Links)
      /\ Alike(MemEdges, DbEdges, Links)
  BY MemHolds, PetHolds, DbHolds DEF Alike
<1>2. \A label \in LinkLabels : \A at : /\ AnswerAlike(MemEdges, PetEdges, label, at)
                                        /\ AnswerAlike(MemEdges, DbEdges, label, at)
  BY <1>1, SameAnswers, Zenon
<1>3. ASSUME NEW label \in LinkLabels, NEW at \in 0..MaxTime
      PROVE  /\ \A n \in Asked :
                  LET mine == Tally(MemEdges, FromAt(MemEdges, n, label, at))
                  IN  /\ mine = Tally(PetEdges, FromAt(PetEdges, n, label, at))
                      /\ mine = Tally(DbEdges, FromAt(DbEdges, n, label, at))
             /\ \A v \in Targets :
                  LET mine == Tally(MemEdges, ScanAt(MemEdges, label, {v}, at))
                  IN  /\ mine = Tally(PetEdges, ScanAt(PetEdges, label, {v}, at))
                      /\ mine = Tally(DbEdges, ScanAt(DbEdges, label, {v}, at))
  BY <1>2 DEF AnswerAlike, AsOften
<1> QED BY <1>3 DEF AdaptersAgree

\* The three adapters, told of the same links in any order and between any
\* calls that keep the states of things, answer edges_from and scan with the
\* same links, each as often.
THEOREM AdaptersAlike == CallsSpec => []AdaptersAgree
<1>1. StoresInit => AdaptersInv
  <2> SUFFICES ASSUME StoresInit
               PROVE  AdaptersInv
    OBVIOUS
  <2>1. \A e : Occurs(<< >>, e) = {}
    BY DEF Occurs
  <2>2. \A n : Listed(n) = << >>
    BY DEF StoresInit, Listed
  <2>3. \A e \in Links : /\ Cardinality(Occurs(Listed(e.source), Filed(e))) = Cardinality(Occurs(edges, e))
                         /\ Cardinality(Occurs(relations, Related(e))) = Cardinality(Occurs(edges, e))
    BY <2>1, <2>2 DEF StoresInit
  <2>4. StatesInv
    BY DEF StoresInit, StatesInv, Kept
  <2>5. PetInv
    BY <2>3 DEF StoresInit, PetInv, OneIndex, ToSet
  <2>6. DbInv
    BY <2>3 DEF StoresInit, DbInv
  <2> QED BY <2>4, <2>5, <2>6 DEF AdaptersInv
<1>2. AdaptersInv /\ [CallsNext]_storeVars => AdaptersInv'
  BY AdaptersStep
<1> QED BY <1>1, <1>2, AdaptersAnswer, PTL DEF CallsSpec

-----------------------------------------------------------------------------
(***************************************************************************)
(* Causes.  A path is found hop by hop, from the effect back; told forward *)
(* it is a chain.  A trail is what both are made of: the edges of a path   *)
(* from the effect back, with the nodes they meet.                         *)
(***************************************************************************)

\* Some hops have a first
LEMMA FirstHop ==
  ASSUME NEW S \in SUBSET Nat, S # {}
  PROVE  \E x \in S : \A y \in S : x <= y
<1>1. PICK x \in S : \A y \in S : <<y, x>> \notin OpToRel(<, Nat)
  BY NatLessThanWellFounded, WFMin, Zenon
<1>2. \A y \in S : ~(y < x)
  BY <1>1 DEF OpToRel
<1> QED BY <1>2

\* Hop by hop, the last is reached
LEMMA HopInduction ==
  ASSUME NEW n \in Nat, NEW S, 0 \in S,
         \A k \in Nat : k < n /\ k \in S => k + 1 \in S
  PROVE  0..n \subseteq S
<1> SUFFICES ASSUME (0..n) \ S # {}
             PROVE  FALSE
  OBVIOUS
<1> DEFINE Left == (0..n) \ S
<1>1. PICK m \in Left : \A k \in Left : m <= k
  <2>1. Left \in SUBSET Nat /\ Left # {}
    OBVIOUS
  <2> HIDE DEF Left
  <2> QED BY <2>1, FirstHop
<1>2. m # 0
  OBVIOUS
<1>3. m - 1 \in Nat /\ m - 1 < n /\ m - 1 \notin (0..n) \ S
  BY <1>1, <1>2
<1> QED BY <1>1, <1>3

\* An edge that leads to n
LeadsTo(i, n) == edges[i].label \in DOMAIN Weights /\ edges[i].target = Ref(n)

\* Where a trail from n back is when k - 1 of its edges were followed
NodeAt(n, d, k) == IF k = 1 THEN n ELSE edges[d[k - 1]].source

\* A trail from n back, of h edges
Trail(n, d, h) ==
  /\ d \in Seq(DOMAIN edges) /\ Len(d) = h
  /\ \A k \in 1..h : LeadsTo(d[k], NodeAt(n, d, k))
  /\ \A k \in 1..h : k # 1 => StartOf(edges, d[k]) < StartOf(edges, d[k - 1])
  /\ \A j, k \in 1..(h + 1) : j < k => NodeAt(n, d, j) # NodeAt(n, d, k)

\* How many ways lead to n but one
Others(n) == Cardinality(CausalPredecessors(edges, n, Weights)) - 1

\* A path of h hops from n, as causal_paths has it
Walked(p, n, h) ==
  /\ Trail(n, p.edges, h)
  /\ p.nodes \in Seq({NodeAt(n, p.edges, k) : k \in 1..(h + 1)}) /\ Len(p.nodes) = h + 1
  /\ \A k \in 1..(h + 1) : p.nodes[k] = NodeAt(n, p.edges, k)
  /\ p.branches \in Int /\ (h = 0 => p.branches = 0)
  /\ h = 1 => p.branches = Others(n)
  /\ h > 1 => p.branches >= Others(n)

\* The hops of a search
Hops(hop, n) ==
  /\ hop[0] = {[nodes |-> <<n>>, edges |-> << >>, branches |-> 0]}
  /\ \A h \in 1..MaxHops : hop[h] = UNION {Extensions(edges, p, Weights) : p \in hop[h - 1]}

\* What an edge of the graph is
LEMMA EdgeRead ==
  ASSUME StatesInv, NEW i \in DOMAIN edges
  PROVE  /\ edges[i].interval.start \in Int
         /\ \A n : n \in ValueAsNode(edges[i].target) <=> edges[i].target = Ref(n)
         /\ ValueAsNode(edges[i].target) # {} => \E n : edges[i].target = Ref(n)
<1>1. edges[i] \in Links \cup KeptEdges
  BY DEF StatesInv, Kept
<1>2. edges[i].interval.start \in Int
  <2>1. CASE edges[i] \in Links
    BY <2>1, CallsAssumption
  <2>2. CASE edges[i] \in KeptEdges
    BY <2>2, KeptInstants
  <2> QED BY <1>1, <2>1, <2>2
<1>3. edges[i].target \in {Ref(edges[i].target.of), Str(edges[i].target.of)}
  <2>1. CASE edges[i] \in Links
    BY <2>1, CallsAssumption
  <2>2. CASE edges[i] \in KeptEdges
    <3>1. edges[i].target \in StateValues
      BY <2>2 DEF KeptEdges
    <3> QED BY <3>1, CallsAssumption
  <2> QED BY <1>1, <2>1, <2>2
<1>4. \A n : n \in ValueAsNode(edges[i].target) <=> edges[i].target = Ref(n)
  BY <1>3 DEF ValueAsNode, Ref, Str
<1>5. ValueAsNode(edges[i].target) # {} => \E n : n \in ValueAsNode(edges[i].target)
  OBVIOUS
<1> QED BY <1>2, <1>4, <1>5

\* The predecessors of a node are the edges that lead to it
LEMMA PredecessorsLead ==
  ASSUME StatesInv, NEW n
  PROVE  /\ CausalPredecessors(edges, n, Weights) = {i \in DOMAIN edges : LeadsTo(i, n)}
         /\ IsFiniteSet(CausalPredecessors(edges, n, Weights))
         /\ Others(n) \in Int
         /\ \A i \in DOMAIN edges : LeadsTo(i, n) => Others(n) >= 0
<1>1. CausalPredecessors(edges, n, Weights) = {i \in DOMAIN edges : LeadsTo(i, n)}
  BY EdgeRead DEF CausalPredecessors, Predecessors, LeadsTo
<1>2. IsFiniteSet(DOMAIN edges)
  <2>1. DOMAIN edges = 1..Len(edges) /\ Len(edges) \in Nat
    BY DEF StatesInv, Kept
  <2> QED BY <2>1, FS_Interval
<1> DEFINE P == {i \in DOMAIN edges : LeadsTo(i, n)}
<1>3. IsFiniteSet(P)
  BY <1>2, FS_Subset
<1>4. Cardinality(P) \in Nat /\ (P # {} => Cardinality(P) # 0)
  BY <1>3, FS_CardinalityType, FS_EmptySet
<1>5. \A i \in DOMAIN edges : LeadsTo(i, n) => P # {}
  OBVIOUS
<1> HIDE DEF P
<1>6. CausalPredecessors(edges, n, Weights) = P
  BY <1>1 DEF P
<1>7. Others(n) = Cardinality(P) - 1
  BY <1>6, Zenon DEF Others
<1>8. Others(n) \in Int /\ (P # {} => Others(n) >= 0)
  BY <1>4, <1>7
<1> QED BY <1>1, <1>3, <1>5, <1>6, <1>8, Zenon

\* The search comes to an end: hop by hop it is made of extensions
LEMMA HopsMade ==
  ASSUME NEW n
  PROVE  \E hop : Hops(hop, n) /\ PathsTo(n) = UNION {hop[h] : h \in 1..MaxHops}
<1> DEFINE F(f, i) == IF i = 0 THEN {[nodes |-> <<n>>, edges |-> << >>, branches |-> 0]}
                      ELSE UNION {Extensions(edges, p, Weights) : p \in f[i - 1]}
           S == {k \in Nat : \E f : f = [i \in 0..k |-> F(f, i)]}
           hop == CHOOSE f : f = [i \in 0..MaxHops |-> F(f, i)]
<1> HIDE DEF hop
<1>1. 0 \in S
  <2> DEFINE f == [i \in 0..0 |-> {[nodes |-> <<n>>, edges |-> << >>, branches |-> 0]}]
  <2>1. f = [i \in 0..0 |-> F(f, i)]
    OBVIOUS
  <2> HIDE DEF f, F
  <2> QED BY <2>1
<1>2. ASSUME NEW k \in Nat, k \in S
      PROVE  k + 1 \in S
  <2>1. PICK f : f = [i \in 0..k |-> F(f, i)]
    BY <1>2
  <2> DEFINE g == [i \in 0..(k + 1) |-> IF i \in 0..k THEN f[i] ELSE F(f, k + 1)]
  <2>2. ASSUME NEW i \in 0..(k + 1)
        PROVE  g[i] = F(g, i)
    <3>1. i # 0 => i - 1 \in 0..k /\ g[i - 1] = f[i - 1]
      OBVIOUS
    <3>2. g[i] = F(f, i)
      <4> HIDE DEF F, S
      <4>1. i \in 0..k \/ i = k + 1
        OBVIOUS
      <4> QED BY <2>1, <4>1
    <3> HIDE DEF g
    <3>3. CASE i = 0
      BY <3>2, <3>3
    <3>4. CASE i # 0
      BY <3>1, <3>2, <3>4
    <3> QED BY <3>3, <3>4
  <2>3. g = [i \in 0..(k + 1) |-> F(g, i)]
    <3> HIDE DEF F
    <3>1. g = [i \in 0..(k + 1) |-> g[i]]
      OBVIOUS
    <3> HIDE DEF g
    <3> QED BY <2>2, <3>1
  <2> HIDE DEF g, F
  <2>4. k + 1 \in Nat
    OBVIOUS
  <2> QED BY <2>3, <2>4
<1>3. MaxHops \in Nat
  BY CallsAssumption
<1>4. 0..MaxHops \subseteq S
  <2> HIDE DEF S
  <2> QED BY <1>1, <1>2, <1>3, HopInduction
<1>5. hop = [i \in 0..MaxHops |-> F(hop, i)]
  <2>1. MaxHops \in S
    <3> HIDE DEF F, S
    <3> QED BY <1>3, <1>4
  <2> HIDE DEF F
  <2>2. \E f : f = [i \in 0..MaxHops |-> F(f, i)]
    BY <2>1
  <2> QED BY <2>2, Zenon DEF hop
<1>6. PathsTo(n) = UNION {hop[h] : h \in 1..MaxHops}
  BY Zenon DEF PathsTo, CausalPaths, hop
<1>7. Hops(hop, n)
  <2>1. \A i \in 0..MaxHops : hop[i] = F(hop, i)
    <3> HIDE DEF F
    <3> QED BY <1>5
  <2>2. 0 \in 0..MaxHops /\ \A h \in 1..MaxHops : h \in 0..MaxHops /\ h # 0
    BY <1>3
  <2> QED BY <2>1, <2>2, Zenon DEF Hops
<1> QED BY <1>6, <1>7

\* The nodes of a trail one edge longer
LEMMA NodeFurther ==
  ASSUME NEW n, NEW D, NEW h \in Nat, NEW d \in Seq(D), Len(d) = h, NEW i \in D
  PROVE  /\ Append(d, i) \in Seq(D) /\ Len(Append(d, i)) = h + 1
         /\ Append(d, i)[h + 1] = i /\ \A k \in 1..h : Append(d, i)[k] = d[k]
         /\ \A k \in 1..(h + 1) : NodeAt(n, Append(d, i), k) = NodeAt(n, d, k)
         /\ NodeAt(n, Append(d, i), h + 2) = edges[i].source
<1> DEFINE c == Append(d, i)
<1>1. c \in Seq(D) /\ Len(c) = h + 1 /\ c[h + 1] = i /\ \A k \in 1..h : c[k] = d[k]
  OBVIOUS
<1>2. \A k \in 1..(h + 1) : k = 1 \/ k - 1 \in 1..h
  OBVIOUS
<1>3. (h + 2) - 1 = h + 1 /\ h + 2 # 1
  OBVIOUS
<1> HIDE DEF c
<1>4. \A k \in 1..(h + 1) : NodeAt(n, c, k) = NodeAt(n, d, k)
  BY <1>1, <1>2 DEF NodeAt
<1>5. NodeAt(n, c, h + 2) = edges[i].source
  BY <1>1, <1>3 DEF NodeAt
<1> QED BY <1>1, <1>4, <1>5 DEF c

\* What an edge must be to make a trail one edge longer
CanFollow(n, d, h, i) ==
  /\ LeadsTo(i, NodeAt(n, d, h + 1))
  /\ h # 0 => StartOf(edges, i) < StartOf(edges, d[h])
  /\ \A j \in 1..(h + 1) : NodeAt(n, d, j) # edges[i].source

\* A trail, edge by edge
LEMMA TrailFurther ==
  ASSUME NEW n, NEW h \in Nat, NEW d \in Seq(DOMAIN edges), Len(d) = h, NEW i \in DOMAIN edges
  PROVE  Trail(n, Append(d, i), h + 1) <=> Trail(n, d, h) /\ CanFollow(n, d, h, i)
<1>1. PICK c : c = Append(d, i)
  OBVIOUS
<1>2. /\ c \in Seq(DOMAIN edges) /\ Len(c) = h + 1
      /\ c[h + 1] = i /\ \A k \in 1..h : c[k] = d[k]
      /\ \A k \in 1..(h + 1) : NodeAt(n, c, k) = NodeAt(n, d, k)
      /\ NodeAt(n, c, h + 2) = edges[i].source
  BY <1>1, NodeFurther
<1>3. /\ \A k : k \in 1..(h + 1) <=> k \in 1..h \/ k = h + 1
      /\ \A k : k \in 1..((h + 1) + 1) <=> k \in 1..(h + 1) \/ k = h + 2
      /\ \A k \in 1..h : k # 1 => k - 1 \in 1..h
      /\ (h + 1) - 1 = h /\ (h # 0 => h \in 1..h /\ h + 1 # 1) /\ (h = 0 => h + 1 = 1)
      /\ \A k \in 1..(h + 1) : k < h + 2 /\ ~(h + 2 < k)
      /\ ~(h + 2 < h + 2)
  OBVIOUS
<1>4. (\A k \in 1..(h + 1) : LeadsTo(c[k], NodeAt(n, c, k)))
      <=> (\A k \in 1..h : LeadsTo(d[k], NodeAt(n, d, k))) /\ LeadsTo(i, NodeAt(n, d, h + 1))
  BY <1>2, <1>3, Zenon
<1>5. (\A k \in 1..(h + 1) : k # 1 => StartOf(edges, c[k]) < StartOf(edges, c[k - 1]))
      <=> /\ \A k \in 1..h : k # 1 => StartOf(edges, d[k]) < StartOf(edges, d[k - 1])
          /\ h # 0 => StartOf(edges, i) < StartOf(edges, d[h])
  <2>1. \A k \in 1..h : k # 1 => (StartOf(edges, c[k]) < StartOf(edges, c[k - 1])
                                  <=> StartOf(edges, d[k]) < StartOf(edges, d[k - 1]))
    BY <1>2, <1>3
  <2>2. h # 0 => (StartOf(edges, c[h + 1]) < StartOf(edges, c[(h + 1) - 1])
                  <=> StartOf(edges, i) < StartOf(edges, d[h]))
    BY <1>2, <1>3
  <2> QED BY <1>3, <2>1, <2>2
<1>6. (\A j, k \in 1..((h + 1) + 1) : j < k => NodeAt(n, c, j) # NodeAt(n, c, k))
      <=> /\ \A j, k \in 1..(h + 1) : j < k => NodeAt(n, d, j) # NodeAt(n, d, k)
          /\ \A j \in 1..(h + 1) : NodeAt(n, d, j) # edges[i].source
  <2>1. ASSUME NEW j \in 1..(h + 1), NEW k \in 1..(h + 1)
        PROVE  (NodeAt(n, c, j) # NodeAt(n, c, k)) <=> (NodeAt(n, d, j) # NodeAt(n, d, k))
    BY <1>2
  <2>2. ASSUME NEW j \in 1..(h + 1)
        PROVE  (NodeAt(n, c, j) # NodeAt(n, c, h + 2)) <=> (NodeAt(n, d, j) # edges[i].source)
    BY <1>2
  <2> QED BY <1>3, <2>1, <2>2
<1>7. Trail(n, c, h + 1)
      <=> /\ \A k \in 1..(h + 1) : LeadsTo(c[k], NodeAt(n, c, k))
          /\ \A k \in 1..(h + 1) : k # 1 => StartOf(edges, c[k]) < StartOf(edges, c[k - 1])
          /\ \A j, k \in 1..((h + 1) + 1) : j < k => NodeAt(n, c, j) # NodeAt(n, c, k)
  BY <1>2, Zenon DEF Trail
<1>8. Trail(n, d, h)
      <=> /\ \A k \in 1..h : LeadsTo(d[k], NodeAt(n, d, k))
          /\ \A k \in 1..h : k # 1 => StartOf(edges, d[k]) < StartOf(edges, d[k - 1])
          /\ \A j, k \in 1..(h + 1) : j < k => NodeAt(n, d, j) # NodeAt(n, d, k)
  BY Zenon DEF Trail
<1> QED BY <1>1, <1>4, <1>5, <1>6, <1>7, <1>8, Zenon DEF CanFollow

\* One path longer by one edge
OneFurther(p, q, i) ==
  /\ q = [ nodes |-> q.nodes, edges |-> q.edges, branches |-> q.branches ]
  /\ q.nodes = Append(p.nodes, edges[i].source) /\ q.edges = Append(p.edges, i)
  /\ q.branches = p.branches + Others(Last(p.nodes))

\* The extensions of a path are it, longer by an edge that can follow
LEMMA ExtensionsFollow ==
  ASSUME StatesInv, NEW n, NEW h \in Nat, NEW p, Walked(p, n, h)
  PROVE  /\ \A q \in Extensions(edges, p, Weights) : \E i \in DOMAIN edges :
              CanFollow(n, p.edges, h, i) /\ OneFurther(p, q, i)
         /\ \A i \in DOMAIN edges : CanFollow(n, p.edges, h, i) =>
              \E q \in Extensions(edges, p, Weights) : OneFurther(p, q, i)
<1> DEFINE x == Last(p.nodes)
           Next1(i) == [ nodes |-> Append(p.nodes, edges[i].source), edges |-> Append(p.edges, i),
                        branches |-> p.branches + Cardinality(CausalPredecessors(edges, x, Weights)) - 1 ]
           Fit(i) == /\ i \in CausalPredecessors(edges, x, Weights)
                     /\ ~Contains(p.nodes, edges[i].source) /\ Earlier(edges, p, i)
<1>1. \A q : q \in Extensions(edges, p, Weights) <=> \E i : Fit(i) /\ q = Next1(i)
  BY Zenon DEF Extensions
<1>2. Len(p.nodes) = h + 1 /\ h + 1 \in 1..(h + 1) /\ x = NodeAt(n, p.edges, h + 1)
      /\ p.edges \in Seq(DOMAIN edges) /\ Len(p.edges) = h
  BY DEF Walked, Last, Trail
<1>3. ASSUME NEW i
      PROVE  Fit(i) <=> i \in DOMAIN edges /\ CanFollow(n, p.edges, h, i)
  <2>1. i \in CausalPredecessors(edges, x, Weights) <=> i \in DOMAIN edges /\ LeadsTo(i, x)
    BY PredecessorsLead
  <2>2. Contains(p.nodes, edges[i].source)
        <=> \E j \in 1..(h + 1) : NodeAt(n, p.edges, j) = edges[i].source
    BY <1>2, Zenon DEF Contains, Walked
  <2>3. Earlier(edges, p, i) <=> (h # 0 => StartOf(edges, i) < StartOf(edges, p.edges[h]))
    <3>1. p.edges = << >> <=> h = 0
      BY <1>2
    <3>2. Last(p.edges) = p.edges[h]
      BY <1>2 DEF Last
    <3> QED BY <3>1, <3>2 DEF Earlier
  <2> HIDE DEF x
  <2> QED BY <1>2, <2>1, <2>2, <2>3, Zenon DEF CanFollow
<1>4. ASSUME NEW i
      PROVE  OneFurther(p, Next1(i), i)
  <2>1. p.branches \in Int /\ Others(x) \in Int
    BY PredecessorsLead DEF Walked
  <2>2. PICK c : c = Cardinality(CausalPredecessors(edges, x, Weights))
    OBVIOUS
  <2>3. c \in Nat
    BY <2>2, PredecessorsLead, FS_CardinalityType
  <2>4. p.branches + c - 1 = p.branches + (c - 1)
    BY <2>1, <2>3
  <2>5. Others(x) = c - 1
    BY <2>2 DEF Others
  <2> HIDE DEF x
  <2>6. Next1(i).branches = p.branches + Others(x)
    BY <2>2, <2>4, <2>5
  <2> QED BY <2>6 DEF OneFurther, x
<1> HIDE DEF Next1, Fit
<1> QED BY <1>1, <1>3, <1>4, Zenon

\* A path longer by an edge that can follow is one of a hop more
LEMMA WalkedFurther ==
  ASSUME StatesInv, NEW n, NEW h \in Nat, NEW p, Walked(p, n, h), NEW q, NEW i \in DOMAIN edges,
         CanFollow(n, p.edges, h, i), OneFurther(p, q, i)
  PROVE  Walked(q, n, h + 1)
<1>1. /\ p.edges \in Seq(DOMAIN edges) /\ Len(p.edges) = h /\ Trail(n, p.edges, h)
      /\ q.edges = Append(p.edges, i)
  BY DEF Walked, Trail, OneFurther
<1>2. Trail(n, q.edges, h + 1)
  BY <1>1, TrailFurther
<1>3. /\ \A k \in 1..(h + 1) : NodeAt(n, q.edges, k) = NodeAt(n, p.edges, k)
      /\ NodeAt(n, q.edges, h + 2) = edges[i].source
  BY <1>1, NodeFurther
<1>4. /\ q.nodes = Append(p.nodes, edges[i].source) /\ Len(p.nodes) = h + 1
      /\ \A k \in 1..(h + 1) : p.nodes[k] = NodeAt(n, p.edges, k)
      /\ p.nodes \in Seq({NodeAt(n, p.edges, k) : k \in 1..(h + 1)})
  BY DEF Walked, OneFurther
<1>5. /\ Len(q.nodes) = (h + 1) + 1
      /\ \A k \in 1..((h + 1) + 1) : q.nodes[k] = NodeAt(n, q.edges, k)
      /\ q.nodes \in Seq({NodeAt(n, q.edges, k) : k \in 1..((h + 1) + 1)})
  <2> DEFINE A == {NodeAt(n, p.edges, k) : k \in 1..(h + 1)} \cup {edges[i].source}
             B == {NodeAt(n, q.edges, k) : k \in 1..((h + 1) + 1)}
  <2>1. p.nodes \in Seq(A) /\ edges[i].source \in A
    BY <1>4
  <2> HIDE DEF A
  <2>2. /\ Len(q.nodes) = (h + 1) + 1 /\ q.nodes[h + 2] = edges[i].source
        /\ \A k \in 1..(h + 1) : q.nodes[k] = p.nodes[k]
        /\ DOMAIN q.nodes = 1..((h + 1) + 1) /\ q.nodes \in Seq(A)
    BY <1>4, <2>1
  <2>3. \A k : k \in 1..((h + 1) + 1) <=> k \in 1..(h + 1) \/ k = h + 2
    OBVIOUS
  <2>4. \A k \in 1..((h + 1) + 1) : q.nodes[k] = NodeAt(n, q.edges, k)
    BY <1>3, <1>4, <2>2, <2>3, Zenon
  <2>5. \A k \in DOMAIN q.nodes : q.nodes[k] \in B
    BY <2>2, <2>4, Zenon
  <2> HIDE DEF B
  <2>6. q.nodes \in Seq(B)
    BY <2>2, <2>5
  <2> QED BY <2>2, <2>4, <2>6 DEF B
<1>6. /\ q.branches \in Int /\ (h + 1 = 1 => q.branches = Others(n))
      /\ h + 1 > 1 => q.branches >= Others(n)
  <2>1. q.branches = p.branches + Others(NodeAt(n, p.edges, h + 1))
    <3>1. Last(p.nodes) = NodeAt(n, p.edges, h + 1)
      <4>1. h + 1 \in 1..(h + 1)
        OBVIOUS
      <4> QED BY <1>4, <4>1 DEF Last
    <3> QED BY <3>1, Zenon DEF OneFurther
  <2>2. Others(NodeAt(n, p.edges, h + 1)) \in Int /\ Others(NodeAt(n, p.edges, h + 1)) >= 0
    BY PredecessorsLead DEF CanFollow
  <2>3. Others(n) \in Int
    BY PredecessorsLead
  <2>4. h = 0 => NodeAt(n, p.edges, h + 1) = n
    BY DEF NodeAt
  <2> QED BY <2>1, <2>2, <2>3, <2>4 DEF Walked
<1> QED BY <1>2, <1>5, <1>6 DEF Walked
\* What a search starts from
LEMMA WalkedNowhere ==
  ASSUME NEW n
  PROVE  /\ Walked([nodes |-> <<n>>, edges |-> << >>, branches |-> 0], n, 0)
         /\ \A d : Trail(n, d, 0) => d = << >>
<1>1. << >> \in Seq(DOMAIN edges) /\ Len(<< >>) = 0
  OBVIOUS
<1>2. Trail(n, << >>, 0)
  BY <1>1 DEF Trail
<1>3. NodeAt(n, << >>, 1) = n
  BY DEF NodeAt
<1>4. <<n>> \in Seq({NodeAt(n, << >>, k) : k \in 1..(0 + 1)}) /\ Len(<<n>>) = 1
  BY <1>3
<1>5. \A k \in 1..(0 + 1) : <<n>>[k] = NodeAt(n, << >>, k)
  BY <1>3
<1>6. Walked([nodes |-> <<n>>, edges |-> << >>, branches |-> 0], n, 0)
  BY <1>2, <1>4, <1>5 DEF Walked
<1>7. \A d : Trail(n, d, 0) => d = << >>
  BY DEF Trail
<1> QED BY <1>6, <1>7

\* What the search finds at a hop are paths of as many edges
LEMMA HopsWalk ==
  ASSUME StatesInv, NEW n, NEW hop, Hops(hop, n), NEW h \in 0..MaxHops, NEW p \in hop[h]
  PROVE  Walked(p, n, h)
<1> DEFINE S == {k \in Nat : k <= MaxHops => \A q \in hop[k] : Walked(q, n, k)}
<1>1. 0 \in S
  <2>1. \A q \in hop[0] : Walked(q, n, 0)
    BY WalkedNowhere DEF Hops
  <2> QED BY <2>1
<1>2. ASSUME NEW k \in Nat, k < MaxHops, k \in S
      PROVE  k + 1 \in S
  <2>1. k + 1 \in 1..MaxHops /\ (k + 1) - 1 = k /\ k <= MaxHops
    BY <1>2, CallsAssumption
  <2>2. hop[k + 1] = UNION {Extensions(edges, q, Weights) : q \in hop[k]}
    BY <2>1, Zenon DEF Hops
  <2>3. ASSUME NEW r \in hop[k + 1]
        PROVE  Walked(r, n, k + 1)
    <3>1. PICK q \in hop[k] : r \in Extensions(edges, q, Weights)
      BY <2>2
    <3>2. Walked(q, n, k)
      BY <1>2, <2>1
    <3>3. PICK i \in DOMAIN edges : CanFollow(n, q.edges, k, i) /\ OneFurther(q, r, i)
      BY <3>1, <3>2, ExtensionsFollow
    <3> QED BY <3>2, <3>3, WalkedFurther
  <2> QED BY <2>3
<1>3. MaxHops \in Nat
  BY CallsAssumption
<1>4. 0..MaxHops \subseteq S
  <2> HIDE DEF S
  <2> QED BY <1>1, <1>2, <1>3, HopInduction
<1>5. h \in S /\ h <= MaxHops
  <2> HIDE DEF S
  <2> QED BY <1>3, <1>4
<1> QED BY <1>5

\* A trail without its last edge is one, which that edge can follow
LEMMA TrailFront ==
  ASSUME NEW n, NEW k \in Nat, NEW d, Trail(n, d, k + 1)
  PROVE  \E c \in Seq(DOMAIN edges) : \E i \in DOMAIN edges :
           d = Append(c, i) /\ Len(c) = k /\ Trail(n, c, k) /\ CanFollow(n, c, k, i)
<1> DEFINE c == SubSeq(d, 1, k)
           i == d[k + 1]
<1>1. d \in Seq(DOMAIN edges) /\ Len(d) = k + 1
  BY DEF Trail
<1>2. PICK D : D = DOMAIN edges
  OBVIOUS
<1>3. c \in Seq(D) /\ Len(c) = k /\ i \in D /\ d = Append(c, i)
  BY <1>1, <1>2
<1> HIDE DEF c, i
<1>4. Trail(n, c, k) /\ CanFollow(n, c, k, i)
  BY <1>2, <1>3, TrailFurther
<1> QED BY <1>2, <1>3, <1>4

\* And every trail of at most so many hops is found
LEMMA TrailsFound ==
  ASSUME StatesInv, NEW n, NEW hop, Hops(hop, n), NEW h \in 0..MaxHops, NEW d, Trail(n, d, h)
  PROVE  \E p \in hop[h] : p.edges = d
<1> DEFINE S == {k \in Nat : k <= MaxHops => \A c : Trail(n, c, k) => \E p \in hop[k] : p.edges = c}
<1>1. 0 \in S
  <2>1. PICK p : p = [nodes |-> <<n>>, edges |-> << >>, branches |-> 0]
    OBVIOUS
  <2>2. p \in hop[0] /\ p.edges = << >>
    BY <2>1 DEF Hops
  <2>3. \A c : Trail(n, c, 0) => c = << >>
    BY WalkedNowhere
  <2> QED BY <2>2, <2>3
<1>2. ASSUME NEW k \in Nat, k < MaxHops, k \in S
      PROVE  k + 1 \in S
  <2>1. k + 1 \in 1..MaxHops /\ (k + 1) - 1 = k /\ k <= MaxHops /\ k \in 0..MaxHops
    BY <1>2, CallsAssumption
  <2>2. hop[k + 1] = UNION {Extensions(edges, q, Weights) : q \in hop[k]}
    BY <2>1, Zenon DEF Hops
  <2>3. ASSUME NEW b, Trail(n, b, k + 1)
        PROVE  \E p \in hop[k + 1] : p.edges = b
    <3>1. PICK c \in Seq(DOMAIN edges), i \in DOMAIN edges :
            b = Append(c, i) /\ Len(c) = k /\ Trail(n, c, k) /\ CanFollow(n, c, k, i)
      BY <2>3, TrailFront
    <3>2. PICK p \in hop[k] : p.edges = c
      BY <1>2, <2>1, <3>1
    <3>3. Walked(p, n, k)
      BY <2>1, HopsWalk
    <3>4. PICK q \in Extensions(edges, p, Weights) : OneFurther(p, q, i)
      BY <3>1, <3>2, <3>3, ExtensionsFollow
    <3>5. q \in hop[k + 1]
      BY <2>2, <3>2
    <3>6. q.edges = b
      BY <3>1, <3>2, <3>4 DEF OneFurther
    <3> QED BY <3>5, <3>6
  <2> QED BY <2>3
<1>3. MaxHops \in Nat
  BY CallsAssumption
<1>4. 0..MaxHops \subseteq S
  <2> HIDE DEF S
  <2> QED BY <1>1, <1>2, <1>3, HopInduction
<1>5. h \in S /\ h <= MaxHops
  <2> HIDE DEF S
  <2> QED BY <1>3, <1>4
<1> QED BY <1>5

\* What causal_paths finds from n back: the trails of up to so many hops
LEMMA PathsWalk ==
  ASSUME StatesInv, NEW n
  PROVE  /\ \A p \in PathsTo(n) : \E h \in 1..MaxHops : Walked(p, n, h)
         /\ \A h \in 1..MaxHops : \A d : Trail(n, d, h) =>
              \E p \in PathsTo(n) : p.edges = d /\ Walked(p, n, h)
<1>1. PICK hop : Hops(hop, n) /\ PathsTo(n) = UNION {hop[h] : h \in 1..MaxHops}
  BY HopsMade
<1>2. \A h \in 1..MaxHops : h \in 0..MaxHops
  BY CallsAssumption
<1>3. ASSUME NEW p \in PathsTo(n)
      PROVE  \E h \in 1..MaxHops : Walked(p, n, h)
  <2>1. PICK h \in 1..MaxHops : p \in hop[h]
    BY <1>1
  <2> QED BY <1>1, <1>2, <2>1, HopsWalk
<1>4. ASSUME NEW h \in 1..MaxHops, NEW d, Trail(n, d, h)
      PROVE  \E p \in PathsTo(n) : p.edges = d /\ Walked(p, n, h)
  <2>1. PICK p \in hop[h] : p.edges = d
    BY <1>1, <1>2, <1>4, TrailsFound
  <2>2. Walked(p, n, h) /\ p \in PathsTo(n)
    BY <1>1, <1>2, HopsWalk
  <2> QED BY <2>1, <2>2
<1> QED BY <1>3, <1>4
\* Sources are told apart when there are as many as edges
LEMMA SourcesApart ==
  ASSUME NEW h \in Nat, NEW c, DOMAIN c = 1..h
  PROVE  Cardinality(Heads(c)) = h
           <=> \A j, k \in 1..h : edges[c[j]].source = edges[c[k]].source => j = k
<1> DEFINE f == [k \in 1..h |-> edges[c[k]].source]
<1>1. f \in Surjection(1..h, Heads(c))
  BY DEF Surjection, Heads
<1>2. IsFiniteSet(1..h) /\ Cardinality(1..h) = h
  BY FS_Interval
<1>3. Cardinality(Heads(c)) = h <=> f \in Injection(1..h, Heads(c))
  <2> HIDE DEF f
  <2> QED BY <1>1, <1>2, FS_Surjection
<1>4. f \in [1..h -> Heads(c)] /\ DOMAIN f = 1..h /\ \A k \in 1..h : f[k] = edges[c[k]].source
  BY <1>1 DEF Surjection
<1> HIDE DEF f
<1>5. f \in Injection(1..h, Heads(c)) <=> \A j, k \in 1..h : f[j] = f[k] => j = k
  BY <1>4, Zenon DEF Injection, IsInjective
<1>6. (\A j, k \in 1..h : f[j] = f[k] => j = k)
        <=> \A j, k \in 1..h : edges[c[j]].source = edges[c[k]].source => j = k
  BY <1>4
<1> QED BY <1>3, <1>5, <1>6

\* A sequence told in reverse
LEMMA ToldInReverse ==
  ASSUME NEW D, NEW h \in Nat, NEW d \in Seq(D), Len(d) = h
  PROVE  /\ Reverse(d) \in Seq(D) /\ Len(Reverse(d)) = h /\ DOMAIN Reverse(d) = 1..h
         /\ \A k \in 1..h : Reverse(d)[k] = d[h - k + 1] /\ d[k] = Reverse(d)[h - k + 1]
         /\ Reverse(Reverse(d)) = d
<1>1. Len(d) = h /\ d \in [1..h -> D]
  OBVIOUS
<1>2. PICK c : c = [k \in 1..h |-> d[h - k + 1]]
  OBVIOUS
<1>3. Reverse(d) = c
  BY <1>1, <1>2 DEF Reverse
<1>4. \A k \in 1..h : h - k + 1 \in 1..h /\ h - (h - k + 1) + 1 = k
  OBVIOUS
<1>5. \A k \in 1..h : c[k] = d[h - k + 1] /\ c[k] \in D /\ d[k] = c[h - k + 1]
  BY <1>1, <1>2, <1>4
<1>6. c \in Seq(D) /\ Len(c) = h /\ DOMAIN c = 1..h
  BY <1>2, <1>5
<1>7. Reverse(c) = [k \in 1..h |-> c[h - k + 1]]
  BY <1>6 DEF Reverse
<1>8. Reverse(c) = d
  <2>1. \A k \in 1..h : Reverse(c)[k] = d[k]
    BY <1>5, <1>7
  <2>2. DOMAIN Reverse(c) = 1..h /\ d = [k \in 1..h |-> d[k]]
        /\ Reverse(c) = [k \in 1..h |-> Reverse(c)[k]]
    BY <1>1, <1>7
  <2> QED BY <2>1, <2>2
<1> QED BY <1>3, <1>5, <1>6, <1>8

\* A trail told in reverse is a chain, and the other way round
LEMMA TrailsAreChains ==
  ASSUME StatesInv, NEW n, NEW h \in Nat \ {0}, NEW d \in Seq(DOMAIN edges), Len(d) = h
  PROVE  Trail(n, d, h) <=> (\A k \in 1..h : Causal(Reverse(d)[k])) /\ IsChain(n, Reverse(d))
<1>1. PICK c : c = Reverse(d)
  OBVIOUS
<1>2. /\ c \in Seq(DOMAIN edges) /\ Len(c) = h /\ DOMAIN c = 1..h
      /\ \A k \in 1..h : c[k] = d[h - k + 1] /\ d[k] = c[h - k + 1]
  BY <1>1, ToldInReverse
<1>3. \A k \in 1..h : c[k] \in DOMAIN edges /\ d[k] \in DOMAIN edges
  BY <1>2
<1>4. Last(c) = d[1] /\ 1 \in 1..h
  BY <1>2 DEF Last
<1>5. \A k \in 2..h : /\ k \in 1..h /\ k # 1 /\ k - 1 \in 1..h
                      /\ h - k + 1 \in 1..(h - 1) /\ h - (k - 1) + 1 = (h - k + 1) + 1
  OBVIOUS
<1>6. \A k \in 1..(h - 1) : /\ k \in 1..h /\ k + 1 \in 1..h
                            /\ h - k + 1 \in 2..h /\ h - (k + 1) + 1 = (h - k + 1) - 1
  OBVIOUS
<1>7. \A k \in 1..h : k = 1 \/ k \in 2..h
  OBVIOUS
<1>8. NodeAt(n, d, 1) = n /\ \A k \in 2..h : NodeAt(n, d, k) = edges[d[k - 1]].source
  BY <1>5 DEF NodeAt
<1>9. ASSUME NEW i \in DOMAIN edges, NEW x
      PROVE  LeadsTo(i, x) <=> Causal(i) /\ edges[i].target = Ref(x)
  <2>1. edges[i].target = Ref(x) => x \in ValueAsNode(edges[i].target)
    BY EdgeRead
  <2> QED BY <2>1 DEF LeadsTo, Causal
<1>10. (\A k \in 1..h : LeadsTo(d[k], NodeAt(n, d, k)))
         <=> /\ \A k \in 1..h : Causal(c[k])
             /\ \A k \in 1..(h - 1) : edges[c[k]].target = Ref(edges[c[k + 1]].source)
             /\ edges[Last(c)].target = Ref(n)
  <2>1. (\A k \in 1..h : LeadsTo(d[k], NodeAt(n, d, k)))
          <=> /\ \A k \in 1..h : Causal(d[k])
              /\ \A k \in 2..h : edges[d[k]].target = Ref(edges[d[k - 1]].source)
              /\ edges[d[1]].target = Ref(n)
    <3>1. \A k \in 1..h : LeadsTo(d[k], NodeAt(n, d, k))
                            <=> Causal(d[k]) /\ edges[d[k]].target = Ref(NodeAt(n, d, k))
      BY <1>3, <1>9
    <3>2. (\A k \in 1..h : edges[d[k]].target = Ref(NodeAt(n, d, k)))
            <=> /\ \A k \in 2..h : edges[d[k]].target = Ref(edges[d[k - 1]].source)
                /\ edges[d[1]].target = Ref(n)
      BY <1>4, <1>5, <1>7, <1>8
    <3> QED BY <3>1, <3>2
  <2>2. (\A k \in 1..h : Causal(d[k])) <=> \A k \in 1..h : Causal(c[k])
    <3>1. \A k \in 1..h : h - k + 1 \in 1..h
      OBVIOUS
    <3> QED BY <1>2, <3>1, Zenon
  <2>3. (\A k \in 2..h : edges[d[k]].target = Ref(edges[d[k - 1]].source))
          <=> \A k \in 1..(h - 1) : edges[c[k]].target = Ref(edges[c[k + 1]].source)
    <3>1. ASSUME NEW k \in 2..h
          PROVE  d[k] = c[h - k + 1] /\ d[k - 1] = c[(h - k + 1) + 1] /\ h - k + 1 \in 1..(h - 1)
      BY <1>2, <1>5
    <3>2. ASSUME NEW k \in 1..(h - 1)
          PROVE  c[k] = d[h - k + 1] /\ c[k + 1] = d[(h - k + 1) - 1] /\ h - k + 1 \in 2..h
      BY <1>2, <1>6
    <3> QED BY <3>1, <3>2
  <2> QED BY <1>4, <2>1, <2>2, <2>3, Zenon
<1>11. (\A k \in 1..h : k # 1 => StartOf(edges, d[k]) < StartOf(edges, d[k - 1]))
         <=> \A k \in 1..(h - 1) : StartOf(edges, c[k]) < StartOf(edges, c[k + 1])
  <2>1. (\A k \in 1..h : k # 1 => StartOf(edges, d[k]) < StartOf(edges, d[k - 1]))
          <=> \A k \in 2..h : StartOf(edges, d[k]) < StartOf(edges, d[k - 1])
    BY <1>5, <1>7, Zenon
  <2>2. (\A k \in 2..h : StartOf(edges, d[k]) < StartOf(edges, d[k - 1]))
          <=> \A k \in 1..(h - 1) : StartOf(edges, c[k]) < StartOf(edges, c[k + 1])
    <3>1. ASSUME NEW k \in 2..h
          PROVE  d[k] = c[h - k + 1] /\ d[k - 1] = c[(h - k + 1) + 1] /\ h - k + 1 \in 1..(h - 1)
      BY <1>2, <1>5
    <3>2. ASSUME NEW k \in 1..(h - 1)
          PROVE  c[k] = d[h - k + 1] /\ c[k + 1] = d[(h - k + 1) - 1] /\ h - k + 1 \in 2..h
      BY <1>2, <1>6
    <3> QED BY <3>1, <3>2
  <2> QED BY <2>1, <2>2, Zenon
<1>12. (\A j, k \in 1..(h + 1) : j < k => NodeAt(n, d, j) # NodeAt(n, d, k))
         <=> n \notin Heads(c) /\ Cardinality(Heads(c)) = h
  <2>1. Cardinality(Heads(c)) = h
          <=> \A j, k \in 1..h : edges[c[j]].source = edges[c[k]].source => j = k
    BY <1>2, SourcesApart
  <2>2. (\A j, k \in 1..h : edges[c[j]].source = edges[c[k]].source => j = k)
          <=> \A j, k \in 1..h : j < k => edges[d[j]].source # edges[d[k]].source
    <3>1. \A k \in 1..h : h - k + 1 \in 1..h
      OBVIOUS
    <3>2. \A j, k \in 1..h : j < k <=> h - k + 1 < h - j + 1
      OBVIOUS
    <3>3. \A j, k \in 1..h : j = k \/ j < k \/ k < j
      OBVIOUS
    <3>4. \A j, k \in 1..h : j < k => j # k
      OBVIOUS
    <3>5. \A j, k \in 1..h : h - k + 1 = h - j + 1 => j = k
      OBVIOUS
    <3>6. ASSUME \A j, k \in 1..h : edges[c[j]].source = edges[c[k]].source => j = k,
                 NEW j \in 1..h, NEW k \in 1..h, j < k
          PROVE  edges[d[j]].source # edges[d[k]].source
      BY <1>2, <3>1, <3>4, <3>5, <3>6
    <3>7. ASSUME \A j, k \in 1..h : j < k => edges[d[j]].source # edges[d[k]].source,
                 NEW j \in 1..h, NEW k \in 1..h, edges[c[j]].source = edges[c[k]].source
          PROVE  j = k
      <4>1. c[j] = d[h - j + 1] /\ c[k] = d[h - k + 1] /\ h - j + 1 \in 1..h /\ h - k + 1 \in 1..h
        BY <1>2, <3>1
      <4>2. ~(h - j + 1 < h - k + 1) /\ ~(h - k + 1 < h - j + 1)
        BY <3>7, <4>1
      <4> QED BY <4>2
    <3> QED BY <3>6, <3>7, Zenon
  <2>3. n \in Heads(c) <=> \E k \in 1..h : edges[d[k]].source = n
    <3>1. \A k \in 1..h : h - k + 1 \in 1..h
      OBVIOUS
    <3>2. n \in Heads(c) <=> \E k \in 1..h : edges[c[k]].source = n
      BY <1>2, Zenon DEF Heads
    <3> QED BY <1>2, <3>1, <3>2, Zenon
  <2>4. \A k \in 1..h : k + 1 \in 1..(h + 1) /\ NodeAt(n, d, k + 1) = edges[d[k]].source
    BY DEF NodeAt
  <2>5. \A k \in 1..(h + 1) : k = 1 \/ \E m \in 1..h : k = m + 1
    <3>1. \A k \in 1..(h + 1) : k = 1 \/ (k - 1 \in 1..h /\ k = (k - 1) + 1)
      OBVIOUS
    <3> QED BY <3>1
  <2>6. /\ 1 \in 1..(h + 1)
        /\ \A k \in 1..h : 1 < k + 1 /\ ~(k + 1 < 1)
        /\ \A j, k \in 1..h : j < k <=> j + 1 < k + 1
        /\ ~(1 < 1)
    OBVIOUS
  <2>7. (\A j, k \in 1..(h + 1) : j < k => NodeAt(n, d, j) # NodeAt(n, d, k))
          <=> /\ \A k \in 1..h : edges[d[k]].source # n
              /\ \A j, k \in 1..h : j < k => edges[d[j]].source # edges[d[k]].source
    <3>1. ASSUME \A j, k \in 1..(h + 1) : j < k => NodeAt(n, d, j) # NodeAt(n, d, k)
          PROVE  /\ \A k \in 1..h : edges[d[k]].source # n
                 /\ \A j, k \in 1..h : j < k => edges[d[j]].source # edges[d[k]].source
      BY <1>8, <2>4, <2>6, <3>1
    <3>2. ASSUME \A k \in 1..h : edges[d[k]].source # n,
                 \A j, k \in 1..h : j < k => edges[d[j]].source # edges[d[k]].source,
                 NEW j \in 1..(h + 1), NEW k \in 1..(h + 1), j < k
          PROVE  NodeAt(n, d, j) # NodeAt(n, d, k)
      <4>1. PICK b \in 1..h : k = b + 1 /\ NodeAt(n, d, k) = edges[d[b]].source
        <5>1. k # 1
          BY <3>2
        <5> QED BY <2>4, <2>5, <5>1, Zenon
      <4>2. CASE j = 1
        <5>1. NodeAt(n, d, j) = n
          BY <1>8, <4>2, Zenon
        <5> QED BY <3>2, <4>1, <5>1, Zenon
      <4>3. CASE j # 1
        <5>1. PICK a \in 1..h : j = a + 1 /\ NodeAt(n, d, j) = edges[d[a]].source
          BY <2>4, <2>5, <4>3, Zenon
        <5>2. a < b
          BY <3>2, <4>1, <5>1
        <5> QED BY <3>2, <4>1, <5>1, <5>2, Zenon
      <4> QED BY <4>2, <4>3
    <3> QED BY <3>1, <3>2, Zenon
  <2> QED BY <2>1, <2>2, <2>3, <2>7, Zenon
<1>13. IsChain(n, c)
         <=> /\ \A k \in 1..(h - 1) : StartOf(edges, c[k]) < StartOf(edges, c[k + 1])
             /\ \A k \in 1..(h - 1) : edges[c[k]].target = Ref(edges[c[k + 1]].source)
             /\ edges[Last(c)].target = Ref(n)
             /\ n \notin Heads(c) /\ Cardinality(Heads(c)) = h
  BY <1>2, Zenon DEF IsChain
<1>14. Trail(n, d, h)
         <=> /\ \A k \in 1..h : LeadsTo(d[k], NodeAt(n, d, k))
             /\ \A k \in 1..h : k # 1 => StartOf(edges, d[k]) < StartOf(edges, d[k - 1])
             /\ \A j, k \in 1..(h + 1) : j < k => NodeAt(n, d, j) # NodeAt(n, d, k)
  BY Zenon DEF Trail
<1> QED BY <1>1, <1>10, <1>11, <1>12, <1>13, <1>14, Zenon

\* The paths found are the chains there are
LEMMA PathsHold ==
  StatesInv => PathsAreChains
<1> SUFFICES ASSUME StatesInv, NEW n \in Asked
             PROVE  {Reverse(p.edges) : p \in PathsTo(n)} = Chains(n)
  BY DEF PathsAreChains
<1>1. ASSUME NEW p \in PathsTo(n)
      PROVE  Reverse(p.edges) \in Chains(n)
  <2>1. PICK h \in 1..MaxHops : Trail(n, p.edges, h)
    BY PathsWalk DEF Walked
  <2>2. h \in Nat \ {0}
    BY CallsAssumption
  <2>3. PICK c : c = Reverse(p.edges)
    OBVIOUS
  <2>4. p.edges \in Seq(DOMAIN edges) /\ Len(p.edges) = h
    BY <2>1 DEF Trail
  <2>5. (\A k \in 1..h : Causal(c[k])) /\ IsChain(n, c)
    BY <2>1, <2>2, <2>3, <2>4, TrailsAreChains
  <2>6. c \in Seq(DOMAIN edges) /\ Len(c) = h
    BY <2>2, <2>3, <2>4, ToldInReverse
  <2>7. c \in [1..h -> {i \in DOMAIN edges : Causal(i)}]
    BY <2>2, <2>5, <2>6
  <2> QED BY <2>3, <2>5, <2>7 DEF Chains
<1>2. ASSUME NEW c \in Chains(n)
      PROVE  \E p \in PathsTo(n) : c = Reverse(p.edges)
  <2>1. PICK h \in 1..MaxHops : c \in [1..h -> {i \in DOMAIN edges : Causal(i)}]
    BY DEF Chains
  <2>2. h \in Nat \ {0}
    BY CallsAssumption
  <2>3. c \in Seq(DOMAIN edges) /\ Len(c) = h /\ \A k \in 1..h : Causal(c[k])
    BY <2>1, <2>2
  <2>4. PICK d : d = Reverse(c)
    OBVIOUS
  <2>5. d \in Seq(DOMAIN edges) /\ Len(d) = h /\ Reverse(d) = c
    BY <2>2, <2>3, <2>4, ToldInReverse
  <2>6. IsChain(n, c)
    BY DEF Chains
  <2>7. Trail(n, d, h)
    BY <2>2, <2>3, <2>5, <2>6, TrailsAreChains
  <2>8. PICK p \in PathsTo(n) : p.edges = d
    BY <2>7, PathsWalk
  <2> QED BY <2>5, <2>8
<1> QED BY <1>1, <1>2

\* Whatever is added, upserted and ended, and in whatever order: causal_paths
\* finds exactly the chains of causal edges that lead to the effect, of at
\* most so many edges, each later than the one before, without a circle.
THEOREM PathsAreTheChains == CallsSpec => []PathsAreChains
<1>1. StoresInit => StatesInv
  BY DEF StoresInit, StatesInv, Kept
<1>2. StatesInv /\ [CallsNext]_storeVars => StatesInv'
  BY StatesStep
<1> QED BY <1>1, <1>2, PathsHold, PTL DEF CallsSpec

\* What a fold adds up
Added(s) == FoldLeft(LAMBDA x, y : x + y, 0, s)

\* The largest of some integers
LEMMA LargestIsMax ==
  ASSUME NEW S, NEW x \in S, \A y \in S : y \in Int /\ y <= x
  PROVE  Max(S) = x
<1>1. \A y \in S : x >= y
  OBVIOUS
<1>2. Max(S) \in S /\ \A y \in S : Max(S) >= y
  BY <1>1 DEF Max
<1>3. Max(S) >= x /\ Max(S) <= x /\ Max(S) \in Int /\ x \in Int
  BY <1>2
<1> QED BY <1>3

\* A fold adds one by one
LEMMA AddedSteps ==
  ASSUME NEW m \in Nat, NEW s, DOMAIN s = 1..m
  PROVE  \E u : u[0] = 0 /\ (\A k \in 1..m : u[k] = u[k - 1] + s[k]) /\ Added(s) = u[m]
<1> DEFINE F(f, t) == IF t = {} THEN 0 ELSE f[t \ {Max(t)}] + s[Max(t)]
           S == {k \in Nat : \E f : f = [t \in SUBSET (1..k) |-> F(f, t)]}
           fold == CHOOSE f : f = [t \in SUBSET (1..m) |-> F(f, t)]
<1> HIDE DEF fold
<1>1. 0 \in S
  <2> DEFINE f == [t \in SUBSET (1..0) |-> 0]
  <2>1. \A t \in SUBSET (1..0) : t = {}
    OBVIOUS
  <2>2. f = [t \in SUBSET (1..0) |-> F(f, t)]
    BY <2>1
  <2> HIDE DEF f, F
  <2> QED BY <2>2
<1>2. ASSUME NEW k \in Nat, k \in S
      PROVE  k + 1 \in S
  <2>1. PICK f : f = [t \in SUBSET (1..k) |-> F(f, t)]
    BY <1>2
  <2> DEFINE g == [t \in SUBSET (1..(k + 1)) |-> IF t \in SUBSET (1..k) THEN f[t] ELSE F(f, t)]
  <2>2. ASSUME NEW t \in SUBSET (1..(k + 1))
        PROVE  g[t] = F(g, t)
    <3>1. CASE t \in SUBSET (1..k)
      <4>1. f[t] = F(f, t)
        <5> HIDE DEF F
        <5> QED BY <2>1, <3>1
      <4>2. g[t] = f[t]
        BY <3>1
      <4>3. t \ {Max(t)} \in SUBSET (1..k) /\ t \ {Max(t)} \in SUBSET (1..(k + 1))
        BY <3>1
      <4>4. g[t \ {Max(t)}] = f[t \ {Max(t)}]
        BY <4>3
      <4> HIDE DEF g
      <4> QED BY <4>1, <4>2, <4>4
    <3>2. CASE t \notin SUBSET (1..k)
      <4>1. Max(t) = k + 1
        <5>1. k + 1 \in t /\ \A y \in t : y \in Int /\ y <= k + 1
          BY <3>2
        <5> QED BY <5>1, LargestIsMax
      <4>2. t \ {Max(t)} \in SUBSET (1..k) /\ t \ {Max(t)} \in SUBSET (1..(k + 1))
        BY <4>1
      <4>3. g[t \ {Max(t)}] = f[t \ {Max(t)}] /\ g[t] = F(f, t)
        BY <3>2, <4>2
      <4> HIDE DEF g
      <4> QED BY <4>3
    <3> QED BY <3>1, <3>2
  <2>3. g = [t \in SUBSET (1..(k + 1)) |-> F(g, t)]
    <3> HIDE DEF F
    <3>1. g = [t \in SUBSET (1..(k + 1)) |-> g[t]]
      OBVIOUS
    <3> HIDE DEF g
    <3> QED BY <2>2, <3>1
  <2> HIDE DEF g, F
  <2>4. k + 1 \in Nat
    OBVIOUS
  <2> QED BY <2>3, <2>4
<1>3. 0..m \subseteq S
  <2> HIDE DEF S
  <2> QED BY <1>1, <1>2, HopInduction
<1>4. fold = [t \in SUBSET (1..m) |-> F(fold, t)]
  <2>1. m \in S
    <3> HIDE DEF F, S
    <3> QED BY <1>3
  <2> HIDE DEF F
  <2>2. \E f : f = [t \in SUBSET (1..m) |-> F(f, t)]
    BY <2>1
  <2> QED BY <2>2, Zenon DEF fold
<1>5. Added(s) = fold[1..m]
  BY DEF Added, FoldLeft, MapThenFoldSet, fold
<1>6. \A t \in SUBSET (1..m) : fold[t] = F(fold, t)
  <2> HIDE DEF F
  <2> QED BY <1>4
<1> DEFINE u == [k \in 0..m |-> fold[1..k]]
<1>7. u[0] = 0
  <2>1. 1..0 = {} /\ {} \in SUBSET (1..m) /\ 0 \in 0..m
    OBVIOUS
  <2>2. fold[{}] = 0
    BY <1>6, <2>1
  <2> QED BY <2>1, <2>2
<1>8. ASSUME NEW k \in 1..m
      PROVE  u[k] = u[k - 1] + s[k]
  <2>1. Max(1..k) = k
    <3>1. k \in 1..k /\ \A y \in 1..k : y \in Int /\ y <= k
      OBVIOUS
    <3> QED BY <3>1 DEF Max
  <2>2. (1..k) \ {k} = 1..(k - 1) /\ 1..k # {} /\ 1..k \in SUBSET (1..m)
    OBVIOUS
  <2>3. fold[1..k] = fold[1..(k - 1)] + s[k]
    BY <1>6, <2>1, <2>2
  <2>4. k \in 0..m /\ k - 1 \in 0..m
    OBVIOUS
  <2> QED BY <2>3, <2>4
<1>9. u[m] = fold[1..m]
  OBVIOUS
<1> HIDE DEF u
<1> QED BY <1>5, <1>7, <1>8, <1>9

\* What naturals add up to, and what equal ones do
LEMMA AddedNaturals ==
  ASSUME NEW m \in Nat, NEW s, DOMAIN s = 1..m, \A k \in 1..m : s[k] \in Nat
  PROVE  /\ Added(s) \in Nat /\ (m = 0 => Added(s) = 0)
         /\ \A w \in Nat : (\A k \in 1..m : s[k] = w) => Added(s) = m * w
<1>1. PICK u : u[0] = 0 /\ (\A k \in 1..m : u[k] = u[k - 1] + s[k]) /\ Added(s) = u[m]
  BY AddedSteps
<1>2. Added(s) \in Nat
  <2> DEFINE S == {k \in Nat : k <= m => u[k] \in Nat}
  <2>1. 0 \in S
    BY <1>1
  <2>2. ASSUME NEW k \in Nat, k < m, k \in S
        PROVE  k + 1 \in S
    <3>1. k + 1 \in 1..m /\ (k + 1) - 1 = k /\ k <= m
      BY <2>2
    <3>2. u[k + 1] = u[k] + s[k + 1] /\ u[k] \in Nat /\ s[k + 1] \in Nat
      BY <1>1, <2>2, <3>1
    <3> QED BY <3>2
  <2>3. 0..m \subseteq S
    <3> HIDE DEF S
    <3> QED BY <2>1, <2>2, HopInduction
  <2> QED BY <1>1, <2>3
<1>3. ASSUME NEW w \in Nat, \A k \in 1..m : s[k] = w
      PROVE  Added(s) = m * w
  <2> DEFINE S == {k \in Nat : k <= m => u[k] = k * w}
  <2>1. 0 \in S
    BY <1>1
  <2>2. ASSUME NEW k \in Nat, k < m, k \in S
        PROVE  k + 1 \in S
    <3>1. k + 1 \in 1..m /\ (k + 1) - 1 = k /\ k <= m
      BY <2>2
    <3>2. u[k + 1] = u[k] + w /\ u[k] = k * w
      BY <1>1, <1>3, <2>2, <3>1
    <3>3. k * w + w = (k + 1) * w
      OBVIOUS
    <3> QED BY <3>2, <3>3
  <2>3. 0..m \subseteq S
    <3> HIDE DEF S
    <3> QED BY <2>1, <2>2, HopInduction
  <2> QED BY <1>1, <2>3
<1> QED BY <1>1, <1>2, <1>3

\* One weight alone
LEMMA OneWeight ==
  ASSUME Cardinality({Weights[l] : l \in DOMAIN Weights}) = 1
  PROVE  \E w \in Nat : \A l \in DOMAIN Weights : Weights[l] = w
<1> DEFINE W == {Weights[l] : l \in DOMAIN Weights}
<1>1. IsFiniteSet(W)
  <2>1. [l \in DOMAIN Weights |-> Weights[l]] \in Surjection(DOMAIN Weights, W)
    BY DEF Surjection
  <2>2. IsFiniteSet(DOMAIN Weights)
    BY CallsAssumption
  <2> HIDE DEF W
  <2> QED BY <2>1, <2>2, FS_Surjection
<1>2. PICK w : W = {w}
  <2> HIDE DEF W
  <2>1. Cardinality(W) = 1
    BY DEF W
  <2> QED BY <1>1, <2>1, FS_Singleton
<1>3. w \in W
  BY <1>2
<1>4. w \in Nat
  BY <1>3, CallsAssumption
<1>5. \A l \in DOMAIN Weights : Weights[l] = w
  BY <1>2
<1> QED BY <1>4, <1>5

\* What a finished path is computed from, when all weights are the same
LEMMA FinishedRead ==
  ASSUME StatesInv, NEW w \in Nat, \A l \in DOMAIN Weights : Weights[l] = w,
         NEW n, NEW h \in Nat \ {0}, NEW p, Walked(p, n, h)
  PROVE  LET f == Finalized(edges, p, Weights)
         IN  /\ f.weight[1] = h * w /\ f.weight[2] = h
             /\ f.total_gap \in Nat /\ (h = 1 => f.total_gap = 0)
             /\ f.divergent_branches = p.branches
             /\ Len(f.nodes) = h + 1
<1> DEFINE f == Finalized(edges, p, Weights)
           c == Reverse(p.edges)
           ws == [k \in DOMAIN c |-> Weights[edges[c[k]].label]]
           gaps == [k \in 1..(Len(c) - 1) |->
                     LET d == StartOf(edges, c[k + 1]) - StartOf(edges, c[k])
                     IN  IF d < 0 THEN -d ELSE d]
<1>1. /\ f.weight = <<Added(ws), Len(c)>> /\ f.total_gap = Added(gaps)
      /\ f.divergent_branches = p.branches /\ f.nodes = Reverse(p.nodes)
  BY DEF Finalized, Added
<1>2. p.edges \in Seq(DOMAIN edges) /\ Len(p.edges) = h
      /\ \A k \in 1..h : LeadsTo(p.edges[k], NodeAt(n, p.edges, k))
  BY DEF Walked, Trail
<1>3. c \in Seq(DOMAIN edges) /\ Len(c) = h /\ DOMAIN c = 1..h
      /\ \A k \in 1..h : c[k] = p.edges[h - k + 1]
  BY <1>2, ToldInReverse
<1>4. \A k \in 1..h : c[k] \in DOMAIN edges /\ edges[c[k]].label \in DOMAIN Weights
  <2>1. \A k \in 1..h : h - k + 1 \in 1..h
    OBVIOUS
  <2> QED BY <1>2, <1>3, <2>1 DEF LeadsTo
<1> HIDE DEF c
<1>5. Added(ws) = h * w
  <2>1. DOMAIN ws = 1..h /\ \A k \in 1..h : ws[k] = w
    BY <1>3, <1>4
  <2> HIDE DEF ws
  <2> QED BY <2>1, AddedNaturals
<1>6. Added(gaps) \in Nat /\ (h = 1 => Added(gaps) = 0)
  <2>1. h - 1 \in Nat /\ DOMAIN gaps = 1..(h - 1)
    BY <1>3
  <2>2. ASSUME NEW k \in 1..(h - 1)
        PROVE  gaps[k] \in Nat
    <3>1. k \in 1..h /\ k + 1 \in 1..h
      OBVIOUS
    <3>2. StartOf(edges, c[k]) \in Int /\ StartOf(edges, c[k + 1]) \in Int
      BY <1>4, <3>1, EdgeRead DEF StartOf
    <3> QED BY <1>3, <3>2
  <2> HIDE DEF gaps
  <2>3. h = 1 => h - 1 = 0
    OBVIOUS
  <2> QED BY <2>1, <2>2, <2>3, AddedNaturals
<1>7. Len(Reverse(p.nodes)) = h + 1
  <2>1. Len(p.nodes) = h + 1
    BY DEF Walked
  <2> QED BY <2>1 DEF Reverse
<1> HIDE DEF f, ws, gaps
<1>8. /\ f.weight[1] = h * w /\ f.weight[2] = h
      /\ f.total_gap \in Nat /\ (h = 1 => f.total_gap = 0)
      /\ f.divergent_branches = p.branches
      /\ Len(f.nodes) = h + 1
  BY <1>1, <1>3, <1>5, <1>6, <1>7
<1> QED BY <1>8 DEF f

\* A path of one hop is at least as clean as any other from the same effect
LEMMA OneHopCleanest ==
  ASSUME StatesInv, NEW w \in Nat, \A l \in DOMAIN Weights : Weights[l] = w,
         NEW n, NEW h \in Nat \ {0}, NEW p, Walked(p, n, h), NEW q, Walked(q, n, 1)
  PROVE  /\ AtLeastAsClean(Finalized(edges, q, Weights), Finalized(edges, p, Weights))
         /\ Len(Finalized(edges, q, Weights).nodes) = 2
<1>1. PICK f : f = Finalized(edges, p, Weights)
  OBVIOUS
<1>2. PICK g : g = Finalized(edges, q, Weights)
  OBVIOUS
<1>3. /\ f.weight[1] = h * w /\ f.weight[2] = h /\ f.total_gap \in Nat
      /\ f.divergent_branches = p.branches
  BY <1>1, FinishedRead
<1>4. /\ g.weight[1] = 1 * w /\ g.weight[2] = 1 /\ g.total_gap = 0
      /\ g.divergent_branches = q.branches /\ Len(g.nodes) = 1 + 1
  <2>1. PICK k \in Nat \ {0} : k = 1
    OBVIOUS
  <2>2. Walked(q, n, k)
    BY <2>1
  <2>3. /\ g.weight[1] = k * w /\ g.weight[2] = k /\ (k = 1 => g.total_gap = 0)
        /\ g.divergent_branches = q.branches /\ Len(g.nodes) = k + 1
    BY <1>2, <2>2, FinishedRead
  <2> QED BY <2>1, <2>3
<1>5. /\ p.branches \in Int /\ (h = 1 => p.branches = Others(n)) /\ (h > 1 => p.branches >= Others(n))
      /\ q.branches = Others(n)
  BY DEF Walked
<1>6. h = 1 \/ h > 1
  OBVIOUS
<1>7. q.branches <= p.branches
  BY <1>5, <1>6
<1>8. (1 * w) * h >= (h * w) * 1
  <2>1. h * w = w * h /\ h * w \in Nat
    OBVIOUS
  <2> QED BY <2>1
<1> QED BY <1>1, <1>2, <1>3, <1>4, <1>7, <1>8 DEF AtLeastAsClean

\* The last step of a path is a path
LEMMA LastStep ==
  ASSUME StatesInv, NEW n, NEW h \in 1..MaxHops, NEW p, Walked(p, n, h)
  PROVE  \E q \in PathsTo(n) : q.edges = <<p.edges[1]>> /\ Walked(q, n, 1)
<1>1. /\ p.edges \in Seq(DOMAIN edges) /\ Len(p.edges) = h
      /\ \A k \in 1..h : LeadsTo(p.edges[k], NodeAt(n, p.edges, k))
      /\ \A j, k \in 1..(h + 1) : j < k => NodeAt(n, p.edges, j) # NodeAt(n, p.edges, k)
  BY DEF Walked, Trail
<1>2. h \in Nat /\ 1 \in 1..h /\ 1 \in 1..MaxHops /\ 1 \in 1..(h + 1) /\ 2 \in 1..(h + 1)
  BY CallsAssumption
<1>3. PICK i \in DOMAIN edges : i = p.edges[1]
  BY <1>1, <1>2
<1>4. LeadsTo(i, n) /\ edges[i].source # n
  <2>1. NodeAt(n, p.edges, 1) = n /\ NodeAt(n, p.edges, 2) = edges[i].source
    BY <1>3 DEF NodeAt
  <2> QED BY <1>1, <1>2, <1>3, <2>1
<1>5. Trail(n, << >>, 0)
  BY WalkedNowhere DEF Walked
<1>6. CanFollow(n, << >>, 0, i)
  <2>1. NodeAt(n, << >>, 1) = n
    BY DEF NodeAt
  <2> QED BY <1>4, <2>1 DEF CanFollow
<1>7. << >> \in Seq(DOMAIN edges) /\ Len(<< >>) = 0 /\ Append(<< >>, i) = <<i>>
  OBVIOUS
<1>8. Trail(n, <<i>>, 1)
  <2>1. Trail(n, Append(<< >>, i), 0 + 1)
    BY <1>5, <1>6, <1>7, TrailFurther
  <2> QED BY <1>7, <2>1
<1> QED BY <1>2, <1>3, <1>8, PathsWalk

\* Short paths are among the cleanest
LEMMA ShortPathsHold ==
  StatesInv => ShortPathsOutrank
<1> SUFFICES ASSUME StatesInv, Cardinality({Weights[l] : l \in DOMAIN Weights}) = 1, NEW n \in Asked
             PROVE  /\ \A p \in PathsTo(n) :
                         \E q \in PathsTo(n) :
                           /\ Len(q.edges) = 1 /\ q.edges[1] = p.edges[1]
                           /\ AtLeastAsClean(Finalized(edges, q, Weights), Finalized(edges, p, Weights))
                    /\ PathsTo(n) # {} =>
                         \E q \in Cleanest(edges, n, MaxHops, Weights) : Len(q.nodes) = 2
  BY DEF ShortPathsOutrank
<1>1. PICK w \in Nat : \A l \in DOMAIN Weights : Weights[l] = w
  BY OneWeight
<1>2. ASSUME NEW p \in PathsTo(n)
      PROVE  \E q \in PathsTo(n) :
               /\ Len(q.edges) = 1 /\ q.edges[1] = p.edges[1]
               /\ AtLeastAsClean(Finalized(edges, q, Weights), Finalized(edges, p, Weights))
  <2>1. PICK h \in 1..MaxHops : Walked(p, n, h)
    BY PathsWalk
  <2>2. h \in Nat \ {0}
    BY CallsAssumption
  <2>3. PICK q \in PathsTo(n) : q.edges = <<p.edges[1]>> /\ Walked(q, n, 1)
    BY <2>1, LastStep
  <2>4. Len(q.edges) = 1 /\ q.edges[1] = p.edges[1]
    BY <2>3
  <2> QED BY <1>1, <2>1, <2>2, <2>3, <2>4, OneHopCleanest
<1>3. ASSUME PathsTo(n) # {}
      PROVE  \E q \in Cleanest(edges, n, MaxHops, Weights) : Len(q.nodes) = 2
  <2>1. PICK p \in PathsTo(n) : TRUE
    BY <1>3
  <2>2. PICK h \in 1..MaxHops : Walked(p, n, h)
    BY PathsWalk
  <2>3. PICK q \in PathsTo(n) : Walked(q, n, 1)
    BY <2>2, LastStep
  <2>4. PICK f : f = Finalized(edges, q, Weights)
    OBVIOUS
  <2>5. ASSUME NEW r \in PathsTo(n)
        PROVE  AtLeastAsClean(f, Finalized(edges, r, Weights)) /\ Len(f.nodes) = 2
    <3>1. PICK k \in 1..MaxHops : Walked(r, n, k)
      BY PathsWalk
    <3>2. k \in Nat \ {0}
      BY CallsAssumption
    <3> QED BY <1>1, <2>3, <2>4, <3>1, <3>2, OneHopCleanest
  <2>6. f \in Cleanest(edges, n, MaxHops, Weights)
    BY <2>3, <2>4, <2>5, Zenon DEF Cleanest, PathsTo
  <2> QED BY <2>1, <2>5, <2>6
<1> QED BY <1>2, <1>3

\* Whatever is added, upserted and ended: when all causal labels weigh the
\* same, a path's last step alone is at least as clean as it, so one edge is
\* enough to decide how surprising an event is.
THEOREM ShortPathsAreCleanest == CallsSpec => []ShortPathsOutrank
<1>1. StoresInit => StatesInv
  BY DEF StoresInit, StatesInv, Kept
<1>2. StatesInv /\ [CallsNext]_storeVars => StatesInv'
  BY StatesStep
<1> QED BY <1>1, <1>2, ShortPathsHold, PTL DEF CallsSpec
=============================================================================
