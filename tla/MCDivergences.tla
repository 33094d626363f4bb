---------------------------- MODULE MCDivergences ----------------------------
(***************************************************************************)
(* Patterns on which the program does not do what its documentation says.  *)
(* Each configuration takes one library and checks one statement.          *)
(***************************************************************************)
EXTENDS OrderedDelivery

Ev     == <<"e1", "e2", "e3", "e4">>
People == {"ann", "bob"}

MCNodes == People \cup {Ev[t] : t \in DOMAIN Ev}

Fact(x, label, value, t) == [source |-> x, label |-> label, target |-> value, interval |-> Open(t)]

\* An event of one edge
Mark(t, label, who) == <<Fact(Ev[t], label, who, t)>>

\* An event of a kind with an actor
Deed(t, kind, who) == <<Fact(Ev[t], "eventType", kind, t), Fact(Ev[t], "actor", who, t)>>

MarkStage(a, label, who) == Stage(a, <<Clause(a, label, Bind(who))>>)

DeedClauses(a, kind, who) ==
  <<Clause(a, "eventType", Literal(kind)), Clause(a, "actor", Bind(who))>>

DeedStage(a, kind, who) == Stage(a, DeedClauses(a, kind, who))

Marks(labels) == {Mark(t, l, who) : t \in DOMAIN Ev, l \in labels, who \in People}
Deeds(kinds)  == {Deed(t, k, who) : t \in DOMAIN Ev, k \in kinds, who \in People}

\* A promise and its breach by the same person, each event a single edge
JoinLibrary == <<Plain("perjury", <<MarkStage("p", "promise", "who"), MarkStage("b", "breach", "who")>>)>>
JoinBatches == Marks({"promise", "breach"})

\* A gun hung by one, fired by another
GunLibrary == <<Plain("gun_hung", <<DeedStage("h", "hang", "who"), DeedStage("t", "take", "who")>>),
                Plain("gun_fired", <<DeedStage("f", "fire", "who")>>)>>
GunBatches == Deeds({"hang", "fire"})

\* closeness() is the fraction of clauses that matched, 1 for a full match.
ClosenessOfMatch ==
  \A i \in DOMAIN Library :
    EvaluatePattern(graph, Library[i], now) # {} =>
      \A gap \in WhyNot(graph, Library, Library[i].name, now) :
        Closeness(gap)[1] = Closeness(gap)[2]
=============================================================================
