------------------------------ MODULE MCCompose ------------------------------
(***************************************************************************)
(* ComposedDelivery on promises and broken promises of two people.  An     *)
(* offense is a promise and then its breach by the same person.            *)
(***************************************************************************)
EXTENDS ComposedDelivery

Ev     == <<"e1", "e2", "e3", "e4", "e5", "e6", "e7">>
People == {"ann", "bob"}

MCNodes == People \cup {Ev[t] : t \in DOMAIN Ev}

Fact(t, label, value) == [source |-> Ev[t], label |-> label, target |-> value, interval |-> Open(t)]

Deed(t, kind, who) == <<Fact(t, "eventType", kind), Fact(t, "actor", who)>>

MCBatches == {Deed(t, kind, who) : t \in DOMAIN Ev, kind \in {"promise", "breach"}, who \in People}

DeedStage(a, kind, who) ==
  Stage(<<a>>, <<Clause(<<a>>, "eventType", Literal(kind)), Clause(<<a>>, "actor", Bind(<<who>>))>>)

Oath    == Plain(<<"oath">>, <<DeedStage("e", "promise", "who")>>)
Perjury == Plain(<<"perjury">>, <<DeedStage("e", "promise", "who"), DeedStage("f", "breach", "who")>>)

\* a promise and a breach by the same person, in either order
Wavering == [Perjury EXCEPT !.name = <<"wavering">>, !.unordered_groups = {{1, 2}}]

MCShared == {<<"who">>}

\* What the theorems ask of it
ASSUME AsTheoremsAsk ==
  /\ BlockLibrary /\ AnchoredLibrary /\ OneEventEach /\ EventVocabulary
  /\ StepwiseLibrary /\ LastingLibrary /\ SequenceAsked /\ RepeatAsked
=============================================================================
