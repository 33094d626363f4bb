------------------------------ MODULE MCOrdered ------------------------------
(***************************************************************************)
(* Consumer on events of two people: someone enters, is hosted,            *)
(* is harmed, leaves.  The event of time t is the node Ev[t], with an      *)
(* eventType edge and attribute edges, as the repository's tests build it. *)
(***************************************************************************)
EXTENDS Consumer

Ev     == <<"e1", "e2", "e3", "e4", "e5">>
People == {"ann", "bob"}

MCNodes == People \cup {Ev[t] : t \in DOMAIN Ev}

Fact(x, l, y, t) == [source |-> x, label |-> l, target |-> y, interval |-> Open(t)]

Solo(t, kind, who) ==
  <<Fact(Ev[t], "eventType", kind, t), Fact(Ev[t], "actor", who, t)>>

Deed(t, kind, who, whom) == Append(Solo(t, kind, who), Fact(Ev[t], "target", whom, t))

EventStage(a, kind, who) ==
  Stage(a, <<Clause(a, "eventType", Literal(kind)), Clause(a, "actor", Bind(who))>>)

DeedStage(a, kind, who, whom) ==
  Stage(a, Append(EventStage(a, kind, who).clauses, Clause(a, "target", Bind(whom))))

Leaves(who) == <<Clause("m", "eventType", Literal("leave")), Clause("m", "actor", Bind(who))>>

Raised == <<Clause("m", "alarm", Literal("raised"))>>

\* violation of hospitality: enter, host, harm unless the guest left or an alarm
\* was raised in between
Hospitality ==
  [Plain("hospitality",
         <<EventStage("e1", "enter", "guest"), DeedStage("e2", "host", "host", "guest"),
           DeedStage("e3", "harm", "host", "guest")>>)
   EXCEPT !.negations = {Unless("e1", {"e3"}, Leaves("guest")), Unless("e1", {"e3"}, Raised)}]

\* enter then harmed by anyone, unless the guest ever leaves after entering
Unsafe ==
  [Plain("unsafe", <<EventStage("f1", "enter", "guest"), DeedStage("f2", "harm", "who", "guest")>>)
   EXCEPT !.negations = {Unless("f1", {}, Leaves("guest"))}]

\* host and enter in either order, then leave
Visit ==
  [Plain("visit", <<EventStage("v1", "enter", "guest"), DeedStage("v2", "host", "host", "guest"),
                    EventStage("v3", "leave", "guest")>>)
   EXCEPT !.unordered_groups = {{1, 2}}]

\* entering when not wanted at the time
Quiet ==
  Plain("quiet", <<Stage("q1", <<Clause("q1", "eventType", Literal("enter")),
                                 Clause("q1", "actor", Bind("guest")),
                                 NotClause("guest", "name", Literal("wanted"))>>)>>)

\* two or more arrivals of the same person
Habit ==
  [Plain("habit", <<EventStage("h1", "enter", "guest"), EventStage("h2", "enter", "guest")>>)
   EXCEPT !.repeat_range = {[ stage_start |-> 2, stage_end |-> 3, min_reps |-> 2,
                              max_reps |-> {}, shared_vars |-> {"guest"} ]}]

MCLibrary == <<Hospitality, Unsafe, Visit, Quiet, Habit>>

\* bob becomes a wanted man and enters
Wanted(t) == <<Fact("bob", "name", "wanted", t)>> \o Solo(t, "enter", "bob")

\* an event during which an alarm is raised: at the instant a window begins, at
\* one inside it, at the one that ends it
Alarming(es) == Append(es, [es[1] EXCEPT !.label = "alarm", !.target = "raised"])

MCBatches ==
  UNION {{Alarming(Solo(t, "enter", "ann")), Alarming(Deed(t, "host", "bob", "ann")),
          Alarming(Deed(t, "harm", "bob", "ann"))} : t \in 1..5} \cup
  {Wanted(t) : t \in 1..5} \cup
  UNION {{Solo(t, "enter", who) : who \in People} \cup {Solo(t, "leave", who) : who \in People}
         \cup {Deed(t, kind, p[1], p[2]) : kind \in {"host", "harm"},
                                           p \in {q \in People \X People : q[1] # q[2]}}
         : t \in 1..5}

\* What the theorems ask of it
ASSUME AsTheoremsAsk == UniqueNames /\ BlockLibrary /\ AnchoredLibrary /\ OneEventEach
                         /\ EventVocabulary /\ StepwiseLibrary /\ LastingLibrary
=============================================================================
