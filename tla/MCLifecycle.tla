----------------------------- MODULE MCLifecycle -----------------------------
(***************************************************************************)
(* SiftEngine with every operation of its caller, in any order, on two     *)
(* alternatives of an exclusive group that go by the same name, a disjoint *)
(* pair in any order, a gap that some completions exceed, and edges        *)
(* notified out of order.                                                  *)
(***************************************************************************)
EXTENDS SiftEngine, Composition

MCNodes == {"a1", "b2", "b3", "ann"}

Fact(x, l, y, interval) == [source |-> x, label |-> l, target |-> y, interval |-> interval]

Step(a, l, who) == Stage(a, <<Clause(a, l, Bind(who))>>)

Duel  == [Plain(<<"duel">>, <<Step("d1", "defy", "who"), Step("d2", "strike", "who")>>)
          EXCEPT !.deadline_ticks = {1}, !.advance_in_place = TRUE]

\* The strike follows at once: a later one completes the pair and is rejected
AtOnce == [left |-> "t2", relation |-> "Before", right |-> "t1",
           gap |-> {[min |-> {}, max |-> {0}]}]

Truce == [Plain(<<"duel">>, <<Step("t1", "strike", "who"), Step("t2", "defy", "who")>>)
          EXCEPT !.unordered_groups = {{1, 2}}, !.temporal = {AtOnce},
                 !.inactivity_threshold = {1}, !.private = TRUE,
                 !.negations = {Unless("t1", {}, <<Clause("n", "strike", Bind("who"))>>)}]

MCLibrary == ChoiceOf(<<"outcome">>, <<Duel, Truce>>, TRUE)

\* What the theorems ask of it
ASSUME AsTheoremsAsk == BlockLibrary /\ AnchoredLibrary

MCBatches == { <<Fact("a1", "defy", "ann", Bounded(1, 2))>>,
               <<Fact("b2", "strike", "ann", Open(2))>>,
               <<Fact("b3", "strike", "ann", Open(3))>> }
=============================================================================
