----------------------------- MODULE MCGameLoop -----------------------------
(***************************************************************************)
(* GameLoop on a pattern with a deadline whose middle stage may repeat, a  *)
(* pattern with an inactivity threshold, and a private pattern.            *)
(***************************************************************************)
EXTENDS StoryLoop

MCNodes == {"v1", "v2", "v3", "ann"}

Fact(x, label, who, t) == [source |-> x, label |-> label, target |-> who, interval |-> Open(t)]

DeedStage(a, label, who) == Stage(a, <<Clause(a, label, Bind(who))>>)

\* an oath, then at least two deeds: a loop on the last stage
Quest == [Plain("quest_open", <<DeedStage("q1", "deed", "who"), DeedStage("q2", "deed", "who")>>)
          EXCEPT !.deadline_ticks = {2},
                 !.repeat_range = {[ stage_start |-> 2, stage_end |-> 3, min_reps |-> 2,
                                     max_reps |-> {}, shared_vars |-> {"who"} ]}]

Feud  == [Plain("feud", <<DeedStage("f1", "deed", "who"), DeedStage("f2", "wrong", "who")>>)
          EXCEPT !.inactivity_threshold = {2}, !.private = TRUE,
                 !.negations = {Unless("f1", {"f2"}, <<Clause("n", "deed", Bind("who"))>>)}]

\* the end of a quest
Home == Plain("quest_close", <<DeedStage("h1", "wrong", "who")>>)

MCLibrary == <<Quest, Feud, Home>>

MCPairs == {[plant |-> 1, payoff |-> 2, shared_binding |-> {"who"}],
            [plant |-> 1, payoff |-> 3, shared_binding |-> {}]}

MCThreads == <<[name |-> "quest", open |-> "quest_open", close |-> "quest_close"]>>

MCBatches == { <<Fact("v1", "deed", "ann", 1)>>, <<Fact("v2", "deed", "ann", 2)>>,
               <<Fact("v3", "wrong", "ann", 3)>> }

\* What TheScoreTells asks for
ASSUME AsTheoremsAsk == UniqueNames
=============================================================================
