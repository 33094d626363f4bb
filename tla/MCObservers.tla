----------------------------- MODULE MCObservers ----------------------------
(***************************************************************************)
(* Observers with two threads, two event types, two properties in two      *)
(* roles, and three patterns of which two share a name.                    *)
(***************************************************************************)
EXTENDS Observers

MCThreads == << [name |-> "feud", open |-> "feud_open", close |-> "feud_close"],
                [name |-> "quest", open |-> "quest_open", close |-> "quest_close"] >>

MCDeltas == {[advanced |-> {"feud_open"}, completed |-> {"quest_close"}],
             [advanced |-> {"quest_open", "feud_open"}, completed |-> {}],
             [advanced |-> {"feud_close"}, completed |-> {"feud_close", "quest_close"}]}

MCMatchFacts ==
  [pattern : {"feud"}, role : {"lord", "serf"},
   props : {<< >>, <<"armed">>, <<"armed", "armed">>, <<"rich">>, <<"armed", "rich">>}]

MCPatternNames == <<"feud", "quest", "feud">>

MCRounds == {<< >>, <<"feud">>, <<"quest", "quest">>, <<"feud", "quest">>, <<"quest", "other">>}
=============================================================================
