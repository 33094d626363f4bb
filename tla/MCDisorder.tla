----------------------------- MODULE MCDisorder -----------------------------
(***************************************************************************)
(* SiftEngine on edges inserted and notified in any order, duplicates      *)
(* included, for two people: a challenge whose first two stages come in    *)
(* any order and whose third looks an attribute up, and a grudge whose     *)
(* last two stages repeat.                                                 *)
(***************************************************************************)
EXTENDS SiftEngine

MCNodes == {"v1", "v2", "v3", "ann", "bob"}

Fact(x, label, value, t) == [source |-> x, label |-> label, target |-> value, interval |-> Open(t)]

MarkStage(a, label, who) == Stage(a, <<Clause(a, label, Bind(who))>>)

Challenge ==
  [Plain("challenge",
         <<MarkStage("d", "defy", "who"), MarkStage("s", "strike", "who"),
           Stage("y", <<Clause("y", "eventType", Literal("yield")), Clause("y", "actor", Bind("who"))>>)>>)
   EXCEPT !.unordered_groups = {{1, 2}}]

\* A defiance, then two or three rounds of a strike by the same person and
\* one by anyone
Grudge ==
  [Plain("grudge", <<MarkStage("g1", "defy", "who"), MarkStage("g2", "strike", "who"),
                     MarkStage("g3", "strike", "foe")>>)
   EXCEPT !.repeat_range = {[ stage_start |-> 2, stage_end |-> 4, min_reps |-> 2,
                              max_reps |-> {3}, shared_vars |-> {"who"} ]}]

MCLibrary == <<Challenge, Grudge>>

\* What the theorems ask of it
ASSUME AsTheoremsAsk == UniqueNames /\ BlockLibrary /\ AnchoredLibrary

\* The actor of v3 may be known late, and of two people
MCBatches ==
  { <<Fact("v1", "defy", "ann", 1)>>, <<Fact("v2", "strike", "ann", 2)>>,
    <<Fact("v2", "strike", "bob", 2)>>, <<Fact("v3", "strike", "ann", 3)>>,
    <<Fact("v3", "eventType", "yield", 3), Fact("v3", "actor", "ann", 3)>>,
    <<Fact("v3", "actor", "bob", 3)>>, <<Fact("v3", "defy", "ann", 3)>> }

\* Only the stream of edges
StreamNext ==
  \/ Register
  \/ \E es \in Batches : Insert(es)
  \/ \E i \in DOMAIN graph : Notify(i)

StreamSpec == Init /\ [][StreamNext]_vars
=============================================================================
