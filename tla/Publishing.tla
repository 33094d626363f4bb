----------------------------- MODULE Publishing -----------------------------
(***************************************************************************)
(* Where the patterns that are emitted come from: a discovery session or   *)
(* an author.  Either works, or the other.                                 *)
(***************************************************************************)
EXTENDS Authoring, Discovery

vars == <<authoringVars, discoveryVars>>

Init == AuthoringInit /\ DiscoveryInit

AtDesk == declared.all > 0 \/ document # << >>

Author == ~Started /\ corpus = << >> /\ ~miner.minerful /\ AuthoringNext /\ UNCHANGED discoveryVars

Discover == ~AtDesk /\ asked = Importance(NewPattern("p"), 1) /\ DiscoveryNext /\ UNCHANGED authoringVars

Next == Author \/ Discover

Spec == Init /\ [][Next]_vars

-----------------------------------------------------------------------------
\* A mined pattern as the builder's; its name is written with underscores
AsWritten(p, name) ==
  LET Target0(t) == ToVar(t.var)
      Clause0(c) == EdgeTo(c.source, c.label, Target0(c.target))
  IN  [ NewPattern(name) EXCEPT
        !.stages = Each(LAMBDA s : StageOf(s.anchor, Each(Clause0, s.clauses)), p.stages),
        !.temporal = SetToSeq(p.temporal) ]

(***************************************************************************)
(* What is emitted reads back as the pattern it was, washed of what the    *)
(* text cannot say and in nothing else changed: for whatever the compiler  *)
(* took from an author, for whatever is mined, and, when the builder was   *)
(* asked for what the DSL has no words for, as far as the text reads.      *)
(***************************************************************************)
PublishedSurvivesText ==
  /\ DraftSurvivesText
  /\ ~written /\ SaysStrings(Build(asked)) =>
       PatternsOf(PatternToDsl(Build(asked))) \subseteq {<<Washed(Build(asked))>>}
  /\ \A p \in Mined : SurvivesText(AsWritten(p, "discovered"))
=============================================================================
