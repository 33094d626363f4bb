---------------------------- MODULE MCPublishing ----------------------------
(***************************************************************************)
(* Discovery in a small court: trust and betrayal between three people, in *)
(* every way two edges can share a node, and in every Allen relation; and  *)
(* another generator with two patterns of its own.                         *)
(*                                                                         *)
(* An author with seventeen things to declare, some that only make sense   *)
(* after others and some that never do, and a document of up to three      *)
(* items that refer to one another.                                        *)
(***************************************************************************)
EXTENDS Publishing

MCNodes == {"ann", "bob", "eve"}

Meeting(x, label, y, iv) == [source |-> x, label |-> label, target |-> y, interval |-> iv]

MCEdges == { Meeting("ann", "trusts", "bob", Bounded(0, 2)), Meeting("ann", "trusts", "bob", Bounded(3, 4)),
             Meeting("eve", "trusts", "ann", Bounded(0, 1)), Meeting("bob", "betrays", "ann", Bounded(2, 3)),
             Meeting("ann", "betrays", "eve", Bounded(1, 3)), Meeting("eve", "betrays", "bob", Open(3)),
             Meeting("eve", "betrays", "bob", Bounded(1, 2)), Meeting("bob", "trusts", "eve", Bounded(0, 4)) }

\* What the theorem about mining asks
ASSUME AsTheoremsAsk == ProperEdges

MCMinSupport == <<1, 10>>
MCMinConfidence == <<1, 2>>
MCLabelOrder == <<"betrays", "trusts">>

One(name, label) == Plain(name, <<Stage("e1", <<Clause("e1", label, Bind("who"))>>)>>)

MCProposals == {One("trust", "trusts"), One("grief", "grieves")}

-----------------------------------------------------------------------------
MCNumerals == ("0" :> 0) @@ ("1" :> 1) @@ ("2" :> 2) @@ ("3" :> 3)

Strings == {"type", "betrayal", "calm", "actor", "power", "high", "a", "b", "theme", "",
            "trusts", "betrays", "grieves", "ann", "n"}
MCQuoted == [w \in {"'" \o s \o "'" : s \in Strings} |-> CHOOSE s \in Strings : w = "'" \o s \o "'"]

Str(s) == [str |-> s]
IsA(x, s) == EdgeTo(x, "type", ToLiteral(Str(s)))

MCHeaders == { [private |-> FALSE, advance_in_place |-> FALSE, importance |-> 1],
               [private |-> TRUE, advance_in_place |-> TRUE, importance |-> 2] }

MCPreamble == <<"template", "deed", "(", "who", ",", "what", ")", "{",
                  "stage", "t1", "{", "t1", ".", "type", "=", "'a'", "t1", ".", "actor", "->", "who", "}",
                  "stage", "t2", "{", "?", "t1", ".", "power", ">", "?", "what", "}", "}">>

Says(text, call) == [text |-> text, call |-> call]

Asks(stage) == [method |-> "stage", stage |-> stage]

FirstDeed == Says(<<"stage", "e1", "{", "e1", ".", "type", "=", "'betrayal'", "e1", ".", "'power'", "->", "?", "n", "}">>,
                  Asks(StageOf("e1", <<IsA("e1", "betrayal"), EdgeTo("e1", "power", ToVar("n"))>>)))

\* A stage whose name is a keyword
Aftermath == Says(<<"stage", "after", "{", "!", "after", ".", "type", "=", "'calm'",
                      "?", "n", ".", "actor", ">=", "'high'", "after", ".", "actor", "=", "?", "n", "}">>,
                  Asks(StageOf("after", <<NotEdge("after", "type", ToLiteral(Str("calm"))),
                                          EdgeTo("n", "actor", Constrained(">=", Str("high"))),
                                          EdgeTo("after", "actor", Compared("=", "n"))>>)))

\* Reads what it binds itself, too late
TooSoon == Says(<<"stage", "e2", "{", "e2", ".", "power", "<", "?", "m", "e2", ".", "power", "->", "?", "m", "}">>,
                Asks(StageOf("e2", <<EdgeTo("e2", "power", Compared("<", "m")), EdgeTo("e2", "power", ToVar("m"))>>)))

Valued == Says(<<"stage", "e3", "{", "e3", ".", "actor", "->", "ann", "e3", ".", "power", "<=", "-", "3", "}">>,
               Asks(StageOf("e3", <<EdgeTo("e3", "actor", ToLiteral([node |-> "ann"])),
                                    EdgeTo("e3", "power", Constrained("<=", [num |-> -3]))>>)))

Either == Says(<<"stage", "e4", "{", "e4", ".", "type", "in", "[", "'a'", ",", "'b'", "]", "}">>,
               Asks(StageOf("e4", <<EdgeTo("e4", "type", AnyOf(<<Str("a"), Str("b")>>))>>)))

Together == Says(<<"concurrent", "{", "stage", "c1", "{", "c1", ".", "actor", "=", "?", "k", "}",
                     "stage", "c2", "{", "c2", ".", "actor", "->", "?", "k", "}", "}">>,
                 [method |-> "group", stages |-> <<StageOf("c1", <<EdgeTo("c1", "actor", Compared("=", "k"))>>),
                                                   StageOf("c2", <<EdgeTo("c2", "actor", ToVar("k"))>>)>>])

\* Reads what only the other group binds
Alike == Says(<<"concurrent", "{", "stage", "g1", "{", "g1", ".", "actor", "=", "?", "k", "}",
                  "stage", "g2", "{", "g2", ".", "type", "=", "'b'", "}", "}">>,
              [method |-> "group", stages |-> <<StageOf("g1", <<EdgeTo("g1", "actor", Compared("=", "k"))>>),
                                                StageOf("g2", <<IsA("g2", "b")>>)>>])

Deed == Says(<<"instantiate", "deed", "(", "'ann'", ",", "'n'", ")">>,
             [method |-> "instance",
              stages |-> <<StageOf("t1", <<IsA("t1", "a"), EdgeTo("t1", "actor", ToLiteral([node |-> "ann"]))>>),
                           StageOf("t2", <<EdgeTo("t1", "power", Compared(">", "n"))>>)>>])

Calm == <<"{", "x", ".", "type", "=", "'calm'", "x", ".", "actor", "=", "?", "n", "}">>
CalmClauses == <<IsA("x", "calm"), EdgeTo("x", "actor", Compared("=", "n"))>>

NotBetween == Says(<<"unless", "between", "e1", "after">> \o Calm,
                   [method |-> "between", from |-> "e1", to |-> "after", clauses |-> CalmClauses])

NotAfter == Says(<<"unless", "after", "after">> \o Calm,
                 [method |-> "after", from |-> "after", clauses |-> CalmClauses])

NotAtAll == Says(<<"unless", "{", "x", ".", "type", "=", "'calm'", "}">>,
                 [method |-> "global", clauses |-> <<IsA("x", "calm")>>])

Soon == Says(<<"temporal", "e1", "finished_by", "after", "gap", "1", "..">>,
             [method |-> "temporal", left |-> "e1", relation |-> "FinishedBy", right |-> "after",
              gap |-> {[min |-> {1}, max |-> {}]}])

Themed == Says(<<"meta", "(", "'theme'", ",", "'high'", ")", "meta", "(", "'theme'", ",", "'calm'", ")">>,
               [method |-> "metadata", key |-> "theme", value |-> "calm"])

ThreeTicks == Says(<<"deadline", "3">>, [method |-> "deadline", ticks |-> 3])
NoTicks    == Says(<<"deadline", "0">>, [method |-> "deadline", ticks |-> 0])

Var(x) == [var |-> x]
Op(o, l, r) == [op |-> o, left |-> l, right |-> r]
Total == Says(<<"let", "total", "=", "?", "n", "-", "1", "-", "(", "?", "n", "+", "2", ")", "*", "?", "n">>,
              [method |-> "let", name |-> "total",
               expr |-> Op("-", Op("-", Var("n"), [value |-> [num |-> 1]]),
                           Op("*", Op("+", Var("n"), [value |-> [num |-> 2]]), Var("n")))])

\* Only of the builder: a range, anything at all, inactivity
Unsaid == Says(<< >>, Asks(StageOf("e5", <<EdgeTo("e5", "power", InRange(Str("a"), Str("b"))),
                                           EdgeTo("e5", "actor", Anything)>>)))
Patience == Says(<< >>, [method |-> "inactivity", ticks |-> 2])

MCDeclarations == { FirstDeed, Aftermath, TooSoon, Valued, Either, Together, Alike, Deed, NotBetween,
                    NotAfter, NotAtAll, Soon, Themed, ThreeTicks, NoTicks, Total, Unsaid, Patience }

\* Two stages of which neither needs the other
Apart == Says(<<"concurrent", "{", "stage", "c1", "{", "c1", ".", "type", "=", "'a'", "}",
                  "stage", "c2", "{", "c2", ".", "type", "=", "'b'", "}", "}">>,
              [method |-> "group", stages |-> <<StageOf("c1", <<IsA("c1", "a")>>),
                                                StageOf("c2", <<IsA("c2", "b")>>)>>])

TemplateDeclarations == { FirstDeed, Deed, Either, Apart }

-----------------------------------------------------------------------------
ShortPattern(name, label) ==
  <<"pattern", name, "{", "stage", "e1", "{", "e1", ".", label, "->", "?", "x", "}", "}">>

MCItems == { ShortPattern("a", "actor"), ShortPattern("a", "power"), ShortPattern("b", "actor"),
             <<"compose", "c", "=", "a", ">>", "b", "sharing", "(", "x", ")">>,
             <<"compose", "c", "=", "a", "|", "b">>,
             <<"compose", "b", "=", "c", "*", "1", "..">>,
             <<"graph", "{", "@", "1", "..", "3", "ann", ".", "actor", "->", "bob", "now", "=", "2", "}">>,
             <<"pattern", "d", "{", "instantiate", "deed", "(", "'ann'", ",", "'n'", ")", "}">>,
             <<"template", "deed", "(", "x", ",", "y", ")", "{", "stage", "t", "{", "t", ".", "actor", "->", "x", "}", "}">> }
=============================================================================
