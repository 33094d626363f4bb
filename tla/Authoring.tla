----------------------------- MODULE Authoring ------------------------------
(***************************************************************************)
(* An author at work: a pattern grows declaration by declaration, each     *)
(* written as text and asked of the builder at once, or a document grows   *)
(* item by item.  At any moment the text may be read.                      *)
(***************************************************************************)
EXTENDS Emission

CONSTANTS
  Declarations,      \* records [text, call]; without text, only of the builder
  Headers,           \* records [private, advance_in_place, importance]
  Preamble,          \* templates declared before the pattern
  Items,             \* texts of document items
  MaxDeclarations, MaxItems

ASSUME AuthoringAssumption == MaxDeclarations \in Nat /\ MaxItems \in Nat

VARIABLES
  draft,      \* the text of the pattern's body
  asked,      \* the builder
  declared,   \* [all, instances, displaced]: how many declarations, how many of
              \* them template instances, and whether a group or a let came after one
  written,    \* all of them have a text
  document    \* the texts of the items

authoringVars == <<draft, asked, declared, written, document>>

(***************************************************************************)
(* What a declaration asks of the builder.  An instance of a template asks *)
(* for the stages it stands for, under anchors that are the instance's.    *)
(***************************************************************************)
OwnStages(stages, idx) ==
  LET anchors == {stages[i].anchor : i \in DOMAIN stages}
      Own(x)  == IF x \in anchors THEN "inst" \o ToString(idx) \o "__" \o x ELSE x
      Source(c) == [c EXCEPT !.source = Own(@)]
  IN  Each(LAMBDA s : StageOf(Own(s.anchor), Each(Source, s.clauses)), stages)

Ask(b, call, idx) ==
  CASE call.method = "stage"      -> AddStage(b, call.stage)
    [] call.method = "group"      -> AddUnorderedGroup(b, call.stages)
    [] call.method = "instance"   -> FoldLeft(AddStage, b, OwnStages(call.stages, idx))
    [] call.method = "temporal"   -> AddTemporal(b, call.left, call.relation, call.right, call.gap)
    [] call.method = "between"    -> UnlessBetween(b, call.from, call.to, call.clauses)
    [] call.method = "after"      -> UnlessAfter(b, call.from, call.clauses)
    [] call.method = "global"     -> UnlessGlobal(b, call.clauses)
    [] call.method = "metadata"   -> AddMetadata(b, call.key, call.value)
    [] call.method = "deadline"   -> Deadline(b, call.ticks)
    [] call.method = "inactivity" -> InactivityThreshold(b, call.ticks)
    [] call.method = "let" ->
         [b EXCEPT !.stages[Len(b.stages)] = LetBinding(@, call.name, call.expr)]

AuthoringInit ==
  /\ draft = << >> /\ declared = [all |-> 0, instances |-> 0, displaced |-> FALSE] /\ written = TRUE
  /\ \E h \in Headers :
       LET b0 == Importance(NewPattern("p"), h.importance)
           b1 == IF h.private THEN Private(b0) ELSE b0
       IN  asked = IF h.advance_in_place THEN AdvanceInPlace(b1) ELSE b1
  /\ document = << >>

\* A let needs a stage to stand in.
Declare(d) ==
  /\ document = << >> /\ declared.all < MaxDeclarations
  /\ d.call.method = "let" => asked.stages # << >>
  /\ draft' = draft \o d.text
  /\ asked' = Ask(asked, d.call, declared.instances)
  /\ declared' = [all |-> declared.all + 1,
                  instances |-> declared.instances + (IF d.call.method = "instance" THEN 1 ELSE 0),
                  displaced |-> declared.displaced \/ (d.call.method \in {"group", "let"} /\ declared.instances > 0)]
  /\ written' = (written /\ d.text # << >>)
  /\ UNCHANGED document

AddItem(text) ==
  /\ declared.all = 0 /\ Len(document) < MaxItems
  /\ document' = Append(document, text)
  /\ UNCHANGED <<draft, asked, declared, written>>

AuthoringNext ==
  \/ \E d \in Declarations : Declare(d)
  \/ \E text \in Items : AddItem(text)

-----------------------------------------------------------------------------
\* The draft as a whole text
Header ==
  (IF asked.private THEN <<"private">> ELSE << >>)
  \o (IF asked.advance_in_place THEN <<"advance_in_place">> ELSE << >>)
  \o <<"pattern", "p">> \o (IF asked.importance = 1 THEN << >> ELSE <<"importance", "2">>)

PatternsOf(text) == {d.patterns : d \in ReadDocument(text)}

DraftRead == PatternsOf(Preamble \o Header \o <<"{">> \o draft \o <<"}">>)

\* A text means what its declarations ask of the builder, in whichever order
\* and however often they come: parser and compiler add nothing, lose nothing
\* and confuse nothing.  The exception is what stands after a template instance: a
\* let goes to the last declared stage before it, and for a group see
\* GroupsAreTheBlocks.
TextMeansCalls ==
  written /\ ~declared.displaced => DraftRead \subseteq {<<Build(asked)>>}

\* The stages of a concurrent block form a group, whatever stands before it:
\* "each entry contains the stage indices (into stages) that form a concurrent
\* group", ast.rs:102.
GroupsAreTheBlocks ==
  written => \A ps \in DraftRead : ps[1].groups = asked.groups

-----------------------------------------------------------------------------
\* Stages that are done before stage i can be begun, whichever order the
\* members of a group come in, and those that may be
DoneBefore(p, i) ==
  {j \in 1..(i - 1) : \A g \in DOMAIN p.groups : ~({i, j} \subseteq ToSet(p.groups[g]))}

BoundIn(p, js) ==
  UNION {{p.stages[j].anchor} \cup BindsOf(p.stages[j].clauses) \cup LetNames(p.stages[j]) : j \in js}

\* The other members of its groups
Siblings(p, i) ==
  UNION {ToSet(p.groups[g]) : g \in {h \in DOMAIN p.groups : i \in ToSet(p.groups[h])}} \ {i}

\* Variables only anchors and clauses to nodes bind hold nodes; here every
\* clause binds a number.
Numbers(p, i) ==
  LET vars == BoundIn(p, 1..(i - 1)) \cup BindsOf(p.stages[i].clauses) \cup {p.stages[i].anchor}
      anchors == {p.stages[j].anchor : j \in DOMAIN p.stages}
  IN  [x \in vars |-> IF x \in anchors THEN [node |-> x] ELSE [num |-> 1]]

\* In a pattern that was accepted, what a stage compares with has a writer: an
\* earlier clause of its own, a stage that must be done before, or a sibling of
\* its group, "symmetric scoping", dsl.md:216 - a sibling of another group or a
\* later stage will not do; and its let bindings have values, no name being
\* taken, as long as they divide by nothing and reckon with no anchor.
EveryReadHasAWriter ==
  \A ps \in DraftRead : \A i \in DOMAIN ps[1].stages :
    LET p == ps[1]
        s == p.stages[i]
        Reads(k) == IF s.clauses[k].target.kind = "compared" THEN {s.clauses[k].target.var} ELSE {}
    IN  /\ \A k \in DOMAIN s.clauses :
             Reads(k) \subseteq BoundIn(p, DoneBefore(p, i) \cup Siblings(p, i)) \cup {s.anchor}
                                \cup BindsOf(SubSeq(s.clauses, 1, k - 1))
        /\ EvalStageLets(s, Numbers(p, i)) # {}

-----------------------------------------------------------------------------
SaysStrings(p) ==
  LET Values(t) == CASE t.kind \in {"literal", "constraint"} -> {t.value}
                     [] t.kind = "one_of"                    -> ToSet(t.values)
                     [] OTHER                                -> {}
      Said(cs)  == UNION {Values(cs[i].target) : i \in DOMAIN cs}
  IN  \A v \in UNION {Said(p.stages[i].clauses) : i \in DOMAIN p.stages}
               \cup UNION {Said(p.negations[i].clauses) : i \in DOMAIN p.negations} : DOMAIN v = {"str"}

NoLets(p) == \A i \in DOMAIN p.stages : p.stages[i].lets = << >>

\* p goes through text and comes back washed and not otherwise changed
SurvivesText(p) == PatternsOf(PatternToDsl(p)) = {<<Washed(p)>>}

\* A negation that opens and closes inside one group: the compiler refuses it
\* when it is written, the builder makes it of a global one when all the stages
\* are concurrent.
WindowInGroup(p) ==
  \E i \in DOMAIN p.negations, g \in DOMAIN p.groups :
    /\ p.negations[i].between_end # {}
    /\ p.negations[i].between_start \cup p.negations[i].between_end
         \subseteq {p.stages[j].anchor : j \in ToSet(p.groups[g])}

\* What an author wrote and the compiler took
Taken == written /\ ~declared.displaced /\ DraftRead # {}

\* What was taken can be emitted and read again, if it has a stage for its
\* negations to begin at and no window inside a group.
DraftSurvivesText ==
  LET p == Build(asked)
  IN  p.stages # << >> /\ SaysStrings(p) /\ NoLets(p) /\ ~WindowInGroup(p) /\ Taken => SurvivesText(p)

\* A document is read as it was written, from the beginning: what comes later
\* in it takes nothing back, and repairs nothing.
ReadingIsIncremental ==
  document # << >> =>
    LET Whole == ReadDocument(FlattenSeq(document))
        Begun == ReadDocument(FlattenSeq(Front(document)))
    IN  \A d \in Whole : \E e \in Begun :
          IsPrefix(e.patterns, d.patterns) /\ IsPrefix(e.graphs, d.graphs)
=============================================================================
